------------------------------ MODULE VoiceConn ------------------------------
(***************************************************************************)
(* One voice connection of a recorder in a call (recorderConn and          *)
(* renewableGateway, voice/gateway.go): how it comes back after the voice  *)
(* server closes it, falls silent, moves the call or refuses its token.    *)
(*                                                                         *)
(* The voice library (disgo) and Discord are external.  The library dials  *)
(* once it has both the recorder's voice state and a server named since    *)
(* the join; Discord names a server, with a token of its own, by a number, *)
(* and its events reach the recorder in order.  Everything the recorder    *)
(* itself does under one lock, or in one call that waits on nothing, is    *)
(* one action.                                                             *)
(***************************************************************************)
EXTENDS Integers, FiniteSets, SequencesExt

CONSTANTS
  Handlers, Nobody, \* the close handlers that may run at once, and none
  MaxServers,       \* bound on the servers Discord names
  MaxGateways,      \* bound on the gateways the recorder builds
  ConnAllowances    \* how often each kind of disturbance may happen: bounds

None == 0
Present == -1  \* the recorder's own voice state, in a channel
Absent == -2   \* and in none
Servers == 1 .. MaxServers
NotNamed == "unknown"
LossCauses == {"closed", "moved", "heartbeat", "silent", "dave"}
Closings == {"closed", "heartbeat", "silent", "terminated", "fatal"}
RejoinSteps == {"open", "sending", "wait", "result", "retry", "leaving", "leavingLate", "left"}
HandlerSteps == {"idle", "lookup", "check", "giveup", "renew", "hand", "start"} \cup RejoinSteps
WaitOutcomes == {"none", "connected", "closed", "refused", "failed"}
ConnDisturbances == {"move", "drop", "kick", "delete", "stale", "silence", "stall", "outage",
                     "mute", "stop", "window"}

ASSUME ConnAssumption ==
  /\ MaxServers \in Nat \ {0} /\ MaxGateways \in Nat \ {0} /\ Nobody \notin Handlers
  /\ IsFiniteSet(Handlers) /\ ConnAllowances \subseteq [ConnDisturbances -> Nat]

VARIABLES
  conn,      \* recorderConn's fields: closed, last, dropped, held, shunned, rejoin, attempt, answer
  gate,      \* renewableGateway's: gw (which it built), opened, connected, losses, cause, at loss
  dial,      \* the dialing under way: "none", "dialing", "waiting" for the description, "check"
  sock,      \* the gateway's socket past its Ready: the server it is at, None for none, and
             \* whether its session description came
  handlers,  \* what each close handler, and the rejoin it may run, is doing
  timers,    \* the servers a redeliver timer holds
  lib,       \* the library: st and sv, what it has for its next dial, in, and who waits on Open
  discord,   \* at, the server of the call; in; gone; named; stale tokens; a call it has yet to end
  inbox,     \* Discord's events on their way to the recorder
  online,    \* the recorder's own session is up
  past,      \* history: sent, what went out since the close and whose update it was; midway,
             \* the handlers whose update had passed the check as it closed; crossed, a close
             \* was handed to no rejoin while another's was between its check and its note
  connLeft   \* disturbances still to come, by kind

connVars ==
  <<conn, gate, dial, sock, handlers, timers, lib, discord, inbox, online, past, connLeft>>

Rest == [at |-> "idle", err |-> "none", loss |-> 0, opened |-> None, cause |-> NotNamed, gw |-> 0,
         outcome |-> "none", cancelled |-> FALSE]
NoSock == [at |-> None, described |-> FALSE]
NoSocket == sock' = NoSock
Up == sock.at # None
MayConn(k) == connLeft[k] > 0
Use(k) == MayConn(k) /\ connLeft' = [connLeft EXCEPT ![k] = @ - 1]

ConnTypeOK ==
  /\ conn \in [closed : BOOLEAN, last : 0 .. MaxServers, dropped : 0 .. MaxServers,
               held : 0 .. MaxServers, shunned : 0 .. MaxServers, rejoin : Handlers \cup {Nobody},
               attempt : Handlers \cup {Nobody}, answer : Handlers \cup {Nobody}]
  /\ gate \in [gw : 1 .. MaxGateways, opened : Servers, connected : BOOLEAN, losses : Nat,
               cause : LossCauses \cup {NotNamed}, lostAt : 0 .. MaxServers]
  /\ dial \in {"none", "dialing", "waiting", "check"} /\ online \in BOOLEAN
  /\ sock \in [at : 0 .. MaxServers, described : BOOLEAN]
  /\ handlers \in [Handlers -> [at : HandlerSteps, err : Closings \cup {"none"}, loss : Nat, opened : 0 .. MaxServers,
                                cause : LossCauses \cup {NotNamed}, gw : 0 .. MaxGateways,
                                outcome : WaitOutcomes, cancelled : BOOLEAN]]
  /\ timers \subseteq Servers
  /\ past \in [sent : Seq([what : {"join", "leave"}, by : Handlers \cup {Nobody}]),
               midway : SUBSET Handlers, crossed : BOOLEAN]
  /\ connLeft \in [ConnDisturbances -> Nat]

(* A recording has just started: connected where Discord put the call.     *)
ConnInit ==
  /\ conn = [closed |-> FALSE, last |-> 1, dropped |-> None, held |-> None, shunned |-> None,
             rejoin |-> Nobody, attempt |-> Nobody, answer |-> Nobody]
  /\ gate = [gw |-> 1, opened |-> 1, connected |-> TRUE, losses |-> 0, cause |-> NotNamed, lostAt |-> None]
  /\ dial = "none" /\ sock = [at |-> 1, described |-> TRUE] /\ handlers = [h \in Handlers |-> Rest] /\ timers = {}
  /\ lib = [st |-> FALSE, sv |-> FALSE, in |-> TRUE, waiter |-> Nobody]
  /\ discord = [at |-> 1, in |-> TRUE, gone |-> FALSE, named |-> 1, stale |-> {}, out |-> FALSE, ends |-> None]
  /\ inbox = <<>> /\ online = TRUE
  /\ past = [sent |-> <<>>, midway |-> {}, crossed |-> FALSE] /\ connLeft \in ConnAllowances

----------------------------------------------------------------------------
(* The gateway's own steps, each under its lock.                           *)

(* disconnectLocked: a gateway that is connected, or never lost a call     *)
(* yet, loses it.                                                          *)
Disconnected(g, why) ==
  IF g.connected \/ g.losses = 0
  THEN [g EXCEPT !.connected = FALSE, !.losses = @ + 1, !.cause = why, !.lostAt = g.opened]
  ELSE g

(* renewLocked: a new gateway, which identifies where the old would resume.*)
Renewed(g, why) == Disconnected([g EXCEPT !.gw = @ + 1], why)

(* renewAfter: what came back during the lookup counts as lost all along.  *)
(* Wrong on purpose, to test ImplementsLink: a loss of its own.            *)
RenewedAnew(g, loss, why) == Renewed(IF loss = g.losses THEN [g EXCEPT !.cause = why] ELSE g, why)
RenewedAfter(g, loss, why) ==
  Renewed(IF loss = g.losses THEN [g EXCEPT !.connected = FALSE] ELSE g, why)

(* startDial: every dial goes to the server Discord named last, whatever   *)
(* server the library holds.                                               *)
Dialed(g) == [(IF g.connected THEN Disconnected(g, "moved") ELSE g) EXCEPT !.opened = conn.last]

(* The library has the recorder's voice state and a server: it dials, and  *)
(* wants both again for the next.                                          *)
Opens(st, sv) == st /\ sv
AfterEvent(st, sv, in) ==
  IF Opens(st, sv) /\ in THEN lib' = [lib EXCEPT !.st = FALSE, !.sv = FALSE, !.in = in]
  ELSE lib' = [lib EXCEPT !.st = st, !.sv = sv, !.in = in]

(* endRejoin, cancelRejoin: the rejoin under way ends once, its try for    *)
(* the first cause, even where the library's wait has just succeeded.      *)
Cancelled(hs) ==
  IF conn.rejoin = Nobody THEN hs ELSE [hs EXCEPT ![conn.rejoin].cancelled = TRUE]
EndAttempt(hs, why) ==
  IF conn.attempt = Nobody \/ hs[conn.attempt].outcome \notin {"none", "connected"} THEN hs
  ELSE [hs EXCEPT ![conn.attempt].outcome = why]

(* Discord and the recorder's session: what one voice state update does.   *)
(* A join of the channel it is in is answered with its voice state alone,  *)
(* a fresh one with a server and a new token too, in either order.         *)
HearsJoin ==
  IF discord.gone THEN UNCHANGED <<discord, inbox>>
  ELSE IF discord.in THEN inbox' = Append(inbox, Present) /\ UNCHANGED discord
  ELSE LET n == discord.named + 1 IN
    /\ n \in Servers
    /\ discord' = [discord EXCEPT !.in = TRUE, !.at = n, !.named = n, !.ends = None]
    /\ \E q \in {<<Present, n>>, <<n, Present>>} : inbox' = inbox \o q
HearsLeave ==
  /\ discord' = [discord EXCEPT !.in = FALSE]
  /\ inbox' = IF discord.in THEN Append(inbox, Absent) ELSE inbox
Sends(what, by) ==
  /\ IF what = "join" THEN HearsJoin ELSE HearsLeave
  /\ past' = IF conn.closed THEN [past EXCEPT !.sent = Append(@, [what |-> what, by |-> by])]
             ELSE past

----------------------------------------------------------------------------
(* A close handler.                                                        *)

(* The voice server closes the connection, or its heartbeat answer or its  *)
(* datagrams are overdue: the loss starts here, a 4022's with no cause yet.*)
(* The drop of a silent server hands its close over at once.               *)
Lost(h, err) ==
  LET why == CASE err = "terminated" -> NotNamed
               [] err \in {"heartbeat", "silent"} -> err
               [] OTHER -> "closed"
      g == Disconnected(gate, why)
  IN /\ handlers[h].at = "idle" /\ gate' = g /\ NoSocket
     /\ handlers' = [handlers EXCEPT ![h] =
          [Rest EXCEPT !.err = err, !.loss = g.losses, !.opened = g.lostAt, !.gw = g.gw,
                       !.cause = IF err = "terminated" THEN NotNamed ELSE "closed",
                       !.at = CASE err = "terminated" -> "lookup"
                                [] err = "fatal"      -> "giveup"
                                [] OTHER              -> "renew"]]

(* The next handler to run: which of them it is does not matter.           *)
Free(h) == handlers[h].at = "idle" /\ h = CHOOSE k \in Handlers : handlers[k].at = "idle"
Beside == <<conn, dial, timers, lib, inbox, online, past>>
Drops(h) ==
  /\ Up /\ Free(h) /\ UNCHANGED Beside
  /\ \/ Use("drop") /\ Lost(h, "closed") /\ UNCHANGED discord
     \/ /\ sock.at = discord.at /\ Use("stale") /\ Lost(h, "closed")
        /\ discord' = [discord EXCEPT !.stale = @ \cup {discord.at}]
     \/ gate.connected /\ Use("silence") /\ UNCHANGED discord
        /\ \E err \in {"heartbeat", "silent"} : Lost(h, err)
     \/ sock.at = discord.ends /\ Lost(h, "terminated") /\ discord' = [discord EXCEPT !.ends = None]
        /\ UNCHANGED connLeft
     \/ ~discord.in /\ ~discord.gone /\ Lost(h, "fatal") /\ UNCHANGED <<discord, connLeft>>

(* The channel's lookup answers, and names the cause of the loss.  A call  *)
(* that moved left the server it was at, unless Discord named another.     *)
LookupAnswers(h) ==
  LET r == handlers[h]
      why == IF discord.gone THEN "closed" ELSE "moved"
  IN /\ r.at = "lookup"
     /\ gate' = IF r.loss = gate.losses /\ gate.cause = NotNamed THEN [gate EXCEPT !.cause = why] ELSE gate
     /\ conn' = IF why = "moved" /\ conn.last = r.opened THEN [conn EXCEPT !.shunned = conn.last] ELSE conn
     /\ handlers' = [handlers EXCEPT ![h].cause = why,
                       ![h].at = IF why = "moved" THEN "check" ELSE "giveup"]
     /\ UNCHANGED <<dial, sock, timers, lib, discord, inbox, online, past, connLeft>>

(* The library may have connected where the call moved to by then.         *)
ConnectedAtNamedLast == gate.connected /\ gate.opened = conn.last
Check(h) ==
  /\ handlers[h].at = "check"
  /\ handlers' = [handlers EXCEPT ![h] = IF ConnectedAtNamedLast THEN Rest ELSE [@ EXCEPT !.at = "renew"]]
  /\ UNCHANGED <<conn, gate, dial, sock, timers, lib, discord, inbox, online, past, connLeft>>

(* leaveSent: of a closed connection one leave goes out.                   *)
(* Wrong on purpose, to test CallsHold: any does.                          *)
LeaveToCome == FALSE
LeaveSent == \E i \in DOMAIN past.sent : past.sent[i].by = Nobody

(* The library takes the recorder out itself: its channel is gone, or the  *)
(* close is one that leaves.                                               *)
GivesUp(h) ==
  /\ handlers[h].at = "giveup" /\ handlers' = [handlers EXCEPT ![h] = Rest]
  /\ IF ~online \/ LeaveSent THEN UNCHANGED <<discord, inbox, past>>
     ELSE Sends("leave", Nobody)
  /\ NoSocket /\ dial' = "none"
  /\ UNCHANGED <<conn, gate, timers, lib, online, connLeft>>

(* A new gateway, built after the loss, takes the old one's place.         *)
Renew(h) ==
  LET r == handlers[h] IN
    /\ r.at = "renew" /\ gate.gw < MaxGateways
    /\ gate' = RenewedAfter(gate, r.loss, r.cause) /\ NoSocket
    /\ dial' = "none"
    /\ handlers' = [handlers EXCEPT ![h].at = "hand"]
    /\ UNCHANGED <<conn, timers, lib, discord, inbox, online, past, connLeft>>

(* A rejoin under way takes the close over: a second one would take over   *)
(* the library's wait for a connection, and the first never end.  The      *)
(* rejoin is noted only once the last socket's keepalive has ended, when   *)
(* another close may have come: a window.                                  *)
(* Wrong on purpose, to test CallsHold: the close is not handed over.      *)
HandsOver == FALSE
Handed == conn.rejoin # Nobody
CanRejoin == lib.in /\ ~conn.closed
Starts(h) ==
  IF CanRejoin
  THEN /\ conn' = [conn EXCEPT !.rejoin = h]
       /\ handlers' = [handlers EXCEPT ![h] = [Rest EXCEPT !.at = "open"]]
  ELSE handlers' = [handlers EXCEPT ![h] = Rest] /\ UNCHANGED conn
Crosses == past' = [past EXCEPT !.crossed = @ \/ \E k \in Handlers : handlers[k].at = "start"]
Hand(h) ==
  /\ handlers[h].at = "hand"
  /\ \/ /\ Handed /\ UNCHANGED <<conn, past, connLeft>>
        /\ handlers' = [EndAttempt(handlers, "closed") EXCEPT ![h] = Rest]
     \/ ~Handed /\ Starts(h) /\ Crosses /\ UNCHANGED connLeft
     \/ /\ ~Handed /\ Use("window") /\ Crosses /\ UNCHANGED conn
        /\ handlers' = [handlers EXCEPT ![h].at = "start"]
  /\ UNCHANGED <<gate, dial, sock, timers, lib, discord, inbox, online>>
Start(h) ==
  /\ handlers[h].at = "start" /\ Starts(h)
  /\ UNCHANGED <<gate, dial, sock, timers, lib, discord, inbox, online, past, connLeft>>

----------------------------------------------------------------------------
(* The rejoin.                                                             *)

At(h, to) == handlers' = [handlers EXCEPT ![h].at = to]

(* One try to join: the library throws away the server it held, and the    *)
(* update goes out, unless the recorder closed the connection or its       *)
(* session is down.  A try whose update did not go out waits to try again. *)
(* A server the recorder shuns is not kept for the answer.                 *)
Kept == IF conn.last = conn.shunned THEN None ELSE conn.last
Joins(h) ==
  /\ handlers[h].at = "open"
  /\ lib' = [lib EXCEPT !.sv = FALSE, !.waiter = h]
  /\ conn' = [conn EXCEPT !.attempt = h, !.dropped = IF conn.closed THEN @ ELSE Kept]
  /\ \/ /\ conn.closed \/ ~online
        /\ handlers' = [handlers EXCEPT ![h].at = "result", ![h].outcome = "failed"]
        /\ UNCHANGED <<discord, inbox, past, connLeft>>
     \/ /\ ~conn.closed /\ online /\ Sends("join", h) /\ UNCHANGED connLeft
        /\ handlers' = [handlers EXCEPT ![h].at = "wait", ![h].outcome = "none"]
     \/ /\ ~conn.closed /\ online /\ Use("window") /\ UNCHANGED <<discord, inbox, past>>
        /\ handlers' = [handlers EXCEPT ![h].at = "sending", ![h].outcome = "none"]
  /\ UNCHANGED <<gate, dial, sock, timers, online>>

(* The update goes out after what the try looked at has changed.           *)
SendsLate(h) ==
  /\ handlers[h].at \in {"sending", "leavingLate"}
  /\ IF online THEN /\ Sends(IF handlers[h].at = "sending" THEN "join" ELSE "leave", h)
                    /\ At(h, IF handlers[h].at = "sending" THEN "wait" ELSE "left")
     ELSE /\ UNCHANGED <<discord, inbox, past>>
          /\ IF handlers[h].at = "leavingLate" THEN At(h, "leaving")
             ELSE handlers' = [handlers EXCEPT ![h].at = "result", ![h].outcome = "failed"]
  /\ UNCHANGED <<conn, gate, dial, sock, timers, lib, online, connLeft>>

(* The wait ends with the connection, or with whatever ended the try.      *)
WaitEnds(h) ==
  /\ handlers[h].at = "wait" /\ (handlers[h].outcome # "none" \/ handlers[h].cancelled)
  /\ At(h, "result")
  /\ UNCHANGED <<conn, gate, dial, sock, timers, lib, discord, inbox, online, past, connLeft>>

(* What a try came to: the rejoin ends, tries again through the gateway    *)
(* that took the closed one's place, or leaves to join again.              *)
(* Wrong on purpose, to test CallsSettle: a refused token is tried again.  *)
LeavesNever(r) == FALSE
LeavesToJoin(r) == r.outcome = "refused"
Result(h) ==
  LET r == handlers[h]
      (* Not ended yet, it ends whichever rejoin is noted.                 *)
      done(c) == [c EXCEPT !.attempt = Nobody, !.rejoin = IF r.cancelled THEN @ ELSE Nobody]
      ended == IF r.cancelled THEN handlers ELSE Cancelled(handlers)
  IN /\ r.at = "result"
     /\ lib' = [lib EXCEPT !.waiter = IF @ = h THEN Nobody ELSE @]
     /\ \/ /\ r.outcome = "connected" \/ r.cancelled
           /\ conn' = done(conn) /\ handlers' = [ended EXCEPT ![h] = Rest]
           /\ UNCHANGED <<gate, sock, dial>>
        \/ /\ ~r.cancelled /\ LeavesToJoin(r) /\ gate.gw < MaxGateways
           /\ conn' = [conn EXCEPT !.attempt = Nobody, !.answer = h] /\ gate' = Renewed(gate, "closed")
           /\ NoSocket /\ dial' = "none" /\ At(h, "leaving")
        \/ /\ ~r.cancelled /\ r.outcome # "connected" /\ ~LeavesToJoin(r)
           /\ conn' = [conn EXCEPT !.attempt = Nobody] /\ UNCHANGED <<gate, sock, dial>>
           /\ At(h, IF r.outcome = "failed" THEN "retry" ELSE "open")
     /\ UNCHANGED <<timers, discord, inbox, online, past, connLeft>>

(* A second passes, or the rejoin is cancelled.                            *)
Retries(h) ==
  /\ handlers[h].at = "retry"
  /\ handlers' = [handlers EXCEPT ![h].at = IF handlers[h].cancelled THEN "result" ELSE "open"]
  /\ UNCHANGED <<conn, gate, dial, sock, timers, lib, discord, inbox, online, past, connLeft>>

(* The rejoin's own leave, sent until it goes out, and Discord's answer.   *)
Leaves(h) ==
  /\ handlers[h].at = "leaving"
  /\ \/ handlers[h].cancelled /\ At(h, "result") /\ conn' = [conn EXCEPT !.answer = Nobody]
        /\ UNCHANGED <<discord, inbox, past, connLeft>>
     \/ ~handlers[h].cancelled /\ online /\ ~conn.closed /\ Sends("leave", h) /\ At(h, "left")
        /\ UNCHANGED <<conn, connLeft>>
     \/ ~handlers[h].cancelled /\ online /\ ~conn.closed /\ Use("window") /\ At(h, "leavingLate")
        /\ UNCHANGED <<conn, discord, inbox, past>>
  /\ UNCHANGED <<gate, dial, sock, timers, lib, online>>
Left(h) ==
  /\ handlers[h].at = "left" /\ (conn.answer # h \/ handlers[h].cancelled)
  /\ At(h, IF handlers[h].cancelled THEN "result" ELSE "open")
  /\ conn' = [conn EXCEPT !.answer = Nobody]
  /\ UNCHANGED <<gate, dial, sock, timers, lib, discord, inbox, online, past, connLeft>>

----------------------------------------------------------------------------
(* The dialing.                                                            *)

(* A dial opens a socket at the server of the call.  The library refuses   *)
(* one through a gateway whose socket is open.                             *)
DialOpens ==
  /\ dial = "dialing" /\ gate.opened = discord.at /\ discord.in /\ gate.opened \notin discord.stale
  /\ IF Up THEN dial' = "none" /\ UNCHANGED sock
     ELSE dial' = "waiting" /\ sock' = [at |-> gate.opened, described |-> FALSE]
  /\ UNCHANGED <<conn, gate, handlers, timers, lib, discord, inbox, online, past, connLeft>>

(* A handler is between two steps that wait on nothing, where an answer of *)
(* the network or a timer comes only through a window.                     *)
Between == \E h \in Handlers :
  \/ handlers[h].at \in {"hand", "start", "open", "result"}
  \/ handlers[h].at = "wait" /\ handlers[h].outcome # "none"
Awaited == IF Between THEN Use("window") ELSE UNCHANGED connLeft

(* The session description connects the gateway, where Discord named the   *)
(* server last, and ends the library's wait wherever it is.                *)
Described ==
  /\ Up /\ ~sock.described /\ sock' = [sock EXCEPT !.described = TRUE]
  /\ gate' = IF gate.opened = conn.last THEN [gate EXCEPT !.connected = TRUE]
             ELSE Disconnected(gate, "moved")
  /\ dial' = IF dial = "waiting" THEN "check" ELSE dial
  /\ handlers' = IF lib.waiter = Nobody \/ handlers[lib.waiter].outcome # "none" THEN handlers
                 ELSE [handlers EXCEPT ![lib.waiter].outcome = "connected"]
  /\ Awaited /\ UNCHANGED <<conn, timers, lib, discord, inbox, online, past>>

(* Discord may have named another by then: a new gateway dials that.       *)
NamedLastIs == gate.opened = conn.last
DialDone ==
  /\ dial = "check" /\ gate.gw < MaxGateways
  /\ IF NamedLastIs THEN dial' = "none" /\ UNCHANGED <<gate, sock>>
     ELSE /\ gate' = [Renewed(gate, "moved") EXCEPT !.opened = conn.last]
          /\ dial' = "dialing" /\ NoSocket
  /\ UNCHANGED <<conn, handlers, timers, lib, discord, inbox, online, past, connLeft>>

(* The voice server refuses the token: the one the recorder held during a  *)
(* rejoin is shunned, and the rejoin leaves to join again.                 *)
DialRefused ==
  LET heldOne == conn.held # None /\ conn.held = gate.opened /\ conn.attempt # Nobody IN
    /\ dial = "dialing" /\ gate.opened \in discord.stale
    /\ dial' = "none"
    /\ conn' = IF heldOne THEN [conn EXCEPT !.shunned = conn.held, !.held = None] ELSE conn
    /\ handlers' = IF heldOne THEN EndAttempt(handlers, "refused") ELSE handlers
    /\ UNCHANGED <<gate, sock, timers, lib, discord, inbox, online, past, connLeft>>

(* DAVE's setup stalled, and the receiver starts over on a fresh           *)
(* connection where the call is.                                           *)
Reopen ==
  /\ Up /\ Use("stall") /\ gate.gw < MaxGateways
  /\ gate' = Dialed(Renewed(gate, "dave")) /\ dial' = "dialing" /\ NoSocket
  /\ UNCHANGED <<conn, handlers, timers, lib, discord, inbox, online, past>>

----------------------------------------------------------------------------
(* Discord's events, and the user's stop.                                  *)

(* A server named while a dial waits for its description ends that dial,   *)
(* whose gateway is replaced, unless the library's own next dial takes its *)
(* place first.                                                            *)
(* A rejoin that has yet to wait passes the library's own connection by,   *)
(* and the description that comes before its handover: windows too.        *)
Opening(opens) ==
  IF opens /\ (Between \/ dial = "check" \/ \E h \in Handlers : handlers[h].at = "retry")
  THEN Use("window") ELSE UNCHANGED connLeft
DialsAt(e) == gate' = [Dialed(gate) EXCEPT !.opened = e] /\ dial' = "dialing"
OpensNow(st, sv) == Opens(st, sv) /\ ~conn.closed
Deliver ==
  LET e == Head(inbox) IN
    /\ inbox # <<>> /\ online /\ inbox' = Tail(inbox) /\ UNCHANGED <<discord, online, past>>
    /\ e = Absent => UNCHANGED connLeft
    /\ \/ /\ e \in Servers
          /\ conn' = [conn EXCEPT !.last = e, !.dropped = None, !.held = None]
          /\ AfterEvent(lib.st, TRUE, lib.in) /\ UNCHANGED <<handlers, timers>>
          /\ UNCHANGED sock
          /\ \/ /\ dial # "waiting" /\ (OpensNow(lib.st, TRUE) \/ dial = "dialing")
                /\ DialsAt(e) /\ Opening(OpensNow(lib.st, TRUE))
             \/ /\ dial # "waiting" /\ ~OpensNow(lib.st, TRUE) /\ dial # "dialing"
                /\ UNCHANGED <<gate, dial, connLeft>>
             \/ dial = "waiting" /\ dial' = "check" /\ UNCHANGED <<gate, connLeft>>
             \/ dial = "waiting" /\ OpensNow(lib.st, TRUE) /\ Use("window") /\ DialsAt(e)
       \/ /\ e = Present /\ AfterEvent(TRUE, lib.sv, TRUE)
          /\ Opening(OpensNow(TRUE, lib.sv))
          /\ timers' = IF conn.dropped = None THEN timers ELSE timers \cup {conn.dropped}
          /\ UNCHANGED <<conn, handlers>>
          /\ IF OpensNow(TRUE, lib.sv) THEN gate' = Dialed(gate) /\ dial' = "dialing" /\ UNCHANGED sock
             ELSE UNCHANGED <<gate, dial, sock>>
       \/ /\ e = Absent /\ NoSocket /\ dial' = "none" /\ UNCHANGED <<gate, timers>>
          /\ lib' = [lib EXCEPT !.st = FALSE, !.in = FALSE]
          /\ IF conn.answer # Nobody
             THEN conn' = [conn EXCEPT !.answer = Nobody] /\ UNCHANGED handlers
             ELSE handlers' = Cancelled(handlers) /\ conn' = [conn EXCEPT !.rejoin = Nobody]

(* A join's answer named no server in time: the library gets back the one  *)
(* it threw away, unless Discord has named another since.                  *)
Redeliver(n) ==
  /\ n \in timers /\ timers' = timers \ {n} /\ Awaited
  /\ UNCHANGED <<handlers, discord, inbox, online, past, sock>>
  /\ IF conn.dropped # n \/ conn.closed THEN UNCHANGED <<conn, gate, dial, lib>>
     ELSE /\ conn' = [conn EXCEPT !.dropped = None, !.held = n]
          /\ AfterEvent(lib.st, TRUE, lib.in)
          /\ IF Opens(lib.st, TRUE) THEN gate' = Dialed(gate) /\ dial' = "dialing"
             ELSE UNCHANGED <<gate, dial>>

(* Updates past the check at the close that are yet to go out.             *)
InHand == {h \in Handlers : handlers[h].at \in {"sending", "leavingLate"}}
(* A stop, a failed join or a shutdown closes the connection: first its    *)
(* rejoin ends, then its leave goes out.                                   *)
Close ==
  /\ ~conn.closed /\ Use("stop")
  /\ conn' = [conn EXCEPT !.closed = TRUE, !.rejoin = Nobody]
  /\ handlers' = Cancelled(handlers) /\ past' = [past EXCEPT !.midway = InHand]
  /\ UNCHANGED <<gate, dial, sock, timers, lib, discord, inbox, online>>
CloseLeaves ==
  /\ conn.closed /\ online /\ ~LeaveSent /\ Sends("leave", Nobody)
  /\ NoSocket /\ dial' = "none"
  /\ UNCHANGED <<conn, gate, handlers, timers, lib, online, connLeft>>

(* Discord: the call moves, the recorder is taken out or its voice state   *)
(* changes, the channel goes, and the recorder's session drops for a while.*)
Moves ==
  LET n == discord.named + 1 IN
    /\ discord.in /\ n \in Servers /\ Use("move") /\ inbox' = Append(inbox, n)
    /\ discord' = [discord EXCEPT !.at = n, !.named = n, !.ends = sock.at]
TakenOut ==
  /\ discord.in /\ inbox' = Append(inbox, Absent)
  /\ \/ Use("kick") /\ discord' = [discord EXCEPT !.in = FALSE, !.out = TRUE]
     \/ Use("delete") /\ discord' = [discord EXCEPT !.in = FALSE, !.gone = TRUE, !.out = TRUE, !.ends = sock.at]
Muted == discord.in /\ Use("mute") /\ inbox' = Append(inbox, Present) /\ UNCHANGED discord
World ==
  /\ Moves \/ TakenOut \/ Muted
  /\ UNCHANGED <<conn, gate, dial, sock, handlers, timers, lib, online, past>>
Goes == online /\ Use("outage") /\ online' = FALSE
Returns == ~online /\ online' = TRUE /\ UNCHANGED connLeft
SessionTurns ==
  (Goes \/ Returns) /\ UNCHANGED <<conn, gate, dial, sock, handlers, timers, lib, discord, inbox, past>>

HandlerStep(h) ==
  LookupAnswers(h) \/ Check(h) \/ GivesUp(h) \/ Renew(h) \/ Hand(h) \/ Start(h) \/ Joins(h)
    \/ SendsLate(h) \/ WaitEnds(h) \/ Result(h) \/ Retries(h) \/ Leaves(h) \/ Left(h)
DialStep == DialOpens \/ Described \/ DialDone \/ DialRefused
ConnNext ==
  \/ \E h \in Handlers : Drops(h) \/ HandlerStep(h)
  \/ DialStep \/ Deliver \/ Close \/ CloseLeaves \/ World \/ SessionTurns \/ Reopen
  \/ \E n \in timers : Redeliver(n)
=============================================================================
