---------------------------- MODULE VoiceProofs -----------------------------
(***************************************************************************)
(* Proofs about a recorder's voice connection and the sockets under it,    *)
(* for every value of the constants: that the connection answers its       *)
(* receiver as VoiceLink promises, that one rejoin waits at a time, that   *)
(* only what was under way follows its leave, and that one socket is open. *)
(***************************************************************************)
EXTENDS MCVoice, SequenceTheorems, FiniteSetTheorems, TLAPS

Gates == [gw : 1 .. MaxGateways, opened : Servers, connected : BOOLEAN, losses : Nat,
          cause : LossCauses \cup {NotNamed}, lostAt : 0 .. MaxServers]

(* A handler at work on a loss was handed one that counted.                *)
LossesReal ==
  \A h \in Handlers : handlers[h].at \in {"lookup", "check", "renew"} => handlers[h].loss > 0

(* Until closes have crossed, the rejoin that is not cancelled is the one  *)
(* the connection has noted, and one about to be noted finds none.         *)
OneAtATime ==
  ~past.crossed => \A h \in Handlers :
    /\ Rejoining(h) => conn.rejoin = h
    /\ handlers[h].at = "start" =>
         conn.rejoin = Nobody /\ \A k \in Handlers : handlers[k].at = "start" => k = h

(* An update that goes out late was past the check as the recorder closed  *)
(* the connection, and is its handler's only one since.                    *)
QuietInv ==
  /\ ~conn.closed => past.sent = <<>>
  /\ conn.closed => \A h \in Handlers : handlers[h].at \in {"sending", "leavingLate"} =>
       h \in past.midway /\ \A i \in DOMAIN past.sent : past.sent[i].by # h
  /\ QuietAfterClose
ConnKept == ConnTypeOK /\ conn.last \in Servers /\ LossesReal
WindowKept == OneAtATime /\ QuietInv
ConnInv == ConnKept /\ WindowKept

(* The open socket is the one the receiver reads, and the one whose        *)
(* keepalive is not told to stop.                                          *)
SocketsInv ==
  /\ sockets \in Seq({"opening", "open", "closed"}) /\ keeping \subseteq Nat
  /\ udp \in [socket : Nat, key : BOOLEAN, stops : Nat, closing : Nat]
  /\ \A n \in 1 .. Len(sockets) : sockets[n] = "open" => n = udp.socket /\ n = udp.stops /\ n \in keeping

-----------------------------------------------------------------------------
(* The gateway's own steps, as the link's.                                 *)

(* From g to k the link takes a step or stands still.                      *)
LinkMoves(g, k) ==
  \/ k.connected = g.connected /\ k.losses = g.losses /\ k.cause = g.cause
  \/ k.connected /\ k.losses = g.losses /\ k.cause = g.cause
  \/ /\ g.connected \/ g.losses = 0
     /\ ~k.connected /\ k.losses = g.losses + 1 /\ k.cause \in LossCauses \cup {NotNamed}
  \/ /\ g.losses > 0 /\ g.cause = NotNamed /\ k.cause \in LossCauses
     /\ k.connected = g.connected /\ k.losses = g.losses
  \/ g.losses > 0 /\ ~k.connected /\ k.losses = g.losses /\ k.cause = g.cause

LEMMA DisconnectedMoves ==
  ASSUME NEW g \in Gates, NEW why \in LossCauses \cup {NotNamed}
  PROVE  LET d == Disconnected(g, why) IN
         d \in Gates /\ ~d.connected /\ d.losses > 0 /\ LinkMoves(g, d) /\ d.gw = g.gw /\ d.opened = g.opened
<1>1. CASE g.connected \/ g.losses = 0
  <2> DEFINE d == [g EXCEPT !.connected = FALSE, !.losses = @ + 1, !.cause = why, !.lostAt = g.opened]
  <2>1. /\ d.connected = FALSE /\ d.losses = g.losses + 1 /\ d.cause = why /\ d.gw = g.gw
        /\ d.opened = g.opened /\ d \in Gates
    <3>1. g.losses + 1 \in Nat /\ g.opened \in 0 .. MaxServers
      BY ConnAssumption DEF Gates, Servers
    <3> QED
      BY <3>1 DEF Gates
  <2>2. Disconnected(g, why) = d
    BY <1>1 DEF Disconnected
  <2> HIDE DEF d
  <2>3. d.losses > 0 /\ LinkMoves(g, d)
    BY <1>1, <2>1 DEF LinkMoves, Gates
  <2> QED
    BY <2>1, <2>2, <2>3
<1>2. CASE ~(g.connected \/ g.losses = 0)
  BY <1>2 DEF Disconnected, LinkMoves, Gates
<1> QED
  BY <1>1, <1>2

LEMMA RenewedMoves ==
  ASSUME NEW g \in Gates, NEW why \in LossCauses \cup {NotNamed}, g.gw < MaxGateways
  PROVE  LET d == Renewed(g, why) IN d \in Gates /\ ~d.connected /\ d.losses > 0 /\ LinkMoves(g, d)
<1> DEFINE k == [g EXCEPT !.gw = @ + 1]
<1>1. MaxGateways \in Nat
  BY ConnAssumption
<1>2. k \in Gates /\ k.connected = g.connected /\ k.losses = g.losses /\ k.cause = g.cause
  BY <1>1 DEF Gates
<1> HIDE DEF k
<1>3. Disconnected(k, why) \in Gates /\ ~Disconnected(k, why).connected
      /\ Disconnected(k, why).losses > 0 /\ LinkMoves(k, Disconnected(k, why))
  BY <1>2, DisconnectedMoves
<1>4. LinkMoves(g, Disconnected(k, why))
  BY <1>2, <1>3 DEF LinkMoves
<1>5. Renewed(g, why) = Disconnected(k, why)
  BY DEF Renewed, k
<1> QED
  BY <1>3, <1>4, <1>5

LEMMA RenewedAfterMoves ==
  ASSUME NEW g \in Gates, NEW why \in LossCauses \cup {NotNamed}, g.gw < MaxGateways,
         NEW loss \in Nat, loss > 0
  PROVE  LET d == RenewedAfter(g, loss, why) IN d \in Gates /\ LinkMoves(g, d)
<1>1. CASE loss = g.losses
  <2> DEFINE k == [g EXCEPT !.connected = FALSE]
  <2>1. k \in Gates /\ ~k.connected /\ k.losses = g.losses /\ k.cause = g.cause /\ k.losses > 0 /\ k.gw < MaxGateways
    BY <1>1 DEF Gates
  <2>2. RenewedAfter(g, loss, why) = Renewed(k, why)
    BY <1>1 DEF RenewedAfter
  <2> HIDE DEF k
  <2>3. Renewed(k, why) \in Gates
    BY <2>1, RenewedMoves
  <2>4. Renewed(k, why).connected = FALSE /\ Renewed(k, why).losses = k.losses /\ Renewed(k, why).cause = k.cause
    BY <2>1 DEF Renewed, Disconnected, Gates
  <2> QED
    BY <2>1, <2>2, <2>3, <2>4 DEF LinkMoves
<1>2. CASE loss # g.losses
  BY <1>2, RenewedMoves DEF RenewedAfter
<1> QED
  BY <1>1, <1>2

LEMMA DialedMoves ==
  ASSUME NEW g \in Gates, conn.last \in Servers
  PROVE  LET d == Dialed(g) IN
         d \in Gates /\ LinkMoves(g, d) /\ (~g.connected => d.connected = g.connected /\ d.losses = g.losses /\ d.cause = g.cause)
<1> DEFINE k == IF g.connected THEN Disconnected(g, "moved") ELSE g
<1>1. k \in Gates /\ LinkMoves(g, k) /\ (~g.connected => k = g)
  BY DisconnectedMoves DEF LinkMoves, LossCauses
<1>2. Dialed(g) = [k EXCEPT !.opened = conn.last]
  BY DEF Dialed
<1> HIDE DEF k
<1>3. /\ [k EXCEPT !.opened = conn.last] \in Gates
      /\ [k EXCEPT !.opened = conn.last].connected = k.connected
      /\ [k EXCEPT !.opened = conn.last].losses = k.losses
      /\ [k EXCEPT !.opened = conn.last].cause = k.cause
  BY <1>1 DEF Gates
<1> QED
  BY <1>1, <1>2, <1>3 DEF LinkMoves

(* Another server for the dial moves nothing of the link.                  *)
LEMMA OpenedMoves ==
  ASSUME NEW g \in Gates, NEW k \in Gates, LinkMoves(g, k), NEW e \in Servers
  PROVE  [k EXCEPT !.opened = e] \in Gates /\ LinkMoves(g, [k EXCEPT !.opened = e])
BY DEF Gates, LinkMoves

-----------------------------------------------------------------------------
(* Each step of the connection keeps the invariant and is one of the       *)
(* link's.                                                                 *)
HandlerRecord ==
  [at : HandlerSteps, err : Closings \cup {"none"}, loss : Nat, opened : 0 .. MaxServers,
   cause : LossCauses \cup {NotNamed}, gw : 0 .. MaxGateways, outcome : WaitOutcomes, cancelled : BOOLEAN]
ConnRecord ==
  [closed : BOOLEAN, last : 0 .. MaxServers, dropped : 0 .. MaxServers,
   held : 0 .. MaxServers, shunned : 0 .. MaxServers, rejoin : Handlers \cup {Nobody},
   attempt : Handlers \cup {Nobody}, answer : Handlers \cup {Nobody}]
Sockets == [at : 0 .. MaxServers, described : BOOLEAN]
Update == [what : {"join", "leave"}, by : Handlers \cup {Nobody}]
PastRecord == [sent : Seq(Update), midway : SUBSET Handlers, crossed : BOOLEAN]

(* The types, one by one.                                                  *)
LEMMA ConnParts ==
  ConnTypeOK <=>
    /\ conn \in ConnRecord /\ gate \in Gates /\ sock \in Sockets
    /\ dial \in {"none", "dialing", "waiting", "check"} /\ online \in BOOLEAN
    /\ handlers \in [Handlers -> HandlerRecord]
    /\ timers \subseteq Servers /\ past \in PastRecord
    /\ connLeft \in [ConnDisturbances -> Nat]
BY DEF ConnTypeOK, ConnRecord, Gates, Sockets, HandlerRecord, PastRecord, Update

LEMMA Spent ==
  ASSUME connLeft \in [ConnDisturbances -> Nat], NEW k \in ConnDisturbances, Use(k)
  PROVE  connLeft' \in [ConnDisturbances -> Nat]
BY DEF Use, MayConn

(* An update leaves an open connection's past alone, and is added to a     *)
(* closed one's.                                                           *)
LEMMA OpenSends ==
  ASSUME past \in PastRecord, NEW w \in {"join", "leave"}, NEW b \in Handlers \cup {Nobody}, Sends(w, b)
  PROVE  /\ past' \in PastRecord
         /\ ~conn.closed => past' = past
         /\ conn.closed => past' = [past EXCEPT !.sent = Append(@, [what |-> w, by |-> b])]
<1>1. [what |-> w, by |-> b] \in Update /\ past.sent \in Seq(Update)
  BY DEF Update, PastRecord
<1>2. Append(past.sent, [what |-> w, by |-> b]) \in Seq(Update)
  BY <1>1, AppendProperties
<1> QED
  BY <1>2 DEF Sends, PastRecord

(* Where no rejoin begins and none is noted anew, one is at a time still.  *)
LEMMA AloneStays ==
  ASSUME OneAtATime, past'.crossed = past.crossed, conn'.rejoin = conn.rejoin,
         \A k \in Handlers :
           /\ handlers'[k].at = "start" => handlers[k].at = "start"
           /\ handlers'[k].at \in RejoinSteps /\ ~handlers'[k].cancelled =>
                handlers[k].at \in RejoinSteps /\ ~handlers[k].cancelled
  PROVE  OneAtATime'
BY DEF OneAtATime, Rejoining

LEMMA QuietStays ==
  ASSUME QuietInv, past'.sent = past.sent, past'.midway = past.midway, conn'.closed = conn.closed,
         conn.closed => \A k \in Handlers :
           handlers'[k].at \in {"sending", "leavingLate"} => handlers[k].at \in {"sending", "leavingLate"}
  PROVE  QuietInv'
BY DEF QuietInv, QuietAfterClose

(* No handler's step to a rejoin, nor to an update yet to go out.          *)
LEMMA WindowStays ==
  ASSUME WindowKept, past' = past, conn'.rejoin = conn.rejoin, conn'.closed = conn.closed,
         \A k \in Handlers :
           /\ handlers'[k].at = "start" => handlers[k].at = "start"
           /\ handlers'[k].at \in RejoinSteps /\ ~handlers'[k].cancelled =>
                handlers[k].at \in RejoinSteps /\ ~handlers[k].cancelled
           /\ handlers'[k].at \in {"sending", "leavingLate"} => handlers[k].at \in {"sending", "leavingLate"}
  PROVE  WindowKept'
BY AloneStays, QuietStays DEF WindowKept

(* One more update of a closed connection: its own leave, or one under way *)
(* as it closed.                                                           *)
LEMMA QuietAdds ==
  ASSUME QuietInv, past \in PastRecord, conn.closed, conn'.closed = conn.closed,
         NEW w \in {"join", "leave"}, NEW b \in Handlers \cup {Nobody},
         past' = [past EXCEPT !.sent = Append(@, [what |-> w, by |-> b])],
         (w = "leave" /\ b = Nobody) \/ b \in past.midway,
         \A i \in DOMAIN past.sent : past.sent[i].by # b,
         \A k \in Handlers : handlers'[k].at \in {"sending", "leavingLate"} =>
           handlers[k].at \in {"sending", "leavingLate"} /\ k # b
  PROVE  QuietInv'
<1> DEFINE u == [what |-> w, by |-> b]
           n == Len(past.sent)
<1>1. past'.sent = Append(past.sent, u) /\ past'.midway = past.midway /\ past.sent \in Seq(Update) /\ u \in Update
  BY DEF PastRecord, Update
<1>2. /\ n \in Nat /\ DOMAIN past.sent = 1 .. n /\ DOMAIN past'.sent = 1 .. n + 1 /\ past'.sent[n + 1] = u
      /\ \A i \in 1 .. n : past'.sent[i] = past.sent[i]
  BY <1>1, AppendProperties, LenProperties
<1>3. u.what = w /\ u.by = b /\ (w = "leave" /\ b = Nobody => u = [what |-> "leave", by |-> Nobody])
  OBVIOUS
<1> HIDE DEF u, n
<1>4. ASSUME NEW i \in 1 .. n + 1
      PROVE  /\ past'.sent[i] = [what |-> "leave", by |-> Nobody] \/ past'.sent[i].by \in past.midway
             /\ \A j \in 1 .. i - 1 : past'.sent[j].by # past'.sent[i].by
  <2>1. CASE i = n + 1
    BY <1>2, <1>3, <2>1
  <2>2. CASE i # n + 1
    <3>1. i \in 1 .. n /\ \A j \in 1 .. i - 1 : j \in 1 .. n
      BY <1>2, <2>2
    <3> QED
      BY <1>2, <3>1 DEF QuietInv, QuietAfterClose
  <2> QED
    BY <2>1, <2>2
<1>5. QuietAfterClose'
  BY <1>1, <1>2, <1>4 DEF QuietAfterClose
<1>6. ASSUME NEW k \in Handlers, handlers'[k].at \in {"sending", "leavingLate"}, NEW i \in 1 .. n + 1
      PROVE  k \in past.midway /\ past'.sent[i].by # k
  <2>1. k \in past.midway /\ k # b /\ \A j \in 1 .. n : past.sent[j].by # k
    BY <1>2, <1>6 DEF QuietInv
  <2> QED
    BY <1>2, <1>3, <2>1
<1>7. \A k \in Handlers : handlers'[k].at \in {"sending", "leavingLate"} =>
        k \in past'.midway /\ \A i \in DOMAIN past'.sent : past'.sent[i].by # k
  <2> SUFFICES ASSUME NEW k \in Handlers, handlers'[k].at \in {"sending", "leavingLate"}
               PROVE  k \in past'.midway /\ \A i \in 1 .. n + 1 : past'.sent[i].by # k
    BY <1>2
  <2>1. 1 \in 1 .. n + 1
    BY <1>2
  <2> QED
    BY <1>1, <1>6, <2>1
<1> QED
  BY <1>5, <1>7 DEF QuietInv

(* What a handler's step writes, by its fields.                            *)
HandlerFuns == [Handlers -> HandlerRecord]
LEMMA RestTyped ==
  /\ Rest \in HandlerRecord /\ [Rest EXCEPT !.at = "open"] \in HandlerRecord
  /\ Rest.at = "idle" /\ [Rest EXCEPT !.at = "open"].at = "open" /\ ~Rest.cancelled
<1>1. 0 \in Nat /\ 0 \in 0 .. MaxServers /\ 0 \in 0 .. MaxGateways
  BY ConnAssumption
<1>2. /\ "none" \in Closings \cup {"none"} /\ "idle" \in HandlerSteps /\ "open" \in HandlerSteps
      /\ "none" \in WaitOutcomes
  BY DEF HandlerSteps, RejoinSteps, WaitOutcomes, Closings
<1> QED
  BY <1>1, <1>2 DEF Rest, HandlerRecord, None

(* A record put in a handler's place, and a field of one's.                *)
LEMMA PutsRecord ==
  ASSUME NEW fs \in HandlerFuns, NEW h \in Handlers, NEW r \in HandlerRecord
  PROVE  [fs EXCEPT ![h] = r] \in HandlerFuns
BY DEF HandlerFuns

LEMMA PutsAt ==
  ASSUME NEW fs \in HandlerFuns, NEW h \in Handlers, NEW to \in HandlerSteps
  PROVE  [fs EXCEPT ![h].at = to] \in HandlerFuns
<1>1. [fs[h] EXCEPT !.at = to] \in HandlerRecord
  BY DEF HandlerFuns, HandlerRecord
<1> QED
  BY <1>1 DEF HandlerFuns

LEMMA PutsOutcome ==
  ASSUME NEW fs \in HandlerFuns, NEW h \in Handlers, NEW o \in WaitOutcomes
  PROVE  [fs EXCEPT ![h].outcome = o] \in HandlerFuns
<1>1. [fs[h] EXCEPT !.outcome = o] \in HandlerRecord
  BY DEF HandlerFuns, HandlerRecord
<1> QED
  BY <1>1 DEF HandlerFuns

LEMMA PutsAtOutcome ==
  ASSUME NEW fs \in HandlerFuns, NEW h \in Handlers, NEW to \in HandlerSteps, NEW o \in WaitOutcomes
  PROVE  [fs EXCEPT ![h].at = to, ![h].outcome = o] \in HandlerFuns
BY PutsAt, PutsOutcome DEF HandlerFuns

LEMMA PutsCauseAt ==
  ASSUME NEW fs \in HandlerFuns, NEW h \in Handlers, NEW to \in HandlerSteps, NEW c \in LossCauses \cup {NotNamed}
  PROVE  [fs EXCEPT ![h].cause = c, ![h].at = to] \in HandlerFuns
<1>1. [[fs[h] EXCEPT !.cause = c] EXCEPT !.at = to] \in HandlerRecord
  BY ZenonT(30) DEF HandlerFuns, HandlerRecord
<1> QED
  BY <1>1 DEF HandlerFuns

(* Ending a try or cancelling a rejoin leaves every handler where it is.   *)
LEMMA EndsTry ==
  ASSUME NEW fs \in HandlerFuns, NEW why \in WaitOutcomes, conn \in ConnRecord
  PROVE  /\ EndAttempt(fs, why) \in HandlerFuns
         /\ \A k \in Handlers : EndAttempt(fs, why)[k] = [fs[k] EXCEPT !.outcome = EndAttempt(fs, why)[k].outcome]
<1>1. CASE conn.attempt = Nobody \/ fs[conn.attempt].outcome \notin {"none", "connected"}
  BY <1>1 DEF EndAttempt, HandlerFuns, HandlerRecord
<1>2. CASE ~(conn.attempt = Nobody \/ fs[conn.attempt].outcome \notin {"none", "connected"})
  <2>1. conn.attempt \in Handlers /\ EndAttempt(fs, why) = [fs EXCEPT ![conn.attempt].outcome = why]
    BY <1>2 DEF EndAttempt, ConnRecord
  <2>2. EndAttempt(fs, why) \in HandlerFuns
    <3>1. [fs EXCEPT ![conn.attempt].outcome = why] \in HandlerFuns
      BY <2>1, PutsOutcome
    <3> QED
      BY <2>1, <3>1
  <2> QED
    BY <2>1, <2>2 DEF HandlerFuns, HandlerRecord
<1> QED
  BY <1>1, <1>2

LEMMA CancelsRejoin ==
  ASSUME NEW fs \in HandlerFuns, conn \in ConnRecord
  PROVE  /\ Cancelled(fs) \in HandlerFuns
         /\ \A k \in Handlers : Cancelled(fs)[k] = [fs[k] EXCEPT !.cancelled = (@ \/ k = conn.rejoin)]
<1>1. CASE conn.rejoin = Nobody
  BY <1>1, ConnAssumption DEF Cancelled, HandlerFuns, HandlerRecord
<1>2. CASE conn.rejoin # Nobody
  <2>1. conn.rejoin \in Handlers /\ Cancelled(fs) = [fs EXCEPT ![conn.rejoin].cancelled = TRUE]
    BY <1>2 DEF Cancelled, ConnRecord
  <2>2. PICK h \in Handlers : h = conn.rejoin
    BY <2>1
  <2>3. [fs[h] EXCEPT !.cancelled = TRUE] \in HandlerRecord
    BY ZenonT(30) DEF HandlerFuns, HandlerRecord
  <2>4. Cancelled(fs) \in HandlerFuns
    BY <2>1, <2>2, <2>3 DEF HandlerFuns
  <2>5. ASSUME NEW k \in Handlers
        PROVE  Cancelled(fs)[k] = [fs[k] EXCEPT !.cancelled = (@ \/ k = conn.rejoin)]
    <3>1. fs[k] \in HandlerRecord
      BY DEF HandlerFuns
    <3> QED
      BY ZenonT(30), <2>1, <2>2, <3>1 DEF HandlerFuns, HandlerRecord
  <2> QED
    BY <2>4, <2>5
<1> QED
  BY <1>1, <1>2

LEMMA SpentAny ==
  ASSUME connLeft \in [ConnDisturbances -> Nat], UNCHANGED connLeft \/ \E k \in ConnDisturbances : Use(k)
  PROVE  connLeft' \in [ConnDisturbances -> Nat]
BY Spent

(* The steps of a close handler and of its rejoin.                         *)
LEMMA CheckKept ==
  ASSUME ConnInv, NEW h \in Handlers, Check(h)
  PROVE  ConnInv' /\ LinkMoves(gate, gate')
<1>0. /\ conn \in ConnRecord /\ gate \in Gates /\ sock \in Sockets
      /\ dial \in {"none", "dialing", "waiting", "check"} /\ online \in BOOLEAN
      /\ handlers \in [Handlers -> HandlerRecord]
      /\ timers \subseteq Servers /\ past \in PastRecord
      /\ connLeft \in [ConnDisturbances -> Nat]
      /\ conn.last \in Servers
  BY ConnParts DEF ConnInv, ConnKept
<1>left. connLeft' \in [ConnDisturbances -> Nat]
  BY <1>0, Spent DEF ConnDisturbances, Check, ConnectedAtNamedLast, Rest
<1>1. handlers' \in [Handlers -> HandlerRecord]
  <2>1. [handlers[h] EXCEPT !.at = "renew"] \in HandlerRecord
    BY ZenonT(30), <1>0 DEF HandlerRecord, HandlerSteps
  <2>2. PICK r \in HandlerRecord : handlers' = [handlers EXCEPT ![h] = r]
    BY <2>1, RestTyped DEF Check
  <2> QED
    BY <1>0, <2>2, PutsRecord DEF HandlerFuns
<1>2. gate' \in Gates /\ LinkMoves(gate, gate')
  BY <1>0 DEF Check, ConnectedAtNamedLast, Rest, LinkMoves, Gates
<1>3. conn' \in ConnRecord /\ conn'.last \in Servers
  BY <1>0 DEF Check, ConnectedAtNamedLast, Rest, ConnRecord
<1>4. past' \in PastRecord
  BY <1>0, OpenSends DEF Check, ConnectedAtNamedLast, Rest
<1>5. /\ sock' \in Sockets /\ dial' \in {"none", "dialing", "waiting", "check"}
      /\ online' \in BOOLEAN /\ timers' \subseteq Servers
  BY <1>0 DEF Check, ConnectedAtNamedLast, Rest, Sockets
<1>6. LossesReal'
  BY <1>0 DEF ConnInv, ConnKept, LossesReal, Check, ConnectedAtNamedLast, Rest, HandlerRecord
<1>7. \A k \in Handlers :
        /\ handlers'[k].at = "start" => handlers[k].at = "start"
        /\ handlers'[k].at \in RejoinSteps /\ ~handlers'[k].cancelled =>
             handlers[k].at \in RejoinSteps /\ ~handlers[k].cancelled
        /\ handlers'[k].at \in {"sending", "leavingLate"} => handlers[k].at \in {"sending", "leavingLate"}
  BY <1>0, RestTyped DEF Check, ConnectedAtNamedLast, Rest, HandlerRecord, RejoinSteps
<1>8. WindowKept'
  <2>1. past' = past /\ conn'.rejoin = conn.rejoin /\ conn'.closed = conn.closed
    BY <1>0 DEF Check, ConnectedAtNamedLast, Rest, ConnRecord
  <2> QED
    BY <1>7, <2>1, WindowStays DEF ConnInv
<1> QED
  BY <1>left, <1>1, <1>2, <1>3, <1>4, <1>5, <1>6, <1>8
     DEF ConnInv, ConnKept, ConnTypeOK, ConnRecord, Gates, Sockets, HandlerRecord, PastRecord, Update


LEMMA HandKept ==
  ASSUME ConnInv, NEW h \in Handlers, Hand(h)
  PROVE  ConnInv' /\ LinkMoves(gate, gate')
<1>0. /\ conn \in ConnRecord /\ gate \in Gates /\ sock \in Sockets
      /\ dial \in {"none", "dialing", "waiting", "check"} /\ online \in BOOLEAN
      /\ handlers \in [Handlers -> HandlerRecord]
      /\ timers \subseteq Servers /\ past \in PastRecord
      /\ connLeft \in [ConnDisturbances -> Nat]
      /\ conn.last \in Servers
  BY ConnParts DEF ConnInv, ConnKept
<1>left. connLeft' \in [ConnDisturbances -> Nat]
  BY <1>0, Spent DEF ConnDisturbances, Hand, Handed, Starts, CanRejoin, Rest, EndAttempt
<1>1. handlers' \in [Handlers -> HandlerRecord]
  <2> DEFINE fs == EndAttempt(handlers, "closed")
  <2>1. fs \in HandlerFuns /\ handlers \in HandlerFuns
    BY <1>0, EndsTry DEF HandlerFuns, WaitOutcomes
  <2> HIDE DEF fs
  <2>2. /\ [fs EXCEPT ![h] = Rest] \in HandlerFuns /\ [handlers EXCEPT ![h] = Rest] \in HandlerFuns
        /\ [handlers EXCEPT ![h] = [Rest EXCEPT !.at = "open"]] \in HandlerFuns
        /\ [handlers EXCEPT ![h].at = "start"] \in HandlerFuns
    BY <2>1, PutsRecord, PutsAt, RestTyped DEF HandlerSteps
  <2>3. \/ handlers' = [fs EXCEPT ![h] = Rest] \/ handlers' = [handlers EXCEPT ![h] = Rest]
        \/ handlers' = [handlers EXCEPT ![h] = [Rest EXCEPT !.at = "open"]]
        \/ handlers' = [handlers EXCEPT ![h].at = "start"]
    BY DEF Hand, Starts, fs
  <2> QED
    BY <2>2, <2>3 DEF HandlerFuns
<1>2. gate' \in Gates /\ LinkMoves(gate, gate')
  BY <1>0 DEF Hand, Handed, Starts, CanRejoin, Rest, EndAttempt, LinkMoves, Gates
<1>3. conn' \in ConnRecord /\ conn'.last \in Servers
  BY <1>0 DEF Hand, Handed, Starts, CanRejoin, Rest, EndAttempt, ConnRecord
<1>4. past' \in PastRecord
  <2>1. past' = past \/ past' = [past EXCEPT !.crossed = @ \/ \E k \in Handlers : handlers[k].at = "start"]
    BY DEF Hand, Crosses
  <2> QED
    BY <1>0, <2>1 DEF PastRecord
<1>5. /\ sock' \in Sockets /\ dial' \in {"none", "dialing", "waiting", "check"}
      /\ online' \in BOOLEAN /\ timers' \subseteq Servers
  BY <1>0 DEF Hand, Handed, Starts, CanRejoin, Rest, EndAttempt, Sockets
<1>6. LossesReal'
  <2> DEFINE fs == EndAttempt(handlers, "closed")
  <2>1. /\ fs \in HandlerFuns
        /\ \A k \in Handlers : fs[k] = [handlers[k] EXCEPT !.outcome = fs[k].outcome]
    BY <1>0, EndsTry DEF HandlerFuns, WaitOutcomes
  <2>2. \A k \in Handlers : fs[k].at = handlers[k].at /\ fs[k].loss = handlers[k].loss /\ fs[k].cancelled = handlers[k].cancelled
    <3> SUFFICES ASSUME NEW k \in Handlers
                 PROVE  fs[k].at = handlers[k].at /\ fs[k].loss = handlers[k].loss /\ fs[k].cancelled = handlers[k].cancelled
      OBVIOUS
    <3>1. fs[k] = [handlers[k] EXCEPT !.outcome = fs[k].outcome] /\ handlers[k] \in HandlerRecord
      BY <1>0, <2>1
    <3> HIDE DEF fs
    <3> QED
      BY <3>1 DEF HandlerRecord
  <2> HIDE DEF fs
  <2>3. handlers \in HandlerFuns
    BY <1>0 DEF HandlerFuns
  <2>4. CASE conn.rejoin # Nobody
    <3>1. handlers' = [fs EXCEPT ![h] = Rest]
      BY <2>4 DEF Hand, Handed, fs
    <3> QED
      BY <3>1, <2>1, <2>2, RestTyped DEF ConnInv, ConnKept, LossesReal, HandlerFuns
  <2>5. CASE conn.rejoin = Nobody
    <3>1. \/ handlers' = [handlers EXCEPT ![h] = Rest] \/ handlers' = [handlers EXCEPT ![h] = [Rest EXCEPT !.at = "open"]]
          \/ handlers' = [handlers EXCEPT ![h].at = "start"]
      BY <2>5 DEF Hand, Handed, Starts
    <3>2. handlers'[h].at \in {"idle", "open", "start"} /\ \A k \in Handlers \ {h} : handlers'[k] = handlers[k]
      BY <3>1, <2>3, RestTyped DEF HandlerFuns, HandlerRecord
    <3> QED
      BY <3>2 DEF ConnInv, ConnKept, LossesReal
  <2> QED
    BY <2>4, <2>5
<1>7. OneAtATime'
  <2> DEFINE fs == EndAttempt(handlers, "closed")
  <2>1. /\ fs \in HandlerFuns
        /\ \A k \in Handlers : fs[k] = [handlers[k] EXCEPT !.outcome = fs[k].outcome]
    BY <1>0, EndsTry DEF HandlerFuns, WaitOutcomes
  <2>2. \A k \in Handlers : fs[k].at = handlers[k].at /\ fs[k].cancelled = handlers[k].cancelled
    <3> SUFFICES ASSUME NEW k \in Handlers
                 PROVE  fs[k].at = handlers[k].at /\ fs[k].cancelled = handlers[k].cancelled
      OBVIOUS
    <3>1. fs[k] = [handlers[k] EXCEPT !.outcome = fs[k].outcome] /\ handlers[k] \in HandlerRecord
      BY <1>0, <2>1
    <3> HIDE DEF fs
    <3> QED
      BY <3>1 DEF HandlerRecord
  <2> HIDE DEF fs
  <2>3. CASE conn.rejoin # Nobody
    <3>1. handlers' = [fs EXCEPT ![h] = Rest] /\ conn' = conn /\ past' = past
      BY <2>3 DEF Hand, Handed, fs
    <3>2. \A k \in Handlers : handlers'[k] = IF k = h THEN Rest ELSE fs[k]
      BY <3>1, <2>1 DEF HandlerFuns
    <3> QED
      BY <3>1, <3>2, <2>2, RestTyped, AloneStays DEF ConnInv, WindowKept, RejoinSteps
  <2>4. CASE conn.rejoin = Nobody
    <3>1. \/ handlers' = [handlers EXCEPT ![h] = Rest] /\ conn' = conn
          \/ handlers' = [handlers EXCEPT ![h] = [Rest EXCEPT !.at = "open"]] /\ conn' = [conn EXCEPT !.rejoin = h]
          \/ handlers' = [handlers EXCEPT ![h].at = "start"] /\ conn' = conn
      BY <2>4 DEF Hand, Handed, Starts
    <3>2. past'.crossed = (past.crossed \/ \E k \in Handlers : handlers[k].at = "start")
      BY <2>4, <1>0 DEF Hand, Handed, Crosses, PastRecord
    <3>3. /\ \A k \in Handlers \ {h} : handlers'[k] = handlers[k]
          /\ \/ handlers'[h].at = "idle" /\ conn'.rejoin = Nobody
             \/ handlers'[h].at = "open" /\ conn'.rejoin = h
             \/ handlers'[h].at = "start" /\ conn'.rejoin = Nobody
      BY <3>1, <1>0, <2>4, RestTyped DEF HandlerRecord, ConnRecord
    <3>4. ~past'.crossed => \A k \in Handlers : ~(handlers[k].at \in RejoinSteps /\ ~handlers[k].cancelled)
                                                /\ handlers[k].at # "start"
      BY <3>2, <2>4, ConnAssumption DEF ConnInv, WindowKept, OneAtATime, Rejoining
    <3> QED
      BY <3>3, <3>4 DEF OneAtATime, Rejoining, RejoinSteps
  <2> QED
    BY <2>3, <2>4
<1>8. QuietInv'
  <2>1. past'.sent = past.sent /\ past'.midway = past.midway /\ conn'.closed = conn.closed
    BY <1>0 DEF Hand, Starts, Crosses, PastRecord, ConnRecord
  <2>2. \A k \in Handlers : handlers'[k].at \in {"sending", "leavingLate"} => handlers[k].at \in {"sending", "leavingLate"}
    <3> DEFINE fs == EndAttempt(handlers, "closed")
    <3>1. fs \in HandlerFuns /\ \A k \in Handlers : fs[k] = [handlers[k] EXCEPT !.outcome = fs[k].outcome]
      BY <1>0, EndsTry DEF HandlerFuns, WaitOutcomes
    <3>2. \A k \in Handlers : handlers[k] \in HandlerRecord
      BY <1>0
    <3>3. \E r \in HandlerRecord : /\ r.at \in {"idle", "open", "start"}
                                   /\ handlers' = [fs EXCEPT ![h] = r] \/ handlers' = [handlers EXCEPT ![h] = r]
      <4>1. [handlers[h] EXCEPT !.at = "start"] \in HandlerRecord /\ [handlers[h] EXCEPT !.at = "start"].at = "start"
        BY <3>2 DEF HandlerRecord, HandlerSteps
      <4> QED
        BY <4>1, RestTyped DEF Hand, Starts, fs
    <3> HIDE DEF fs
    <3>4. \A k \in Handlers : fs[k].at = handlers[k].at
      BY <3>1, <3>2 DEF HandlerRecord
    <3> QED
      BY <1>0, <3>1, <3>3, <3>4 DEF HandlerFuns
  <2> QED
    BY <2>1, <2>2, QuietStays DEF ConnInv, WindowKept
<1> QED
  BY <1>left, <1>1, <1>2, <1>3, <1>4, <1>5, <1>6, <1>7, <1>8
     DEF ConnInv, ConnKept, WindowKept, ConnTypeOK, ConnRecord, Gates, Sockets, HandlerRecord, PastRecord, Update


LEMMA StartKept ==
  ASSUME ConnInv, NEW h \in Handlers, Start(h)
  PROVE  ConnInv' /\ LinkMoves(gate, gate')
<1>0. /\ conn \in ConnRecord /\ gate \in Gates /\ sock \in Sockets
      /\ dial \in {"none", "dialing", "waiting", "check"} /\ online \in BOOLEAN
      /\ handlers \in [Handlers -> HandlerRecord]
      /\ timers \subseteq Servers /\ past \in PastRecord
      /\ connLeft \in [ConnDisturbances -> Nat]
      /\ conn.last \in Servers
  BY ConnParts DEF ConnInv, ConnKept
<1>left. connLeft' \in [ConnDisturbances -> Nat]
  BY <1>0, Spent DEF ConnDisturbances, Start, Starts, CanRejoin, Rest
<1>1. handlers' \in [Handlers -> HandlerRecord]
  <2>1. PICK r \in HandlerRecord : handlers' = [handlers EXCEPT ![h] = r]
    BY RestTyped DEF Start, Starts
  <2> QED
    BY <1>0, <2>1, PutsRecord DEF HandlerFuns
<1>2. gate' \in Gates /\ LinkMoves(gate, gate')
  BY <1>0 DEF Start, Starts, CanRejoin, Rest, LinkMoves, Gates
<1>3. conn' \in ConnRecord /\ conn'.last \in Servers
  BY ZenonT(60), <1>0 DEF Start, Starts, CanRejoin, Rest, ConnRecord
<1>4. past' \in PastRecord
  BY <1>0, OpenSends DEF Start, Starts, CanRejoin, Rest
<1>5. /\ sock' \in Sockets /\ dial' \in {"none", "dialing", "waiting", "check"}
      /\ online' \in BOOLEAN /\ timers' \subseteq Servers
  BY <1>0 DEF Start, Starts, CanRejoin, Rest, Sockets
<1>6. LossesReal'
  <2>1. PICK r \in {Rest, [Rest EXCEPT !.at = "open"]} : handlers' = [handlers EXCEPT ![h] = r]
    BY DEF Start, Starts
  <2>2. r.at \in {"idle", "open"} /\ handlers'[h] = r /\ \A k \in Handlers \ {h} : handlers'[k] = handlers[k]
    BY <1>0, <2>1, RestTyped
  <2> QED
    BY <2>2 DEF ConnInv, ConnKept, LossesReal
<1>7. OneAtATime'
  <2>1. handlers[h].at = "start" /\ past' = past
    BY DEF Start
  <2>2. ~past.crossed => conn.rejoin = Nobody /\ \A k \in Handlers : handlers[k].at = "start" => k = h
    BY <2>1 DEF ConnInv, WindowKept, OneAtATime
  <2>3. ~past.crossed => \A k \in Handlers : ~(handlers[k].at \in RejoinSteps /\ ~handlers[k].cancelled)
    BY <2>2, ConnAssumption DEF ConnInv, WindowKept, OneAtATime, Rejoining
  <2>4. /\ \A k \in Handlers \ {h} : handlers'[k] = handlers[k]
        /\ \/ handlers'[h].at = "idle" /\ conn'.rejoin = conn.rejoin
           \/ handlers'[h].at = "open" /\ conn'.rejoin = h
    BY <1>0, RestTyped DEF Start, Starts, ConnRecord
  <2> QED
    BY <2>1, <2>2, <2>3, <2>4 DEF OneAtATime, Rejoining, RejoinSteps
<1>8. QuietInv'
  <2>1. past' = past /\ conn'.closed = conn.closed
    BY <1>0 DEF Start, Starts, ConnRecord
  <2>2. \A k \in Handlers : handlers'[k].at \in {"sending", "leavingLate"} => handlers[k].at \in {"sending", "leavingLate"}
    BY <1>0, RestTyped DEF Start, Starts
  <2> QED
    BY <2>1, <2>2, QuietStays DEF ConnInv, WindowKept
<1> QED
  BY <1>left, <1>1, <1>2, <1>3, <1>4, <1>5, <1>6, <1>7, <1>8
     DEF ConnInv, ConnKept, WindowKept, ConnTypeOK, ConnRecord, Gates, Sockets, HandlerRecord, PastRecord, Update


LEMMA LookupAnswersKept ==
  ASSUME ConnInv, NEW h \in Handlers, LookupAnswers(h)
  PROVE  ConnInv' /\ LinkMoves(gate, gate')
<1>0. /\ conn \in ConnRecord /\ gate \in Gates /\ sock \in Sockets
      /\ dial \in {"none", "dialing", "waiting", "check"} /\ online \in BOOLEAN
      /\ handlers \in [Handlers -> HandlerRecord]
      /\ timers \subseteq Servers /\ past \in PastRecord
      /\ connLeft \in [ConnDisturbances -> Nat]
      /\ conn.last \in Servers
  BY ConnParts DEF ConnInv, ConnKept
<1>left. connLeft' \in [ConnDisturbances -> Nat]
  BY <1>0, Spent DEF ConnDisturbances, LookupAnswers
<1>1. handlers' \in [Handlers -> HandlerRecord]
  BY SMTT(30), <1>0 DEF LookupAnswers, HandlerRecord, HandlerSteps, RejoinSteps, WaitOutcomes, Closings, LossCauses
<1>2. gate' \in Gates /\ LinkMoves(gate, gate')
  BY <1>0 DEF LookupAnswers, LinkMoves, Gates, LossCauses, ConnInv, ConnKept, LossesReal
<1>3. conn' \in ConnRecord /\ conn'.last \in Servers
  BY <1>0 DEF LookupAnswers, ConnRecord
<1>4. past' \in PastRecord
  BY <1>0, OpenSends DEF LookupAnswers
<1>5. /\ sock' \in Sockets /\ dial' \in {"none", "dialing", "waiting", "check"}
      /\ online' \in BOOLEAN /\ timers' \subseteq Servers
  BY <1>0 DEF LookupAnswers, Sockets
<1>6. LossesReal'
  BY <1>0 DEF ConnInv, ConnKept, LossesReal, LookupAnswers, HandlerRecord
<1>7. \A k \in Handlers :
        /\ handlers'[k].at = "start" => handlers[k].at = "start"
        /\ handlers'[k].at \in RejoinSteps /\ ~handlers'[k].cancelled =>
             handlers[k].at \in RejoinSteps /\ ~handlers[k].cancelled
        /\ handlers'[k].at \in {"sending", "leavingLate"} => handlers[k].at \in {"sending", "leavingLate"}
  BY <1>0, RestTyped DEF LookupAnswers, HandlerRecord, RejoinSteps
<1>8. WindowKept'
  <2>1. past' = past /\ conn'.rejoin = conn.rejoin /\ conn'.closed = conn.closed
    BY <1>0 DEF LookupAnswers, ConnRecord
  <2> QED
    BY <1>7, <2>1, WindowStays DEF ConnInv
<1> QED
  BY <1>left, <1>1, <1>2, <1>3, <1>4, <1>5, <1>6, <1>8
     DEF ConnInv, ConnKept, ConnTypeOK, ConnRecord, Gates, Sockets, HandlerRecord, PastRecord, Update


LEMMA WaitEndsKept ==
  ASSUME ConnInv, NEW h \in Handlers, WaitEnds(h)
  PROVE  ConnInv' /\ LinkMoves(gate, gate')
<1>0. /\ conn \in ConnRecord /\ gate \in Gates /\ sock \in Sockets
      /\ dial \in {"none", "dialing", "waiting", "check"} /\ online \in BOOLEAN
      /\ handlers \in [Handlers -> HandlerRecord]
      /\ timers \subseteq Servers /\ past \in PastRecord
      /\ connLeft \in [ConnDisturbances -> Nat]
      /\ conn.last \in Servers
  BY ConnParts DEF ConnInv, ConnKept
<1>left. connLeft' \in [ConnDisturbances -> Nat]
  BY <1>0, Spent DEF ConnDisturbances, WaitEnds, At
<1>1. handlers' \in [Handlers -> HandlerRecord]
  <2>1. \A to \in HandlerSteps : [handlers EXCEPT ![h].at = to] \in HandlerFuns
    BY <1>0, PutsAt DEF HandlerFuns
  <2>2. [handlers EXCEPT ![h] = Rest] \in HandlerFuns
    BY <1>0, RestTyped, PutsRecord DEF HandlerFuns
  <2> QED
    BY <2>1, <2>2 DEF WaitEnds, At, HandlerFuns, HandlerSteps, RejoinSteps
<1>2. gate' \in Gates /\ LinkMoves(gate, gate')
  BY <1>0 DEF WaitEnds, At, LinkMoves, Gates
<1>3. conn' \in ConnRecord /\ conn'.last \in Servers
  BY <1>0 DEF WaitEnds, At, ConnRecord
<1>4. past' \in PastRecord
  BY <1>0, OpenSends DEF WaitEnds, At
<1>5. /\ sock' \in Sockets /\ dial' \in {"none", "dialing", "waiting", "check"}
      /\ online' \in BOOLEAN /\ timers' \subseteq Servers
  BY <1>0 DEF WaitEnds, At, Sockets
<1>6. LossesReal'
  BY <1>0 DEF ConnInv, ConnKept, LossesReal, WaitEnds, At, HandlerRecord
<1>7. \A k \in Handlers :
        /\ handlers'[k].at = "start" => handlers[k].at = "start"
        /\ handlers'[k].at \in RejoinSteps /\ ~handlers'[k].cancelled =>
             handlers[k].at \in RejoinSteps /\ ~handlers[k].cancelled
        /\ handlers'[k].at \in {"sending", "leavingLate"} => handlers[k].at \in {"sending", "leavingLate"}
  BY <1>0, RestTyped DEF WaitEnds, At, HandlerRecord, RejoinSteps
<1>8. WindowKept'
  <2>1. past' = past /\ conn'.rejoin = conn.rejoin /\ conn'.closed = conn.closed
    BY <1>0 DEF WaitEnds, At, ConnRecord
  <2> QED
    BY <1>7, <2>1, WindowStays DEF ConnInv
<1> QED
  BY <1>left, <1>1, <1>2, <1>3, <1>4, <1>5, <1>6, <1>8
     DEF ConnInv, ConnKept, ConnTypeOK, ConnRecord, Gates, Sockets, HandlerRecord, PastRecord, Update


LEMMA RetriesKept ==
  ASSUME ConnInv, NEW h \in Handlers, Retries(h)
  PROVE  ConnInv' /\ LinkMoves(gate, gate')
<1>0. /\ conn \in ConnRecord /\ gate \in Gates /\ sock \in Sockets
      /\ dial \in {"none", "dialing", "waiting", "check"} /\ online \in BOOLEAN
      /\ handlers \in [Handlers -> HandlerRecord]
      /\ timers \subseteq Servers /\ past \in PastRecord
      /\ connLeft \in [ConnDisturbances -> Nat]
      /\ conn.last \in Servers
  BY ConnParts DEF ConnInv, ConnKept
<1>left. connLeft' \in [ConnDisturbances -> Nat]
  BY <1>0, Spent DEF ConnDisturbances, Retries, At
<1>1. handlers' \in [Handlers -> HandlerRecord]
  <2>1. \A to \in HandlerSteps : [handlers EXCEPT ![h].at = to] \in HandlerFuns
    BY <1>0, PutsAt DEF HandlerFuns
  <2>2. [handlers EXCEPT ![h] = Rest] \in HandlerFuns
    BY <1>0, RestTyped, PutsRecord DEF HandlerFuns
  <2> QED
    BY <2>1, <2>2 DEF Retries, At, HandlerFuns, HandlerSteps, RejoinSteps
<1>2. gate' \in Gates /\ LinkMoves(gate, gate')
  BY <1>0 DEF Retries, At, LinkMoves, Gates
<1>3. conn' \in ConnRecord /\ conn'.last \in Servers
  BY <1>0 DEF Retries, At, ConnRecord
<1>4. past' \in PastRecord
  BY <1>0, OpenSends DEF Retries, At
<1>5. /\ sock' \in Sockets /\ dial' \in {"none", "dialing", "waiting", "check"}
      /\ online' \in BOOLEAN /\ timers' \subseteq Servers
  BY <1>0 DEF Retries, At, Sockets
<1>6. LossesReal'
  BY <1>0 DEF ConnInv, ConnKept, LossesReal, Retries, At, HandlerRecord
<1>7. \A k \in Handlers :
        /\ handlers'[k].at = "start" => handlers[k].at = "start"
        /\ handlers'[k].at \in RejoinSteps /\ ~handlers'[k].cancelled =>
             handlers[k].at \in RejoinSteps /\ ~handlers[k].cancelled
        /\ handlers'[k].at \in {"sending", "leavingLate"} => handlers[k].at \in {"sending", "leavingLate"}
  BY <1>0, RestTyped DEF Retries, At, HandlerRecord, RejoinSteps
<1>8. WindowKept'
  <2>1. past' = past /\ conn'.rejoin = conn.rejoin /\ conn'.closed = conn.closed
    BY <1>0 DEF Retries, At, ConnRecord
  <2> QED
    BY <1>7, <2>1, WindowStays DEF ConnInv
<1> QED
  BY <1>left, <1>1, <1>2, <1>3, <1>4, <1>5, <1>6, <1>8
     DEF ConnInv, ConnKept, ConnTypeOK, ConnRecord, Gates, Sockets, HandlerRecord, PastRecord, Update


LEMMA LeftKept ==
  ASSUME ConnInv, NEW h \in Handlers, Left(h)
  PROVE  ConnInv' /\ LinkMoves(gate, gate')
<1>0. /\ conn \in ConnRecord /\ gate \in Gates /\ sock \in Sockets
      /\ dial \in {"none", "dialing", "waiting", "check"} /\ online \in BOOLEAN
      /\ handlers \in [Handlers -> HandlerRecord]
      /\ timers \subseteq Servers /\ past \in PastRecord
      /\ connLeft \in [ConnDisturbances -> Nat]
      /\ conn.last \in Servers
  BY ConnParts DEF ConnInv, ConnKept
<1>left. connLeft' \in [ConnDisturbances -> Nat]
  BY <1>0, Spent DEF ConnDisturbances, Left, At
<1>1. handlers' \in [Handlers -> HandlerRecord]
  <2>1. \A to \in HandlerSteps : [handlers EXCEPT ![h].at = to] \in HandlerFuns
    BY <1>0, PutsAt DEF HandlerFuns
  <2>2. [handlers EXCEPT ![h] = Rest] \in HandlerFuns
    BY <1>0, RestTyped, PutsRecord DEF HandlerFuns
  <2> QED
    BY <2>1, <2>2 DEF Left, At, HandlerFuns, HandlerSteps, RejoinSteps
<1>2. gate' \in Gates /\ LinkMoves(gate, gate')
  BY <1>0 DEF Left, At, LinkMoves, Gates
<1>3. conn' \in ConnRecord /\ conn'.last \in Servers
  BY <1>0 DEF Left, At, ConnRecord
<1>4. past' \in PastRecord
  BY <1>0, OpenSends DEF Left, At
<1>5. /\ sock' \in Sockets /\ dial' \in {"none", "dialing", "waiting", "check"}
      /\ online' \in BOOLEAN /\ timers' \subseteq Servers
  BY <1>0 DEF Left, At, Sockets
<1>6. LossesReal'
  BY <1>0 DEF ConnInv, ConnKept, LossesReal, Left, At, HandlerRecord
<1>7. \A k \in Handlers :
        /\ handlers'[k].at = "start" => handlers[k].at = "start"
        /\ handlers'[k].at \in RejoinSteps /\ ~handlers'[k].cancelled =>
             handlers[k].at \in RejoinSteps /\ ~handlers[k].cancelled
        /\ handlers'[k].at \in {"sending", "leavingLate"} => handlers[k].at \in {"sending", "leavingLate"}
  BY <1>0, RestTyped DEF Left, At, HandlerRecord, RejoinSteps
<1>8. WindowKept'
  <2>1. past' = past /\ conn'.rejoin = conn.rejoin /\ conn'.closed = conn.closed
    BY <1>0 DEF Left, At, ConnRecord
  <2> QED
    BY <1>7, <2>1, WindowStays DEF ConnInv
<1> QED
  BY <1>left, <1>1, <1>2, <1>3, <1>4, <1>5, <1>6, <1>8
     DEF ConnInv, ConnKept, ConnTypeOK, ConnRecord, Gates, Sockets, HandlerRecord, PastRecord, Update


LEMMA RenewKept ==
  ASSUME ConnInv, NEW h \in Handlers, Renew(h)
  PROVE  ConnInv' /\ LinkMoves(gate, gate')
<1>0. /\ conn \in ConnRecord /\ gate \in Gates /\ sock \in Sockets
      /\ dial \in {"none", "dialing", "waiting", "check"} /\ online \in BOOLEAN
      /\ handlers \in [Handlers -> HandlerRecord]
      /\ timers \subseteq Servers /\ past \in PastRecord
      /\ connLeft \in [ConnDisturbances -> Nat]
      /\ conn.last \in Servers
  BY ConnParts DEF ConnInv, ConnKept
<1>left. connLeft' \in [ConnDisturbances -> Nat]
  BY <1>0, Spent DEF ConnDisturbances, Renew, NoSocket, NoSock
<1>1. handlers' \in [Handlers -> HandlerRecord]
  <2>1. \A to \in HandlerSteps : [handlers EXCEPT ![h].at = to] \in HandlerFuns
    BY <1>0, PutsAt DEF HandlerFuns
  <2>2. [handlers EXCEPT ![h] = Rest] \in HandlerFuns
    BY <1>0, RestTyped, PutsRecord DEF HandlerFuns
  <2> QED
    BY <2>1, <2>2 DEF Renew, NoSocket, NoSock, HandlerFuns, HandlerSteps, RejoinSteps
<1>2. gate' \in Gates /\ LinkMoves(gate, gate')
  <2>1. handlers[h].loss \in Nat /\ handlers[h].loss > 0 /\ handlers[h].cause \in LossCauses \cup {NotNamed}
    BY <1>0 DEF Renew, HandlerRecord, ConnInv, ConnKept, LossesReal
  <2>2. gate' = RenewedAfter(gate, handlers[h].loss, handlers[h].cause) /\ gate.gw < MaxGateways
    BY DEF Renew
  <2> QED
    BY <1>0, <2>1, <2>2, RenewedAfterMoves
<1>3. conn' \in ConnRecord /\ conn'.last \in Servers
  BY <1>0 DEF Renew, NoSocket, NoSock, ConnRecord
<1>4. past' \in PastRecord
  BY <1>0, OpenSends DEF Renew, NoSocket, NoSock
<1>5. /\ sock' \in Sockets /\ dial' \in {"none", "dialing", "waiting", "check"}
      /\ online' \in BOOLEAN /\ timers' \subseteq Servers
  <2>1. NoSock \in Sockets
    BY ConnAssumption DEF NoSock, Sockets, None
  <2> QED
    BY <1>0, <2>1 DEF Renew, NoSocket
<1>6. LossesReal'
  BY <1>0 DEF ConnInv, ConnKept, LossesReal, Renew, NoSocket, NoSock, HandlerRecord
<1>7. \A k \in Handlers :
        /\ handlers'[k].at = "start" => handlers[k].at = "start"
        /\ handlers'[k].at \in RejoinSteps /\ ~handlers'[k].cancelled =>
             handlers[k].at \in RejoinSteps /\ ~handlers[k].cancelled
        /\ handlers'[k].at \in {"sending", "leavingLate"} => handlers[k].at \in {"sending", "leavingLate"}
  BY <1>0, RestTyped DEF Renew, NoSocket, NoSock, HandlerRecord, RejoinSteps
<1>8. WindowKept'
  <2>1. past' = past /\ conn'.rejoin = conn.rejoin /\ conn'.closed = conn.closed
    BY <1>0 DEF Renew, NoSocket, NoSock, ConnRecord
  <2> QED
    BY <1>7, <2>1, WindowStays DEF ConnInv
<1> QED
  BY <1>left, <1>1, <1>2, <1>3, <1>4, <1>5, <1>6, <1>8
     DEF ConnInv, ConnKept, ConnTypeOK, ConnRecord, Gates, Sockets, HandlerRecord, PastRecord, Update


LEMMA GivesUpKept ==
  ASSUME ConnInv, NEW h \in Handlers, GivesUp(h)
  PROVE  ConnInv' /\ LinkMoves(gate, gate')
<1>0. /\ conn \in ConnRecord /\ gate \in Gates /\ sock \in Sockets
      /\ dial \in {"none", "dialing", "waiting", "check"} /\ online \in BOOLEAN
      /\ handlers \in [Handlers -> HandlerRecord]
      /\ timers \subseteq Servers /\ past \in PastRecord
      /\ connLeft \in [ConnDisturbances -> Nat]
      /\ conn.last \in Servers
  BY ConnParts DEF ConnInv, ConnKept
<1>left. connLeft' \in [ConnDisturbances -> Nat]
  BY <1>0, Spent DEF ConnDisturbances, GivesUp, NoSocket, NoSock, Rest
<1>1. handlers' \in [Handlers -> HandlerRecord]
  <2>1. \A to \in HandlerSteps : [handlers EXCEPT ![h].at = to] \in HandlerFuns
    BY <1>0, PutsAt DEF HandlerFuns
  <2>2. [handlers EXCEPT ![h] = Rest] \in HandlerFuns
    BY <1>0, RestTyped, PutsRecord DEF HandlerFuns
  <2> QED
    BY <2>1, <2>2 DEF GivesUp, NoSocket, NoSock, Rest, HandlerFuns, HandlerSteps, RejoinSteps
<1>2. gate' \in Gates /\ LinkMoves(gate, gate')
  BY <1>0 DEF GivesUp, NoSocket, NoSock, Rest, LinkMoves, Gates
<1>3. conn' \in ConnRecord /\ conn'.last \in Servers
  BY <1>0 DEF GivesUp, NoSocket, NoSock, Rest, ConnRecord
<1>4. past' \in PastRecord
  BY <1>0, OpenSends DEF GivesUp, NoSocket, NoSock, Rest
<1>5. /\ sock' \in Sockets /\ dial' \in {"none", "dialing", "waiting", "check"}
      /\ online' \in BOOLEAN /\ timers' \subseteq Servers
  <2>1. NoSock \in Sockets
    BY ConnAssumption DEF NoSock, Sockets, None
  <2> QED
    BY <1>0, <2>1 DEF GivesUp, NoSocket
<1>6. LossesReal'
  BY <1>0 DEF ConnInv, ConnKept, LossesReal, GivesUp, NoSocket, NoSock, Rest, HandlerRecord
<1>7. OneAtATime' /\ \A k \in Handlers : handlers'[k].at \in {"sending", "leavingLate"} => handlers[k].at \in {"sending", "leavingLate"}
  <2>1. \A k \in Handlers : handlers'[k] = IF k = h THEN Rest ELSE handlers[k]
    BY <1>0 DEF GivesUp
  <2>2. past'.crossed = past.crossed /\ conn' = conn
    BY <1>0 DEF GivesUp, Sends, PastRecord
  <2> QED
    BY <2>1, <2>2, RestTyped, AloneStays DEF ConnInv, WindowKept, RejoinSteps
<1>8. QuietInv'
  <2>1. past' = past \/ (Sends("leave", Nobody) /\ ~LeaveSent)
    BY DEF GivesUp
  <2>2. conn' = conn
    BY DEF GivesUp
  <2>3. CASE past' = past
    BY <1>7, <2>2, <2>3, QuietStays DEF ConnInv, WindowKept
  <2>4. CASE conn.closed /\ Sends("leave", Nobody) /\ ~LeaveSent
    <3>1. past' = [past EXCEPT !.sent = Append(@, [what |-> "leave", by |-> Nobody])]
      BY <1>0, <2>4, OpenSends
    <3>2. \A i \in DOMAIN past.sent : past.sent[i].by # Nobody
      BY <2>4 DEF LeaveSent
    <3> QED
      BY <1>0, <1>7, <2>2, <2>4, <3>1, <3>2, ConnAssumption, QuietAdds DEF ConnInv, WindowKept
  <2>5. CASE ~conn.closed /\ Sends("leave", Nobody)
    BY <1>0, <2>3, <2>5, OpenSends
  <2> QED
    BY <2>1, <2>3, <2>4, <2>5
<1> QED
  BY <1>left, <1>1, <1>2, <1>3, <1>4, <1>5, <1>6, <1>7, <1>8
     DEF ConnInv, ConnKept, WindowKept, ConnTypeOK, ConnRecord, Gates, Sockets, HandlerRecord, PastRecord, Update


LEMMA JoinsKept ==
  ASSUME ConnInv, NEW h \in Handlers, Joins(h)
  PROVE  ConnInv' /\ LinkMoves(gate, gate')
<1>0. /\ conn \in ConnRecord /\ gate \in Gates /\ sock \in Sockets
      /\ dial \in {"none", "dialing", "waiting", "check"} /\ online \in BOOLEAN
      /\ handlers \in [Handlers -> HandlerRecord]
      /\ timers \subseteq Servers /\ past \in PastRecord
      /\ connLeft \in [ConnDisturbances -> Nat]
      /\ conn.last \in Servers
  BY ConnParts DEF ConnInv, ConnKept
<1>left. connLeft' \in [ConnDisturbances -> Nat]
  BY <1>0, Spent DEF ConnDisturbances, Joins, Kept
<1>1. handlers' \in [Handlers -> HandlerRecord]
  <2>1. /\ [handlers EXCEPT ![h].at = "result", ![h].outcome = "failed"] \in HandlerFuns
        /\ [handlers EXCEPT ![h].at = "wait", ![h].outcome = "none"] \in HandlerFuns
        /\ [handlers EXCEPT ![h].at = "sending", ![h].outcome = "none"] \in HandlerFuns
    BY Zenon, <1>0, PutsAtOutcome DEF HandlerFuns, HandlerSteps, RejoinSteps, WaitOutcomes
  <2> QED
    BY <2>1 DEF Joins, HandlerFuns
<1>2. gate' \in Gates /\ LinkMoves(gate, gate')
  BY <1>0 DEF Joins, Kept, LinkMoves, Gates
<1>3. conn' \in ConnRecord /\ conn'.last \in Servers
  <2>1. PICK n \in 0 .. MaxServers : conn' = [conn EXCEPT !.attempt = h, !.dropped = n]
    <3>1. conn.dropped \in 0 .. MaxServers /\ None \in 0 .. MaxServers /\ conn.last \in 0 .. MaxServers
      BY <1>0, ConnAssumption DEF ConnRecord, None
    <3> QED
      BY <3>1 DEF Joins, Kept
  <2> QED
    BY <1>0, <2>1 DEF ConnRecord
<1>4. past' \in PastRecord
  BY <1>0, OpenSends DEF Joins, Kept
<1>5. /\ sock' \in Sockets /\ dial' \in {"none", "dialing", "waiting", "check"}
      /\ online' \in BOOLEAN /\ timers' \subseteq Servers
  BY <1>0 DEF Joins, Kept, Sockets
<1>6. LossesReal'
  BY ZenonT(60), <1>0 DEF ConnInv, ConnKept, LossesReal, Joins, Kept, HandlerRecord
<1>7. /\ \A k \in Handlers : handlers'[k].at # handlers[k].at => k = h /\ handlers'[k].at \in {"result", "wait", "sending"}
      /\ \A k \in Handlers : handlers'[k].cancelled = handlers[k].cancelled
      /\ handlers[h].at = "open" /\ conn'.rejoin = conn.rejoin /\ conn'.closed = conn.closed
      /\ conn.closed => handlers'[h].at = "result"
      /\ past' = past
  <2>1. \E to \in {"result", "wait", "sending"}, o \in {"failed", "none"} :
          handlers' = [handlers EXCEPT ![h].at = to, ![h].outcome = o] /\ (conn.closed => to = "result")
    BY ZenonT(60) DEF Joins
  <2>2. \A k \in Handlers : handlers[k] \in HandlerRecord
    BY <1>0
  <2>3. past' = past
    <3>1. past' = past \/ (~conn.closed /\ Sends("join", h))
      BY DEF Joins
    <3> QED
      BY <1>0, <3>1, OpenSends
  <2>4. conn'.rejoin = conn.rejoin /\ conn'.closed = conn.closed /\ handlers[h].at = "open"
    BY <1>0 DEF Joins, ConnRecord
  <2>5. PICK to \in {"result", "wait", "sending"}, o \in {"failed", "none"} :
          handlers' = [handlers EXCEPT ![h].at = to, ![h].outcome = o] /\ (conn.closed => to = "result")
    BY <2>1
  <2>6. /\ \A k \in Handlers \ {h} : handlers'[k] = handlers[k]
        /\ handlers'[h].at = to /\ handlers'[h].cancelled = handlers[h].cancelled
    BY <1>0, <2>2, <2>5 DEF HandlerRecord
  <2> QED
    BY <2>3, <2>4, <2>5, <2>6
<1>8. OneAtATime' /\ QuietInv'
  <2>1. OneAtATime'
    BY <1>7, AloneStays DEF ConnInv, WindowKept, RejoinSteps
  <2>2. QuietInv'
    BY <1>7, QuietStays DEF ConnInv, WindowKept
  <2> QED
    BY <2>1, <2>2
<1> QED
  BY <1>left, <1>1, <1>2, <1>3, <1>4, <1>5, <1>6, <1>7, <1>8
     DEF ConnInv, ConnKept, WindowKept, ConnTypeOK, ConnRecord, Gates, Sockets, HandlerRecord, PastRecord, Update


LEMMA SendsLateKept ==
  ASSUME ConnInv, NEW h \in Handlers, SendsLate(h)
  PROVE  ConnInv' /\ LinkMoves(gate, gate')
<1>0. /\ conn \in ConnRecord /\ gate \in Gates /\ sock \in Sockets
      /\ dial \in {"none", "dialing", "waiting", "check"} /\ online \in BOOLEAN
      /\ handlers \in [Handlers -> HandlerRecord]
      /\ timers \subseteq Servers /\ past \in PastRecord
      /\ connLeft \in [ConnDisturbances -> Nat]
      /\ conn.last \in Servers
  BY ConnParts DEF ConnInv, ConnKept
<1>left. connLeft' \in [ConnDisturbances -> Nat]
  BY <1>0, Spent DEF ConnDisturbances, SendsLate, At
<1>1. handlers' \in [Handlers -> HandlerRecord]
  <2>1. \A to \in HandlerSteps : [handlers EXCEPT ![h].at = to] \in HandlerFuns
    BY <1>0, PutsAt DEF HandlerFuns
  <2>2. [handlers EXCEPT ![h].at = "result", ![h].outcome = "failed"] \in HandlerFuns
    BY Zenon, <1>0, PutsAtOutcome DEF HandlerFuns, HandlerSteps, RejoinSteps, WaitOutcomes
  <2>3. "wait" \in HandlerSteps /\ "left" \in HandlerSteps /\ "leaving" \in HandlerSteps
    BY DEF HandlerSteps, RejoinSteps
  <2> QED
    BY ZenonT(60), <2>1, <2>2, <2>3 DEF SendsLate, At, HandlerFuns
<1>2. gate' \in Gates /\ LinkMoves(gate, gate')
  BY <1>0 DEF SendsLate, At, LinkMoves, Gates
<1>3. conn' \in ConnRecord /\ conn'.last \in Servers
  BY <1>0 DEF SendsLate, At, ConnRecord
<1>4. past' \in PastRecord
  BY <1>0, OpenSends DEF SendsLate, At
<1>5. /\ sock' \in Sockets /\ dial' \in {"none", "dialing", "waiting", "check"}
      /\ online' \in BOOLEAN /\ timers' \subseteq Servers
  BY <1>0 DEF SendsLate, At, Sockets
<1>6. LossesReal'
  BY ZenonT(60), <1>0 DEF ConnInv, ConnKept, LossesReal, SendsLate, At, HandlerRecord
<1>7. /\ \A k \in Handlers \ {h} : handlers'[k] = handlers[k]
      /\ handlers'[h].cancelled = handlers[h].cancelled /\ handlers'[h].at \in {"wait", "left", "leaving", "result"}
      /\ handlers[h].at \in {"sending", "leavingLate"} /\ conn' = conn
  <2>1. handlers[h] \in HandlerRecord
    BY <1>0
  <2> QED
    BY <1>0, <2>1 DEF SendsLate, At, HandlerRecord
<1>8. OneAtATime' /\ QuietInv'
  <2>1. past'.crossed = past.crossed
    BY <1>0 DEF SendsLate, Sends, PastRecord
  <2>2. OneAtATime'
    BY <1>7, <2>1, AloneStays DEF ConnInv, WindowKept, RejoinSteps
  <2>3. ASSUME past' = past PROVE QuietInv'
    <3>1. \A k \in Handlers : handlers'[k].at \in {"sending", "leavingLate"} => handlers[k].at \in {"sending", "leavingLate"}
      BY <1>7
    <3>2. past'.sent = past.sent /\ past'.midway = past.midway /\ conn'.closed = conn.closed
      BY <1>7, <2>3
    <3> QED
      BY <3>1, <3>2, QuietStays DEF ConnInv, WindowKept
  <2>4. ASSUME NEW w \in {"join", "leave"}, Sends(w, h), conn.closed PROVE QuietInv'
    <3>1. past' = [past EXCEPT !.sent = Append(@, [what |-> w, by |-> h])]
      BY <1>0, <2>4, OpenSends
    <3>2. h \in past.midway /\ \A i \in DOMAIN past.sent : past.sent[i].by # h
      BY <1>7, <2>4 DEF ConnInv, WindowKept, QuietInv
    <3>3. \A k \in Handlers : handlers'[k].at \in {"sending", "leavingLate"} =>
            handlers[k].at \in {"sending", "leavingLate"} /\ k # h
      BY <1>7
    <3> QED
      BY <1>0, <1>7, <2>4, <3>1, <3>2, <3>3, QuietAdds DEF ConnInv, WindowKept
  <2>5. ASSUME NEW w \in {"join", "leave"}, Sends(w, h), ~conn.closed PROVE QuietInv'
    BY <1>0, <2>3, <2>5, OpenSends
  <2>6. past' = past \/ \E w \in {"join", "leave"} : Sends(w, h)
    BY DEF SendsLate
  <2> QED
    BY <2>2, <2>3, <2>4, <2>5, <2>6
<1> QED
  BY <1>left, <1>1, <1>2, <1>3, <1>4, <1>5, <1>6, <1>7, <1>8
     DEF ConnInv, ConnKept, WindowKept, ConnTypeOK, ConnRecord, Gates, Sockets, HandlerRecord, PastRecord, Update


LEMMA ResultKept ==
  ASSUME ConnInv, NEW h \in Handlers, Result(h)
  PROVE  ConnInv' /\ LinkMoves(gate, gate')
<1>0. /\ conn \in ConnRecord /\ gate \in Gates /\ sock \in Sockets
      /\ dial \in {"none", "dialing", "waiting", "check"} /\ online \in BOOLEAN
      /\ handlers \in [Handlers -> HandlerRecord]
      /\ timers \subseteq Servers /\ past \in PastRecord
      /\ connLeft \in [ConnDisturbances -> Nat]
      /\ conn.last \in Servers
  BY ConnParts DEF ConnInv, ConnKept
<1>left. connLeft' \in [ConnDisturbances -> Nat]
  BY <1>0, Spent DEF ConnDisturbances, Result, Rest, At, NoSocket, NoSock
<1>1. handlers' \in [Handlers -> HandlerRecord]
  <2>1. \A to \in HandlerSteps : [handlers EXCEPT ![h].at = to] \in HandlerFuns
    BY <1>0, PutsAt DEF HandlerFuns
  <2>2. [handlers EXCEPT ![h] = Rest] \in HandlerFuns
    BY <1>0, RestTyped, PutsRecord DEF HandlerFuns
  <2>3. "leaving" \in HandlerSteps /\ "retry" \in HandlerSteps /\ "open" \in HandlerSteps
    BY DEF HandlerSteps, RejoinSteps
  <2>4. [Cancelled(handlers) EXCEPT ![h] = Rest] \in HandlerFuns
    BY <1>0, RestTyped, CancelsRejoin, PutsRecord DEF HandlerFuns
  <2>5. \/ handlers' = [handlers EXCEPT ![h] = Rest] \/ handlers' = [Cancelled(handlers) EXCEPT ![h] = Rest]
        \/ \E to \in {"leaving", "retry", "open"} : handlers' = [handlers EXCEPT ![h].at = to]
    BY DEF Result, At
  <2> QED
    BY <2>1, <2>2, <2>3, <2>4, <2>5 DEF HandlerFuns
<1>2. gate' \in Gates /\ LinkMoves(gate, gate')
  <2>1. gate' = gate \/ (gate.gw < MaxGateways /\ gate' = Renewed(gate, "closed"))
    BY DEF Result
  <2> QED
    BY <1>0, <2>1, RenewedMoves DEF LinkMoves, LossCauses
<1>3. conn' \in ConnRecord /\ conn'.last \in Servers
  BY ZenonT(30), <1>0 DEF Result, Rest, At, NoSocket, NoSock, ConnRecord
<1>4. past' \in PastRecord
  BY <1>0, OpenSends DEF Result, Rest, At, NoSocket, NoSock
<1>5. /\ sock' \in Sockets /\ dial' \in {"none", "dialing", "waiting", "check"}
      /\ online' \in BOOLEAN /\ timers' \subseteq Servers
  <2>1. NoSock \in Sockets
    BY ConnAssumption DEF NoSock, Sockets, None
  <2> QED
    BY <1>0, <2>1 DEF Result, NoSocket
<1>at. /\ handlers'[h].at \in {"idle", "leaving", "retry", "open"}
       /\ \A k \in Handlers \ {h} : handlers'[k].at = handlers[k].at /\ handlers'[k].loss = handlers[k].loss
  <2>1. Cancelled(handlers) \in HandlerFuns /\ handlers \in HandlerFuns
    BY <1>0, CancelsRejoin DEF HandlerFuns
  <2>2. \A k \in Handlers : Cancelled(handlers)[k].at = handlers[k].at /\ Cancelled(handlers)[k].loss = handlers[k].loss
    <3> SUFFICES ASSUME NEW k \in Handlers
                 PROVE  Cancelled(handlers)[k].at = handlers[k].at /\ Cancelled(handlers)[k].loss = handlers[k].loss
      OBVIOUS
    <3>1. handlers[k] \in HandlerRecord
          /\ Cancelled(handlers)[k] = [handlers[k] EXCEPT !.cancelled = (@ \/ k = conn.rejoin)]
      BY <1>0, CancelsRejoin DEF HandlerFuns
    <3> QED
      BY <3>1 DEF HandlerRecord
  <2>3. CASE handlers' = [handlers EXCEPT ![h] = Rest]
    BY <2>1, <2>3, RestTyped DEF HandlerFuns
  <2>4. CASE handlers' = [Cancelled(handlers) EXCEPT ![h] = Rest]
    BY <2>1, <2>2, <2>4, RestTyped DEF HandlerFuns
  <2>5. CASE \E to \in {"leaving", "retry", "open"} : handlers' = [handlers EXCEPT ![h].at = to]
    BY <2>1, <2>5 DEF HandlerFuns, HandlerRecord
  <2> QED
    BY <2>3, <2>4, <2>5 DEF Result, At
<1>6. LossesReal'
  BY <1>at DEF ConnInv, ConnKept, LossesReal
<1>7. OneAtATime'
  <2>1. CASE handlers[h].cancelled
    <3>1. /\ \A k \in Handlers \ {h} : handlers'[k] = handlers[k]
          /\ handlers'[h].at = "idle" /\ conn'.rejoin = conn.rejoin /\ past' = past
      BY <1>0, <2>1, RestTyped DEF Result, ConnRecord
    <3> QED
      BY <3>1, AloneStays DEF ConnInv, WindowKept, RejoinSteps
  <2>2. CASE ~handlers[h].cancelled /\ handlers[h].outcome = "connected"
    <3>1. handlers' = [Cancelled(handlers) EXCEPT ![h] = Rest] /\ past' = past /\ conn'.rejoin = Nobody
      BY <1>0, <2>2 DEF Result, LeavesToJoin, ConnRecord
    <3>2. handlers[h].at = "result"
      BY DEF Result
    <3>3. ~past.crossed => /\ conn.rejoin = h
                           /\ \A k \in Handlers :
                                /\ handlers[k].at # "start"
                                /\ (handlers[k].at \in RejoinSteps /\ ~handlers[k].cancelled) => (k = h)
      BY <2>2, <3>2, ConnAssumption DEF ConnInv, WindowKept, OneAtATime, Rejoining, RejoinSteps
    <3>4. \A k \in Handlers \ {h} :
            /\ handlers'[k].at = handlers[k].at
            /\ (handlers[k].cancelled \/ k = conn.rejoin) => handlers'[k].cancelled
      <4> SUFFICES ASSUME NEW k \in Handlers \ {h}
                   PROVE  /\ handlers'[k].at = handlers[k].at
                          /\ (handlers[k].cancelled \/ k = conn.rejoin) => handlers'[k].cancelled
        OBVIOUS
      <4>1. handlers[k] \in HandlerRecord /\ Cancelled(handlers) \in HandlerFuns
            /\ Cancelled(handlers)[k] = [handlers[k] EXCEPT !.cancelled = (@ \/ k = conn.rejoin)]
        BY <1>0, CancelsRejoin DEF HandlerFuns
      <4>2. handlers'[k] = Cancelled(handlers)[k]
        BY <3>1, <4>1 DEF HandlerFuns
      <4> QED
        BY <4>1, <4>2 DEF HandlerRecord
    <3>5. handlers'[h] = Rest
      BY <1>0, <3>1, CancelsRejoin DEF HandlerFuns
    <3>6. handlers'[h].at = "idle" /\ past'.crossed = past.crossed
      BY <3>1, <3>5, RestTyped
    <3>7. ~past.crossed => \A k \in Handlers : /\ handlers'[k].at # "start"
                             /\ ~(handlers'[k].at \in RejoinSteps /\ ~handlers'[k].cancelled)
      <4> SUFFICES ASSUME ~past.crossed, NEW k \in Handlers
                   PROVE  /\ handlers'[k].at # "start"
                          /\ ~(handlers'[k].at \in RejoinSteps /\ ~handlers'[k].cancelled)
        OBVIOUS
      <4>1. CASE k = h
        BY <3>6, <4>1 DEF RejoinSteps
      <4>2. CASE k # h
        <5>1. handlers'[k].at = handlers[k].at /\ handlers[k].at # "start" /\ k \in Handlers \ {h}
          BY <3>3, <3>4, <4>2
        <5>2. CASE handlers[k].at \in RejoinSteps
          <6>1. handlers[k].cancelled
            BY <3>3, <4>2, <5>2
          <6> QED
            BY <3>4, <5>1, <6>1
        <5> QED
          BY <5>1, <5>2
      <4> QED
        BY <4>1, <4>2
    <3> QED
      BY <3>6, <3>7 DEF OneAtATime, Rejoining
  <2>3. CASE ~handlers[h].cancelled /\ handlers[h].outcome # "connected"
    <3>1. PICK to \in {"leaving", "retry", "open"} : handlers' = [handlers EXCEPT ![h].at = to]
      BY <2>3 DEF Result, At
    <3>2. conn'.rejoin = conn.rejoin /\ past' = past /\ handlers[h].at = "result"
      BY <1>0, <2>3 DEF Result, ConnRecord
    <3>3. /\ \A k \in Handlers \ {h} : handlers'[k] = handlers[k]
          /\ handlers'[h].at = to /\ handlers'[h].cancelled = handlers[h].cancelled
      BY <1>0, <3>1 DEF HandlerRecord
    <3> QED
      BY <3>2, <3>3, AloneStays DEF ConnInv, WindowKept, RejoinSteps
  <2> QED
    BY <2>1, <2>2, <2>3
<1>8. QuietInv'
  <2>1. past' = past /\ conn'.closed = conn.closed
    BY <1>0 DEF Result, ConnRecord
  <2> QED
    BY <1>at, <2>1, QuietStays DEF ConnInv, WindowKept
<1> QED
  BY <1>left, <1>1, <1>2, <1>3, <1>4, <1>5, <1>6, <1>7, <1>8
     DEF ConnInv, ConnKept, WindowKept, ConnTypeOK, ConnRecord, Gates, Sockets, HandlerRecord, PastRecord, Update


LEMMA LeavesKept ==
  ASSUME ConnInv, NEW h \in Handlers, Leaves(h)
  PROVE  ConnInv' /\ LinkMoves(gate, gate')
<1>0. /\ conn \in ConnRecord /\ gate \in Gates /\ sock \in Sockets
      /\ dial \in {"none", "dialing", "waiting", "check"} /\ online \in BOOLEAN
      /\ handlers \in [Handlers -> HandlerRecord]
      /\ timers \subseteq Servers /\ past \in PastRecord
      /\ connLeft \in [ConnDisturbances -> Nat]
      /\ conn.last \in Servers
  BY ConnParts DEF ConnInv, ConnKept
<1>left. connLeft' \in [ConnDisturbances -> Nat]
  BY <1>0, Spent DEF ConnDisturbances, Leaves, At
<1>1. handlers' \in [Handlers -> HandlerRecord]
  <2>1. \A to \in HandlerSteps : [handlers EXCEPT ![h].at = to] \in HandlerFuns
    BY <1>0, PutsAt DEF HandlerFuns
  <2>2. [handlers EXCEPT ![h] = Rest] \in HandlerFuns
    BY <1>0, RestTyped, PutsRecord DEF HandlerFuns
  <2> QED
    BY ZenonT(30), <2>1, <2>2 DEF Leaves, At, HandlerFuns, HandlerSteps, RejoinSteps
<1>2. gate' \in Gates /\ LinkMoves(gate, gate')
  BY <1>0 DEF Leaves, At, LinkMoves, Gates
<1>3. conn' \in ConnRecord /\ conn'.last \in Servers
  BY <1>0 DEF Leaves, At, ConnRecord
<1>4. past' \in PastRecord
  BY <1>0, OpenSends DEF Leaves, At
<1>5. /\ sock' \in Sockets /\ dial' \in {"none", "dialing", "waiting", "check"}
      /\ online' \in BOOLEAN /\ timers' \subseteq Servers
  BY <1>0 DEF Leaves, At, Sockets
<1>6. LossesReal'
  BY ZenonT(60), <1>0 DEF ConnInv, ConnKept, LossesReal, Leaves, At, HandlerRecord
<1>7. /\ \A k \in Handlers \ {h} : handlers'[k] = handlers[k]
      /\ handlers'[h].at \in {"result", "left", "leavingLate"} /\ handlers'[h].cancelled = handlers[h].cancelled
      /\ handlers[h].at = "leaving" /\ conn'.rejoin = conn.rejoin /\ conn'.closed = conn.closed
      /\ conn.closed => handlers'[h].at = "result"
      /\ past' = past
  <2>1. PICK to \in {"result", "left", "leavingLate"} :
          handlers' = [handlers EXCEPT ![h].at = to] /\ (conn.closed => to = "result")
    BY ZenonT(60) DEF Leaves, At
  <2>2. past' = past
    <3>1. past' = past \/ (~conn.closed /\ Sends("leave", h))
      BY DEF Leaves
    <3> QED
      BY <1>0, <3>1, OpenSends
  <2>3. conn'.rejoin = conn.rejoin /\ conn'.closed = conn.closed /\ handlers[h].at = "leaving"
    BY <1>0 DEF Leaves, ConnRecord
  <2>4. /\ \A k \in Handlers \ {h} : handlers'[k] = handlers[k]
        /\ handlers'[h].at = to /\ handlers'[h].cancelled = handlers[h].cancelled
    BY <1>0, <2>1 DEF HandlerRecord
  <2> QED
    BY <2>1, <2>2, <2>3, <2>4
<1>8. OneAtATime' /\ QuietInv'
  <2>1. OneAtATime'
    BY <1>7, AloneStays DEF ConnInv, WindowKept, RejoinSteps
  <2>2. QuietInv'
    BY <1>7, QuietStays DEF ConnInv, WindowKept
  <2> QED
    BY <2>1, <2>2
<1> QED
  BY <1>left, <1>1, <1>2, <1>3, <1>4, <1>5, <1>6, <1>7, <1>8
     DEF ConnInv, ConnKept, WindowKept, ConnTypeOK, ConnRecord, Gates, Sockets, HandlerRecord, PastRecord, Update

(* The dialing, Discord, the close and the losses.                         *)
LEMMA DialOpensKept ==
  ASSUME ConnInv, DialOpens
  PROVE  ConnInv' /\ LinkMoves(gate, gate')
<1>0. /\ conn \in ConnRecord /\ gate \in Gates /\ sock \in Sockets
      /\ dial \in {"none", "dialing", "waiting", "check"} /\ online \in BOOLEAN
      /\ handlers \in [Handlers -> HandlerRecord]
      /\ timers \subseteq Servers /\ past \in PastRecord
      /\ connLeft \in [ConnDisturbances -> Nat]
      /\ conn.last \in Servers
  BY ConnParts DEF ConnInv, ConnKept
<1>left. connLeft' \in [ConnDisturbances -> Nat]
  BY <1>0, Spent DEF ConnDisturbances, DialOpens
<1>1. handlers' \in [Handlers -> HandlerRecord]
  BY <1>0 DEF DialOpens, HandlerRecord, HandlerSteps, RejoinSteps, WaitOutcomes, Closings, LossCauses
<1>2. gate' \in Gates /\ LinkMoves(gate, gate')
  BY <1>0 DEF DialOpens, LinkMoves, Gates
<1>3. conn' \in ConnRecord /\ conn'.last \in Servers
  BY <1>0 DEF DialOpens, ConnRecord
<1>4. past' \in PastRecord
  BY <1>0, OpenSends DEF DialOpens
<1>5. /\ sock' \in Sockets /\ dial' \in {"none", "dialing", "waiting", "check"}
      /\ online' \in BOOLEAN /\ timers' \subseteq Servers
  <2>1. gate.opened \in 0 .. MaxServers
    BY <1>0, ConnAssumption DEF Gates, Servers
  <2>2. [at |-> gate.opened, described |-> FALSE] \in Sockets
    BY <2>1 DEF Sockets
  <2>3. UNCHANGED <<online, timers>> /\ dial' \in {"none", "waiting"}
        /\ (sock' = sock \/ sock' = [at |-> gate.opened, described |-> FALSE])
    BY DEF DialOpens
  <2> QED
    BY <1>0, <2>2, <2>3
<1>6. LossesReal'
  BY <1>0 DEF ConnInv, ConnKept, LossesReal, DialOpens, HandlerRecord
<1>7. \A k \in Handlers :
        /\ handlers'[k].at = "start" => handlers[k].at = "start"
        /\ handlers'[k].at \in RejoinSteps /\ ~handlers'[k].cancelled =>
             handlers[k].at \in RejoinSteps /\ ~handlers[k].cancelled
        /\ handlers'[k].at \in {"sending", "leavingLate"} => handlers[k].at \in {"sending", "leavingLate"}
  BY <1>0, RestTyped DEF DialOpens, HandlerRecord, RejoinSteps
<1>8. WindowKept'
  <2>1. past' = past /\ conn'.rejoin = conn.rejoin /\ conn'.closed = conn.closed
    BY <1>0 DEF DialOpens, ConnRecord
  <2> QED
    BY <1>7, <2>1, WindowStays DEF ConnInv
<1> QED
  BY <1>left, <1>1, <1>2, <1>3, <1>4, <1>5, <1>6, <1>8
     DEF ConnInv, ConnKept, ConnTypeOK, ConnRecord, Gates, Sockets, HandlerRecord, PastRecord, Update


LEMMA DescribedKept ==
  ASSUME ConnInv, Described
  PROVE  ConnInv' /\ LinkMoves(gate, gate')
<1>0. /\ conn \in ConnRecord /\ gate \in Gates /\ sock \in Sockets
      /\ dial \in {"none", "dialing", "waiting", "check"} /\ online \in BOOLEAN
      /\ handlers \in [Handlers -> HandlerRecord]
      /\ timers \subseteq Servers /\ past \in PastRecord
      /\ connLeft \in [ConnDisturbances -> Nat]
      /\ conn.last \in Servers
  BY ConnParts DEF ConnInv, ConnKept
<1>left. connLeft' \in [ConnDisturbances -> Nat]
  BY <1>0, Spent DEF ConnDisturbances, Described, Awaited
<1>1. handlers' \in [Handlers -> HandlerRecord]
  <2>1. handlers' = handlers \/ (lib.waiter # Nobody /\ handlers' = [handlers EXCEPT ![lib.waiter].outcome = "connected"])
    BY DEF Described
  <2>2. CASE lib.waiter \in Handlers
    <3>1. [handlers EXCEPT ![lib.waiter].outcome = "connected"] \in HandlerFuns
      BY <2>2, <1>0, PutsOutcome DEF HandlerFuns, WaitOutcomes
    <3> QED
      BY <2>1, <3>1, <1>0 DEF HandlerFuns
  <2>3. CASE lib.waiter \notin Handlers
    BY <2>1, <2>3, <1>0
  <2> QED
    BY <2>2, <2>3
<1>2. gate' \in Gates /\ LinkMoves(gate, gate')
  <2>1. CASE gate' = [gate EXCEPT !.connected = TRUE]
    BY <1>0, <2>1 DEF Gates, LinkMoves
  <2>2. CASE gate' = Disconnected(gate, "moved")
    BY <1>0, <2>2, DisconnectedMoves DEF LossCauses
  <2> QED
    BY <2>1, <2>2 DEF Described
<1>3. conn' \in ConnRecord /\ conn'.last \in Servers
  BY <1>0 DEF Described, Awaited, ConnRecord
<1>4. past' \in PastRecord
  BY <1>0, OpenSends DEF Described, Awaited
<1>5. /\ sock' \in Sockets /\ dial' \in {"none", "dialing", "waiting", "check"}
      /\ online' \in BOOLEAN /\ timers' \subseteq Servers
  <2>1. NoSock \in Sockets
    BY ConnAssumption DEF NoSock, Sockets, None
  <2>2. gate.opened \in 0 .. MaxServers
    BY <1>0, ConnAssumption DEF Gates, Servers
  <2> QED
    BY <1>0, <2>1, <2>2 DEF Described, Awaited, NoSocket, Sockets
<1>6. LossesReal'
  <2>1. \A k \in Handlers : /\ handlers'[k].at = handlers[k].at /\ handlers'[k].loss = handlers[k].loss
                            /\ handlers'[k].cancelled = handlers[k].cancelled
    <3> SUFFICES ASSUME NEW k \in Handlers
                 PROVE  /\ handlers'[k].at = handlers[k].at /\ handlers'[k].loss = handlers[k].loss
                        /\ handlers'[k].cancelled = handlers[k].cancelled
      OBVIOUS
    <3>1. handlers[k] \in HandlerRecord
      BY <1>0
    <3>2. \E o : handlers'[k] = handlers[k] \/ handlers'[k] = [handlers[k] EXCEPT !.outcome = o]
      BY <1>0 DEF Described, HandlerRecord
    <3> QED
      BY <3>1, <3>2 DEF HandlerRecord
  <2> QED
    BY <2>1 DEF ConnInv, ConnKept, LossesReal
<1>7. \A k \in Handlers :
        /\ handlers'[k].at = "start" => handlers[k].at = "start"
        /\ handlers'[k].at \in RejoinSteps /\ ~handlers'[k].cancelled =>
             handlers[k].at \in RejoinSteps /\ ~handlers[k].cancelled
        /\ handlers'[k].at \in {"sending", "leavingLate"} => handlers[k].at \in {"sending", "leavingLate"}
  <2>1. \A k \in Handlers : /\ handlers'[k].at = handlers[k].at /\ handlers'[k].loss = handlers[k].loss
                            /\ handlers'[k].cancelled = handlers[k].cancelled
    <3> SUFFICES ASSUME NEW k \in Handlers
                 PROVE  /\ handlers'[k].at = handlers[k].at /\ handlers'[k].loss = handlers[k].loss
                        /\ handlers'[k].cancelled = handlers[k].cancelled
      OBVIOUS
    <3>1. handlers[k] \in HandlerRecord
      BY <1>0
    <3>2. \E o : handlers'[k] = handlers[k] \/ handlers'[k] = [handlers[k] EXCEPT !.outcome = o]
      BY <1>0 DEF Described, HandlerRecord
    <3> QED
      BY <3>1, <3>2 DEF HandlerRecord
  <2> QED
    BY <2>1
<1>8. WindowKept'
  <2>1. past' = past /\ conn'.rejoin = conn.rejoin /\ conn'.closed = conn.closed
    BY <1>0 DEF Described, Awaited, ConnRecord
  <2> QED
    BY <1>7, <2>1, WindowStays DEF ConnInv
<1> QED
  BY <1>left, <1>1, <1>2, <1>3, <1>4, <1>5, <1>6, <1>8
     DEF ConnInv, ConnKept, ConnTypeOK, ConnRecord, Gates, Sockets, HandlerRecord, PastRecord, Update


LEMMA DialDoneKept ==
  ASSUME ConnInv, DialDone
  PROVE  ConnInv' /\ LinkMoves(gate, gate')
<1>0. /\ conn \in ConnRecord /\ gate \in Gates /\ sock \in Sockets
      /\ dial \in {"none", "dialing", "waiting", "check"} /\ online \in BOOLEAN
      /\ handlers \in [Handlers -> HandlerRecord]
      /\ timers \subseteq Servers /\ past \in PastRecord
      /\ connLeft \in [ConnDisturbances -> Nat]
      /\ conn.last \in Servers
  BY ConnParts DEF ConnInv, ConnKept
<1>left. connLeft' \in [ConnDisturbances -> Nat]
  BY <1>0, Spent DEF ConnDisturbances, DialDone, NamedLastIs
<1>1. handlers' \in [Handlers -> HandlerRecord]
  BY <1>0 DEF DialDone, NamedLastIs, HandlerRecord, HandlerSteps, RejoinSteps, WaitOutcomes, Closings, LossCauses
<1>2. gate' \in Gates /\ LinkMoves(gate, gate')
  <2>1. CASE gate' = [Renewed(gate, "moved") EXCEPT !.opened = conn.last] /\ gate.gw < MaxGateways
    <3>1. Renewed(gate, "moved") \in Gates /\ LinkMoves(gate, Renewed(gate, "moved"))
      BY <1>0, <2>1, RenewedMoves DEF LossCauses
    <3> QED
      BY <1>0, <2>1, <3>1, OpenedMoves
  <2>2. CASE gate' = gate
    BY <1>0, <2>2 DEF LinkMoves
  <2> QED
    BY <2>1, <2>2 DEF DialDone
<1>3. conn' \in ConnRecord /\ conn'.last \in Servers
  BY <1>0 DEF DialDone, NamedLastIs, ConnRecord
<1>4. past' \in PastRecord
  BY <1>0, OpenSends DEF DialDone, NamedLastIs
<1>5. /\ sock' \in Sockets /\ dial' \in {"none", "dialing", "waiting", "check"}
      /\ online' \in BOOLEAN /\ timers' \subseteq Servers
  <2>1. NoSock \in Sockets
    BY ConnAssumption DEF NoSock, Sockets, None
  <2>2. gate.opened \in 0 .. MaxServers
    BY <1>0, ConnAssumption DEF Gates, Servers
  <2> QED
    BY <1>0, <2>1, <2>2 DEF DialDone, NamedLastIs, NoSocket, Sockets
<1>6. LossesReal'
  BY <1>0 DEF ConnInv, ConnKept, LossesReal, DialDone, NamedLastIs, HandlerRecord
<1>7. \A k \in Handlers :
        /\ handlers'[k].at = "start" => handlers[k].at = "start"
        /\ handlers'[k].at \in RejoinSteps /\ ~handlers'[k].cancelled =>
             handlers[k].at \in RejoinSteps /\ ~handlers[k].cancelled
        /\ handlers'[k].at \in {"sending", "leavingLate"} => handlers[k].at \in {"sending", "leavingLate"}
  BY <1>0, RestTyped DEF DialDone, NamedLastIs, HandlerRecord, RejoinSteps
<1>8. WindowKept'
  <2>1. past' = past /\ conn'.rejoin = conn.rejoin /\ conn'.closed = conn.closed
    BY <1>0 DEF DialDone, NamedLastIs, ConnRecord
  <2> QED
    BY <1>7, <2>1, WindowStays DEF ConnInv
<1> QED
  BY <1>left, <1>1, <1>2, <1>3, <1>4, <1>5, <1>6, <1>8
     DEF ConnInv, ConnKept, ConnTypeOK, ConnRecord, Gates, Sockets, HandlerRecord, PastRecord, Update


LEMMA DialRefusedKept ==
  ASSUME ConnInv, DialRefused
  PROVE  ConnInv' /\ LinkMoves(gate, gate')
<1>0. /\ conn \in ConnRecord /\ gate \in Gates /\ sock \in Sockets
      /\ dial \in {"none", "dialing", "waiting", "check"} /\ online \in BOOLEAN
      /\ handlers \in [Handlers -> HandlerRecord]
      /\ timers \subseteq Servers /\ past \in PastRecord
      /\ connLeft \in [ConnDisturbances -> Nat]
      /\ conn.last \in Servers
  BY ConnParts DEF ConnInv, ConnKept
<1>left. connLeft' \in [ConnDisturbances -> Nat]
  BY <1>0, Spent DEF ConnDisturbances, DialRefused
<1>1. handlers' \in [Handlers -> HandlerRecord]
  <2>1. handlers' = handlers \/ handlers' = EndAttempt(handlers, "refused")
    BY DEF DialRefused
  <2> QED
    BY <2>1, <1>0, EndsTry DEF HandlerFuns, WaitOutcomes
<1>2. gate' \in Gates /\ LinkMoves(gate, gate')
  BY <1>0 DEF DialRefused, LinkMoves, Gates
<1>3. conn' \in ConnRecord /\ conn'.last \in Servers
  <2>1. conn' = conn \/ conn' = [conn EXCEPT !.shunned = conn.held, !.held = None]
    BY DEF DialRefused
  <2>2. conn.held \in 0 .. MaxServers /\ None \in 0 .. MaxServers
    BY <1>0, ConnAssumption DEF ConnRecord, None
  <2> QED
    BY <1>0, <2>1, <2>2 DEF ConnRecord
<1>4. past' \in PastRecord
  BY <1>0, OpenSends DEF DialRefused
<1>5. /\ sock' \in Sockets /\ dial' \in {"none", "dialing", "waiting", "check"}
      /\ online' \in BOOLEAN /\ timers' \subseteq Servers
  <2>1. NoSock \in Sockets
    BY ConnAssumption DEF NoSock, Sockets, None
  <2>2. gate.opened \in 0 .. MaxServers
    BY <1>0, ConnAssumption DEF Gates, Servers
  <2> QED
    BY <1>0, <2>1, <2>2 DEF DialRefused, NoSocket, Sockets
<1>6. LossesReal'
  <2>1. \A k \in Handlers : /\ handlers'[k].at = handlers[k].at /\ handlers'[k].loss = handlers[k].loss
                            /\ handlers'[k].cancelled = handlers[k].cancelled
    <3> SUFFICES ASSUME NEW k \in Handlers
                 PROVE  /\ handlers'[k].at = handlers[k].at /\ handlers'[k].loss = handlers[k].loss
                        /\ handlers'[k].cancelled = handlers[k].cancelled
      OBVIOUS
    <3>1. handlers[k] \in HandlerRecord
      BY <1>0
    <3>2. \E o : handlers'[k] = handlers[k] \/ handlers'[k] = [handlers[k] EXCEPT !.outcome = o]
      <4>1. EndAttempt(handlers, "refused")[k] = [handlers[k] EXCEPT !.outcome = EndAttempt(handlers, "refused")[k].outcome]
        BY SMTT(60), <1>0, EndsTry DEF HandlerFuns, WaitOutcomes
      <4>2. handlers' = handlers \/ handlers' = EndAttempt(handlers, "refused")
        BY DEF DialRefused
      <4> QED
        BY <4>1, <4>2
    <3> QED
      BY <3>1, <3>2 DEF HandlerRecord
  <2> QED
    BY <2>1 DEF ConnInv, ConnKept, LossesReal
<1>7. \A k \in Handlers :
        /\ handlers'[k].at = "start" => handlers[k].at = "start"
        /\ handlers'[k].at \in RejoinSteps /\ ~handlers'[k].cancelled =>
             handlers[k].at \in RejoinSteps /\ ~handlers[k].cancelled
        /\ handlers'[k].at \in {"sending", "leavingLate"} => handlers[k].at \in {"sending", "leavingLate"}
  <2>1. \A k \in Handlers : /\ handlers'[k].at = handlers[k].at /\ handlers'[k].loss = handlers[k].loss
                            /\ handlers'[k].cancelled = handlers[k].cancelled
    <3> SUFFICES ASSUME NEW k \in Handlers
                 PROVE  /\ handlers'[k].at = handlers[k].at /\ handlers'[k].loss = handlers[k].loss
                        /\ handlers'[k].cancelled = handlers[k].cancelled
      OBVIOUS
    <3>1. handlers[k] \in HandlerRecord
      BY <1>0
    <3>2. \E o : handlers'[k] = handlers[k] \/ handlers'[k] = [handlers[k] EXCEPT !.outcome = o]
      <4>1. EndAttempt(handlers, "refused")[k] = [handlers[k] EXCEPT !.outcome = EndAttempt(handlers, "refused")[k].outcome]
        BY SMTT(60), <1>0, EndsTry DEF HandlerFuns, WaitOutcomes
      <4>2. handlers' = handlers \/ handlers' = EndAttempt(handlers, "refused")
        BY DEF DialRefused
      <4> QED
        BY <4>1, <4>2
    <3> QED
      BY <3>1, <3>2 DEF HandlerRecord
  <2> QED
    BY <2>1
<1>8. WindowKept'
  <2>1. past' = past /\ conn'.rejoin = conn.rejoin /\ conn'.closed = conn.closed
    BY <1>0 DEF DialRefused, ConnRecord
  <2> QED
    BY <1>7, <2>1, WindowStays DEF ConnInv
<1> QED
  BY <1>left, <1>1, <1>2, <1>3, <1>4, <1>5, <1>6, <1>8
     DEF ConnInv, ConnKept, ConnTypeOK, ConnRecord, Gates, Sockets, HandlerRecord, PastRecord, Update


LEMMA ReopenKept ==
  ASSUME ConnInv, Reopen
  PROVE  ConnInv' /\ LinkMoves(gate, gate')
<1>0. /\ conn \in ConnRecord /\ gate \in Gates /\ sock \in Sockets
      /\ dial \in {"none", "dialing", "waiting", "check"} /\ online \in BOOLEAN
      /\ handlers \in [Handlers -> HandlerRecord]
      /\ timers \subseteq Servers /\ past \in PastRecord
      /\ connLeft \in [ConnDisturbances -> Nat]
      /\ conn.last \in Servers
  BY ConnParts DEF ConnInv, ConnKept
<1>left. connLeft' \in [ConnDisturbances -> Nat]
  <2>1. UNCHANGED connLeft \/ \E k \in ConnDisturbances : Use(k)
    BY DEF ConnDisturbances, Reopen
  <2> QED
    BY <1>0, <2>1, SpentAny
<1>1. handlers' \in [Handlers -> HandlerRecord]
  BY <1>0 DEF Reopen, HandlerRecord, HandlerSteps, RejoinSteps, WaitOutcomes, Closings, LossCauses
<1>2. gate' \in Gates /\ LinkMoves(gate, gate')
  <2>1. gate' = Dialed(Renewed(gate, "dave")) /\ gate.gw < MaxGateways
    BY DEF Reopen
  <2>2. Renewed(gate, "dave") \in Gates /\ LinkMoves(gate, Renewed(gate, "dave")) /\ ~Renewed(gate, "dave").connected
    BY <1>0, <2>1, RenewedMoves DEF LossCauses
  <2>3. Dialed(Renewed(gate, "dave")) \in Gates
        /\ Dialed(Renewed(gate, "dave")).connected = Renewed(gate, "dave").connected
        /\ Dialed(Renewed(gate, "dave")).losses = Renewed(gate, "dave").losses
        /\ Dialed(Renewed(gate, "dave")).cause = Renewed(gate, "dave").cause
    BY <1>0, <2>2, DialedMoves
  <2> QED
    BY <2>1, <2>2, <2>3 DEF LinkMoves
<1>3. conn' \in ConnRecord /\ conn'.last \in Servers
  BY <1>0 DEF Reopen, ConnRecord
<1>4. past' \in PastRecord
  BY <1>0, OpenSends DEF Reopen
<1>5. /\ sock' \in Sockets /\ dial' \in {"none", "dialing", "waiting", "check"}
      /\ online' \in BOOLEAN /\ timers' \subseteq Servers
  <2>1. NoSock \in Sockets
    BY ConnAssumption DEF NoSock, Sockets, None
  <2>2. gate.opened \in 0 .. MaxServers
    BY <1>0, ConnAssumption DEF Gates, Servers
  <2> QED
    BY <1>0, <2>1, <2>2 DEF Reopen, NoSocket, Sockets
<1>6. LossesReal'
  BY <1>0 DEF ConnInv, ConnKept, LossesReal, Reopen, HandlerRecord
<1>7. \A k \in Handlers :
        /\ handlers'[k].at = "start" => handlers[k].at = "start"
        /\ handlers'[k].at \in RejoinSteps /\ ~handlers'[k].cancelled =>
             handlers[k].at \in RejoinSteps /\ ~handlers[k].cancelled
        /\ handlers'[k].at \in {"sending", "leavingLate"} => handlers[k].at \in {"sending", "leavingLate"}
  BY <1>0, RestTyped DEF Reopen, HandlerRecord, RejoinSteps
<1>8. WindowKept'
  <2>1. past' = past /\ conn'.rejoin = conn.rejoin /\ conn'.closed = conn.closed
    BY <1>0 DEF Reopen, ConnRecord
  <2> QED
    BY <1>7, <2>1, WindowStays DEF ConnInv
<1> QED
  BY <1>left, <1>1, <1>2, <1>3, <1>4, <1>5, <1>6, <1>8
     DEF ConnInv, ConnKept, ConnTypeOK, ConnRecord, Gates, Sockets, HandlerRecord, PastRecord, Update


LEMMA RedeliverKept ==
  ASSUME ConnInv, NEW n \in timers, Redeliver(n)
  PROVE  ConnInv' /\ LinkMoves(gate, gate')
<1>0. /\ conn \in ConnRecord /\ gate \in Gates /\ sock \in Sockets
      /\ dial \in {"none", "dialing", "waiting", "check"} /\ online \in BOOLEAN
      /\ handlers \in [Handlers -> HandlerRecord]
      /\ timers \subseteq Servers /\ past \in PastRecord
      /\ connLeft \in [ConnDisturbances -> Nat]
      /\ conn.last \in Servers
  BY ConnParts DEF ConnInv, ConnKept
<1>left. connLeft' \in [ConnDisturbances -> Nat]
  BY <1>0, Spent DEF ConnDisturbances, Redeliver, Awaited
<1>1. handlers' \in [Handlers -> HandlerRecord]
  BY <1>0 DEF Redeliver, Awaited, HandlerRecord, HandlerSteps, RejoinSteps, WaitOutcomes, Closings, LossCauses
<1>2. gate' \in Gates /\ LinkMoves(gate, gate')
  <2>1. gate' = gate \/ gate' = Dialed(gate)
    BY DEF Redeliver
  <2> QED
    BY <1>0, <2>1, DialedMoves DEF LinkMoves
<1>3. conn' \in ConnRecord /\ conn'.last \in Servers
  <2>1. conn' = conn \/ conn' = [conn EXCEPT !.dropped = None, !.held = n]
    BY DEF Redeliver
  <2>2. n \in 0 .. MaxServers /\ None \in 0 .. MaxServers
    BY <1>0, ConnAssumption DEF Servers, None
  <2> QED
    BY <1>0, <2>1, <2>2 DEF ConnRecord
<1>4. past' \in PastRecord
  BY <1>0, OpenSends DEF Redeliver, Awaited
<1>5. /\ sock' \in Sockets /\ dial' \in {"none", "dialing", "waiting", "check"}
      /\ online' \in BOOLEAN /\ timers' \subseteq Servers
  <2>1. NoSock \in Sockets
    BY ConnAssumption DEF NoSock, Sockets, None
  <2>2. gate.opened \in 0 .. MaxServers
    BY <1>0, ConnAssumption DEF Gates, Servers
  <2> QED
    BY <1>0, <2>1, <2>2 DEF Redeliver, Awaited, NoSocket, Sockets
<1>6. LossesReal'
  BY <1>0 DEF ConnInv, ConnKept, LossesReal, Redeliver, Awaited, HandlerRecord
<1>7. \A k \in Handlers :
        /\ handlers'[k].at = "start" => handlers[k].at = "start"
        /\ handlers'[k].at \in RejoinSteps /\ ~handlers'[k].cancelled =>
             handlers[k].at \in RejoinSteps /\ ~handlers[k].cancelled
        /\ handlers'[k].at \in {"sending", "leavingLate"} => handlers[k].at \in {"sending", "leavingLate"}
  BY <1>0, RestTyped DEF Redeliver, Awaited, HandlerRecord, RejoinSteps
<1>8. WindowKept'
  <2>1. past' = past /\ conn'.rejoin = conn.rejoin /\ conn'.closed = conn.closed
    BY <1>0 DEF Redeliver, Awaited, ConnRecord
  <2> QED
    BY <1>7, <2>1, WindowStays DEF ConnInv
<1> QED
  BY <1>left, <1>1, <1>2, <1>3, <1>4, <1>5, <1>6, <1>8
     DEF ConnInv, ConnKept, ConnTypeOK, ConnRecord, Gates, Sockets, HandlerRecord, PastRecord, Update


LEMMA CloseKept ==
  ASSUME ConnInv, Close
  PROVE  ConnInv' /\ LinkMoves(gate, gate')
<1>0. /\ conn \in ConnRecord /\ gate \in Gates /\ sock \in Sockets
      /\ dial \in {"none", "dialing", "waiting", "check"} /\ online \in BOOLEAN
      /\ handlers \in [Handlers -> HandlerRecord]
      /\ timers \subseteq Servers /\ past \in PastRecord
      /\ connLeft \in [ConnDisturbances -> Nat]
      /\ conn.last \in Servers
  BY ConnParts DEF ConnInv, ConnKept
<1>left. connLeft' \in [ConnDisturbances -> Nat]
  BY <1>0, Spent DEF ConnDisturbances, Close
<1>1. handlers' \in [Handlers -> HandlerRecord]
  BY <1>0, CancelsRejoin DEF Close, HandlerFuns
<1>2. gate' \in Gates /\ LinkMoves(gate, gate')
  BY <1>0 DEF Close, LinkMoves, Gates
<1>3. conn' \in ConnRecord /\ conn'.last \in Servers
  BY <1>0 DEF Close, ConnRecord
<1>4. past' \in PastRecord
  <2>1. past' = [past EXCEPT !.midway = InHand] /\ InHand \subseteq Handlers
    BY DEF Close, InHand
  <2> QED
    BY <1>0, <2>1 DEF PastRecord
<1>5. /\ sock' \in Sockets /\ dial' \in {"none", "dialing", "waiting", "check"}
      /\ online' \in BOOLEAN /\ timers' \subseteq Servers
  BY <1>0 DEF Close
<1>at. \A k \in Handlers : /\ handlers'[k].at = handlers[k].at /\ handlers'[k].loss = handlers[k].loss
                           /\ (handlers[k].cancelled \/ k = conn.rejoin) => handlers'[k].cancelled
  <2> SUFFICES ASSUME NEW k \in Handlers
               PROVE  /\ handlers'[k].at = handlers[k].at /\ handlers'[k].loss = handlers[k].loss
                      /\ (handlers[k].cancelled \/ k = conn.rejoin) => handlers'[k].cancelled
    OBVIOUS
  <2>1. /\ handlers[k] \in HandlerRecord /\ handlers' = Cancelled(handlers)
        /\ Cancelled(handlers)[k] = [handlers[k] EXCEPT !.cancelled = (@ \/ k = conn.rejoin)]
    BY <1>0, CancelsRejoin DEF Close, HandlerFuns
  <2> QED
    BY <2>1 DEF HandlerRecord
<1>6. LossesReal'
  BY <1>at DEF ConnInv, ConnKept, LossesReal
<1>7. OneAtATime'
  <2>1. past'.crossed = past.crossed /\ conn'.rejoin = Nobody
    BY <1>0 DEF Close, PastRecord, ConnRecord
  <2> QED
    BY <1>at, <2>1 DEF ConnInv, WindowKept, OneAtATime, Rejoining
<1>8. QuietInv'
  <2>1. conn'.closed /\ past.sent = <<>> /\ past'.sent = past.sent /\ past'.midway = InHand
    BY <1>0 DEF Close, ConnRecord, PastRecord, ConnInv, WindowKept, QuietInv
  <2>2. \A k \in Handlers : handlers'[k].at \in {"sending", "leavingLate"} => k \in InHand
    BY <1>at DEF InHand
  <2> QED
    BY <2>1, <2>2 DEF QuietInv, QuietAfterClose
<1> QED
  BY <1>left, <1>1, <1>2, <1>3, <1>4, <1>5, <1>6, <1>7, <1>8
     DEF ConnInv, ConnKept, WindowKept, ConnTypeOK, ConnRecord, Gates, Sockets, HandlerRecord, PastRecord, Update


LEMMA CloseLeavesKept ==
  ASSUME ConnInv, CloseLeaves
  PROVE  ConnInv' /\ LinkMoves(gate, gate')
<1>0. /\ conn \in ConnRecord /\ gate \in Gates /\ sock \in Sockets
      /\ dial \in {"none", "dialing", "waiting", "check"} /\ online \in BOOLEAN
      /\ handlers \in [Handlers -> HandlerRecord]
      /\ timers \subseteq Servers /\ past \in PastRecord
      /\ connLeft \in [ConnDisturbances -> Nat]
      /\ conn.last \in Servers
  BY ConnParts DEF ConnInv, ConnKept
<1>left. connLeft' \in [ConnDisturbances -> Nat]
  BY <1>0, Spent DEF ConnDisturbances, CloseLeaves
<1>1. handlers' \in [Handlers -> HandlerRecord]
  BY <1>0 DEF CloseLeaves, HandlerRecord, HandlerSteps, RejoinSteps, WaitOutcomes, Closings, LossCauses
<1>2. gate' \in Gates /\ LinkMoves(gate, gate')
  BY <1>0 DEF CloseLeaves, LinkMoves, Gates
<1>3. conn' \in ConnRecord /\ conn'.last \in Servers
  BY <1>0 DEF CloseLeaves, ConnRecord
<1>4. past' \in PastRecord
  BY <1>0, OpenSends DEF CloseLeaves
<1>5. /\ sock' \in Sockets /\ dial' \in {"none", "dialing", "waiting", "check"}
      /\ online' \in BOOLEAN /\ timers' \subseteq Servers
  <2>1. NoSock \in Sockets
    BY ConnAssumption DEF NoSock, Sockets, None
  <2>2. gate.opened \in 0 .. MaxServers
    BY <1>0, ConnAssumption DEF Gates, Servers
  <2> QED
    BY <1>0, <2>1, <2>2 DEF CloseLeaves, NoSocket, Sockets
<1>6. LossesReal'
  BY <1>0 DEF ConnInv, ConnKept, LossesReal, CloseLeaves, HandlerRecord
<1>7. OneAtATime'
  <2>1. past'.crossed = past.crossed /\ conn' = conn /\ handlers' = handlers
    BY <1>0 DEF CloseLeaves, Sends, PastRecord
  <2> QED
    BY <2>1, AloneStays DEF ConnInv, WindowKept
<1>8. QuietInv'
  <2>1. conn' = conn /\ handlers' = handlers /\ conn.closed /\ ~LeaveSent /\ Sends("leave", Nobody)
    BY DEF CloseLeaves
  <2>2. past' = [past EXCEPT !.sent = Append(@, [what |-> "leave", by |-> Nobody])]
    BY <1>0, <2>1, OpenSends
  <2>3. \A i \in DOMAIN past.sent : past.sent[i].by # Nobody
    BY <2>1 DEF LeaveSent
  <2> QED
    BY <1>0, <2>1, <2>2, <2>3, ConnAssumption, QuietAdds DEF ConnInv, WindowKept
<1> QED
  BY <1>left, <1>1, <1>2, <1>3, <1>4, <1>5, <1>6, <1>7, <1>8
     DEF ConnInv, ConnKept, WindowKept, ConnTypeOK, ConnRecord, Gates, Sockets, HandlerRecord, PastRecord, Update


LEMMA WorldKept ==
  ASSUME ConnInv, World
  PROVE  ConnInv' /\ LinkMoves(gate, gate')
<1>0. /\ conn \in ConnRecord /\ gate \in Gates /\ sock \in Sockets
      /\ dial \in {"none", "dialing", "waiting", "check"} /\ online \in BOOLEAN
      /\ handlers \in [Handlers -> HandlerRecord]
      /\ timers \subseteq Servers /\ past \in PastRecord
      /\ connLeft \in [ConnDisturbances -> Nat]
      /\ conn.last \in Servers
  BY ConnParts DEF ConnInv, ConnKept
<1>left. connLeft' \in [ConnDisturbances -> Nat]
  <2>1. UNCHANGED connLeft \/ \E k \in ConnDisturbances : Use(k)
    BY DEF ConnDisturbances, World, Moves, TakenOut, Muted
  <2> QED
    BY <1>0, <2>1, SpentAny
<1>1. handlers' \in [Handlers -> HandlerRecord]
  BY <1>0 DEF World, Moves, TakenOut, Muted, HandlerRecord, HandlerSteps, RejoinSteps, WaitOutcomes, Closings, LossCauses
<1>2. gate' \in Gates /\ LinkMoves(gate, gate')
  BY <1>0 DEF World, Moves, TakenOut, Muted, LinkMoves, Gates
<1>3. conn' \in ConnRecord /\ conn'.last \in Servers
  BY <1>0 DEF World, Moves, TakenOut, Muted, ConnRecord
<1>4. past' \in PastRecord
  BY <1>0, OpenSends DEF World, Moves, TakenOut, Muted
<1>5. /\ sock' \in Sockets /\ dial' \in {"none", "dialing", "waiting", "check"}
      /\ online' \in BOOLEAN /\ timers' \subseteq Servers
  <2>1. NoSock \in Sockets
    BY ConnAssumption DEF NoSock, Sockets, None
  <2>2. gate.opened \in 0 .. MaxServers
    BY <1>0, ConnAssumption DEF Gates, Servers
  <2> QED
    BY <1>0, <2>1, <2>2 DEF World, Moves, TakenOut, Muted, NoSocket, Sockets
<1>6. LossesReal'
  BY <1>0 DEF ConnInv, ConnKept, LossesReal, World, Moves, TakenOut, Muted, HandlerRecord
<1>7. \A k \in Handlers :
        /\ handlers'[k].at = "start" => handlers[k].at = "start"
        /\ handlers'[k].at \in RejoinSteps /\ ~handlers'[k].cancelled =>
             handlers[k].at \in RejoinSteps /\ ~handlers[k].cancelled
        /\ handlers'[k].at \in {"sending", "leavingLate"} => handlers[k].at \in {"sending", "leavingLate"}
  BY <1>0, RestTyped DEF World, Moves, TakenOut, Muted, HandlerRecord, RejoinSteps
<1>8. WindowKept'
  <2>1. past' = past /\ conn'.rejoin = conn.rejoin /\ conn'.closed = conn.closed
    BY <1>0 DEF World, Moves, TakenOut, Muted, ConnRecord
  <2> QED
    BY <1>7, <2>1, WindowStays DEF ConnInv
<1> QED
  BY <1>left, <1>1, <1>2, <1>3, <1>4, <1>5, <1>6, <1>8
     DEF ConnInv, ConnKept, ConnTypeOK, ConnRecord, Gates, Sockets, HandlerRecord, PastRecord, Update


LEMMA SessionTurnsKept ==
  ASSUME ConnInv, SessionTurns
  PROVE  ConnInv' /\ LinkMoves(gate, gate')
<1>0. /\ conn \in ConnRecord /\ gate \in Gates /\ sock \in Sockets
      /\ dial \in {"none", "dialing", "waiting", "check"} /\ online \in BOOLEAN
      /\ handlers \in [Handlers -> HandlerRecord]
      /\ timers \subseteq Servers /\ past \in PastRecord
      /\ connLeft \in [ConnDisturbances -> Nat]
      /\ conn.last \in Servers
  BY ConnParts DEF ConnInv, ConnKept
<1>left. connLeft' \in [ConnDisturbances -> Nat]
  <2>1. UNCHANGED connLeft \/ \E k \in ConnDisturbances : Use(k)
    BY DEF ConnDisturbances, SessionTurns, Goes, Returns
  <2> QED
    BY <1>0, <2>1, SpentAny
<1>1. handlers' \in [Handlers -> HandlerRecord]
  BY <1>0 DEF SessionTurns, Goes, Returns, HandlerRecord, HandlerSteps, RejoinSteps, WaitOutcomes, Closings, LossCauses
<1>2. gate' \in Gates /\ LinkMoves(gate, gate')
  BY <1>0 DEF SessionTurns, Goes, Returns, LinkMoves, Gates
<1>3. conn' \in ConnRecord /\ conn'.last \in Servers
  BY <1>0 DEF SessionTurns, Goes, Returns, ConnRecord
<1>4. past' \in PastRecord
  BY <1>0, OpenSends DEF SessionTurns, Goes, Returns
<1>5. /\ sock' \in Sockets /\ dial' \in {"none", "dialing", "waiting", "check"}
      /\ online' \in BOOLEAN /\ timers' \subseteq Servers
  <2>1. NoSock \in Sockets
    BY ConnAssumption DEF NoSock, Sockets, None
  <2>2. gate.opened \in 0 .. MaxServers
    BY <1>0, ConnAssumption DEF Gates, Servers
  <2> QED
    BY <1>0, <2>1, <2>2 DEF SessionTurns, Goes, Returns, NoSocket, Sockets
<1>6. LossesReal'
  BY <1>0 DEF ConnInv, ConnKept, LossesReal, SessionTurns, Goes, Returns, HandlerRecord
<1>7. \A k \in Handlers :
        /\ handlers'[k].at = "start" => handlers[k].at = "start"
        /\ handlers'[k].at \in RejoinSteps /\ ~handlers'[k].cancelled =>
             handlers[k].at \in RejoinSteps /\ ~handlers[k].cancelled
        /\ handlers'[k].at \in {"sending", "leavingLate"} => handlers[k].at \in {"sending", "leavingLate"}
  BY <1>0, RestTyped DEF SessionTurns, Goes, Returns, HandlerRecord, RejoinSteps
<1>8. WindowKept'
  <2>1. past' = past /\ conn'.rejoin = conn.rejoin /\ conn'.closed = conn.closed
    BY <1>0 DEF SessionTurns, Goes, Returns, ConnRecord
  <2> QED
    BY <1>7, <2>1, WindowStays DEF ConnInv
<1> QED
  BY <1>left, <1>1, <1>2, <1>3, <1>4, <1>5, <1>6, <1>8
     DEF ConnInv, ConnKept, ConnTypeOK, ConnRecord, Gates, Sockets, HandlerRecord, PastRecord, Update


LEMMA DeliverKept ==
  ASSUME ConnInv, Deliver
  PROVE  ConnInv' /\ LinkMoves(gate, gate')
<1>0. /\ conn \in ConnRecord /\ gate \in Gates /\ sock \in Sockets
      /\ dial \in {"none", "dialing", "waiting", "check"} /\ online \in BOOLEAN
      /\ handlers \in [Handlers -> HandlerRecord]
      /\ timers \subseteq Servers /\ past \in PastRecord
      /\ connLeft \in [ConnDisturbances -> Nat]
      /\ conn.last \in Servers
  BY ConnParts DEF ConnInv, ConnKept
<1>left. connLeft' \in [ConnDisturbances -> Nat]
  BY <1>0, Spent DEF ConnDisturbances, Deliver, Opening, OpensNow, DialsAt
<1>1. handlers' \in [Handlers -> HandlerRecord]
  <2>1. handlers' = handlers \/ handlers' = Cancelled(handlers)
    BY DEF Deliver
  <2> QED
    BY <2>1, <1>0, CancelsRejoin DEF HandlerFuns
<1>2. gate' \in Gates /\ LinkMoves(gate, gate')
  <2>1. \/ gate' = gate \/ gate' = Dialed(gate)
        \/ \E e \in Servers : gate' = [Dialed(gate) EXCEPT !.opened = e]
    BY DEF Deliver, DialsAt
  <2>2. Dialed(gate) \in Gates /\ LinkMoves(gate, Dialed(gate))
    BY <1>0, DialedMoves
  <2>3. LinkMoves(gate, gate)
    BY DEF LinkMoves
  <2>4. ASSUME NEW e \in Servers, gate' = [Dialed(gate) EXCEPT !.opened = e]
        PROVE  gate' \in Gates /\ LinkMoves(gate, gate')
    BY <1>0, <2>2, <2>4, OpenedMoves
  <2> QED
    BY <1>0, <2>1, <2>2, <2>3, <2>4
<1>3. conn' \in ConnRecord /\ conn'.last \in Servers
  <2>1. \/ conn' = conn \/ conn' = [conn EXCEPT !.answer = Nobody] \/ conn' = [conn EXCEPT !.rejoin = Nobody]
        \/ \E e \in Servers : conn' = [conn EXCEPT !.last = e, !.dropped = None, !.held = None]
    BY DEF Deliver
  <2>2. None \in 0 .. MaxServers /\ Servers \subseteq 0 .. MaxServers
    BY ConnAssumption DEF None, Servers
  <2>3. CASE conn' = conn \/ conn' = [conn EXCEPT !.answer = Nobody] \/ conn' = [conn EXCEPT !.rejoin = Nobody]
    BY <1>0, <2>3 DEF ConnRecord
  <2>4. ASSUME NEW e \in Servers, conn' = [conn EXCEPT !.last = e, !.dropped = None, !.held = None]
        PROVE  conn' \in ConnRecord /\ conn'.last \in Servers
    BY <1>0, <2>2, <2>4 DEF ConnRecord
  <2> QED
    BY <2>1, <2>3, <2>4
<1>4. past' \in PastRecord
  BY <1>0, OpenSends DEF Deliver, Opening, OpensNow, DialsAt
<1>5. /\ sock' \in Sockets /\ dial' \in {"none", "dialing", "waiting", "check"}
      /\ online' \in BOOLEAN /\ timers' \subseteq Servers
  <2>1. NoSock \in Sockets
    BY ConnAssumption DEF NoSock, Sockets, None
  <2>2. sock' = sock \/ sock' = NoSock
    BY DEF Deliver, NoSocket
  <2>3. dial' \in {dial, "dialing", "check", "none"} /\ online' = online
    BY DEF Deliver, DialsAt
  <2>4. timers' \subseteq Servers
    <3>1. timers' = timers \/ (conn.dropped # None /\ timers' = timers \cup {conn.dropped})
      BY DEF Deliver
    <3>2. conn.dropped # None => conn.dropped \in Servers
      BY <1>0, ConnAssumption DEF ConnRecord, None, Servers
    <3> QED
      BY <1>0, <3>1, <3>2
  <2> QED
    BY <1>0, <2>1, <2>2, <2>3, <2>4
<1>at. \A k \in Handlers :
         /\ handlers'[k].at = handlers[k].at /\ handlers'[k].loss = handlers[k].loss
         /\ handlers[k].cancelled => handlers'[k].cancelled
         /\ handlers' = Cancelled(handlers) /\ k = conn.rejoin => handlers'[k].cancelled
  <2> SUFFICES ASSUME NEW k \in Handlers
               PROVE  /\ handlers'[k].at = handlers[k].at /\ handlers'[k].loss = handlers[k].loss
                      /\ handlers[k].cancelled => handlers'[k].cancelled
                      /\ handlers' = Cancelled(handlers) /\ k = conn.rejoin => handlers'[k].cancelled
    OBVIOUS
  <2>1. /\ handlers[k] \in HandlerRecord /\ (handlers' = handlers \/ handlers' = Cancelled(handlers))
        /\ Cancelled(handlers)[k] = [handlers[k] EXCEPT !.cancelled = (@ \/ k = conn.rejoin)]
    BY <1>0, CancelsRejoin DEF Deliver, HandlerFuns
  <2>2. CASE handlers' = Cancelled(handlers)
    BY <2>1, <2>2 DEF HandlerRecord
  <2>3. CASE handlers' = handlers /\ handlers' # Cancelled(handlers)
    BY <2>3
  <2> QED
    BY <2>1, <2>2, <2>3
<1>6. LossesReal'
  BY <1>at DEF ConnInv, ConnKept, LossesReal
<1>7. OneAtATime'
  <2>1. past' = past
    BY DEF Deliver
  <2>2. CASE conn'.rejoin = conn.rejoin
    BY <1>at, <2>1, <2>2, AloneStays DEF ConnInv, WindowKept
  <2>3. CASE handlers' = Cancelled(handlers) /\ conn'.rejoin = Nobody
    BY <1>at, <2>1, <2>3 DEF ConnInv, WindowKept, OneAtATime, Rejoining
  <2> QED
    BY <1>0, <2>2, <2>3 DEF Deliver, ConnRecord
<1>8. QuietInv'
  <2>1. past' = past /\ conn'.closed = conn.closed
    BY <1>0 DEF Deliver, ConnRecord
  <2> QED
    BY <1>at, <2>1, QuietStays DEF ConnInv, WindowKept
<1> QED
  BY <1>left, <1>1, <1>2, <1>3, <1>4, <1>5, <1>6, <1>7, <1>8
     DEF ConnInv, ConnKept, WindowKept, ConnTypeOK, ConnRecord, Gates, Sockets, HandlerRecord, PastRecord, Update


LEMMA DropsKept ==
  ASSUME ConnInv, NEW h \in Handlers, Drops(h)
  PROVE  ConnInv' /\ LinkMoves(gate, gate')
<1>0. /\ conn \in ConnRecord /\ gate \in Gates /\ sock \in Sockets
      /\ dial \in {"none", "dialing", "waiting", "check"} /\ online \in BOOLEAN
      /\ handlers \in [Handlers -> HandlerRecord]
      /\ timers \subseteq Servers /\ past \in PastRecord
      /\ connLeft \in [ConnDisturbances -> Nat]
      /\ conn.last \in Servers
  BY ConnParts DEF ConnInv, ConnKept
<1>left. connLeft' \in [ConnDisturbances -> Nat]
  <2>1. UNCHANGED connLeft \/ \E k \in ConnDisturbances : Use(k)
    BY DEF ConnDisturbances, Drops, Beside
  <2> QED
    BY <1>0, <2>1, SpentAny
<1>lost. /\ gate' \in Gates /\ LinkMoves(gate, gate')
         /\ \E r \in HandlerRecord : /\ r.loss > 0 /\ r.at \in {"lookup", "giveup", "renew"}
                                     /\ handlers' = [handlers EXCEPT ![h] = r]
  <2>1. PICK err \in {"closed", "heartbeat", "silent", "terminated", "fatal"} : Lost(h, err)
    BY DEF Drops
  <2> DEFINE why == CASE err = "terminated" -> NotNamed
                      [] err \in {"heartbeat", "silent"} -> err
                      [] OTHER -> "closed"
             g == Disconnected(gate, why)
             r == [Rest EXCEPT !.err = err, !.loss = g.losses, !.opened = g.lostAt, !.gw = g.gw,
                               !.cause = IF err = "terminated" THEN NotNamed ELSE "closed",
                               !.at = CASE err = "terminated" -> "lookup"
                                        [] err = "fatal"      -> "giveup"
                                        [] OTHER              -> "renew"]
  <2>2. gate' = g /\ handlers' = [handlers EXCEPT ![h] = r]
    BY <2>1 DEF Lost
  <2>3. why \in LossCauses \cup {NotNamed}
    BY <2>1 DEF LossCauses
  <2> HIDE DEF why
  <2>4. g \in Gates /\ g.losses > 0 /\ LinkMoves(gate, g)
    BY <1>0, <2>3, DisconnectedMoves
  <2>5. g.losses \in Nat /\ g.lostAt \in 0 .. MaxServers /\ g.gw \in 0 .. MaxGateways
    BY <2>4, ConnAssumption DEF Gates
  <2> HIDE DEF g
  <2>6. r.loss = g.losses /\ r.at \in {"lookup", "giveup", "renew"}
    BY <2>1 DEF Rest
  <2>7. r \in HandlerRecord
    BY ZenonT(60), <2>1, <2>5, RestTyped DEF Rest, HandlerRecord, HandlerSteps, Closings, LossCauses, WaitOutcomes
  <2> HIDE DEF r
  <2> QED
    BY <2>2, <2>4, <2>6, <2>7
<1>one. PICK r \in HandlerRecord : r.loss > 0 /\ r.at \in {"lookup", "giveup", "renew"}
                                  /\ handlers' = [handlers EXCEPT ![h] = r]
  BY <1>lost
<1>1. /\ handlers' \in [Handlers -> HandlerRecord]
      /\ handlers'[h] = r /\ \A k \in Handlers \ {h} : handlers'[k] = handlers[k]
  BY <1>0, <1>one
<1>2. gate' \in Gates /\ LinkMoves(gate, gate')
  BY <1>lost
<1>3. conn' \in ConnRecord /\ conn'.last \in Servers
  BY <1>0 DEF Drops, Beside, ConnRecord
<1>4. past' \in PastRecord
  BY <1>0, OpenSends DEF Drops, Beside
<1>5. /\ sock' \in Sockets /\ dial' \in {"none", "dialing", "waiting", "check"}
      /\ online' \in BOOLEAN /\ timers' \subseteq Servers
  <2>1. NoSock \in Sockets
    BY ConnAssumption DEF NoSock, Sockets, None
  <2>2. gate.opened \in 0 .. MaxServers
    BY <1>0, ConnAssumption DEF Gates, Servers
  <2> QED
    BY <1>0, <2>1, <2>2 DEF Drops, Beside, Lost, NoSocket, Sockets
<1>6. LossesReal'
  BY <1>one, <1>1 DEF ConnInv, ConnKept, LossesReal
<1>7. \A k \in Handlers :
        /\ handlers'[k].at = "start" => handlers[k].at = "start"
        /\ handlers'[k].at \in RejoinSteps /\ ~handlers'[k].cancelled =>
             handlers[k].at \in RejoinSteps /\ ~handlers[k].cancelled
        /\ handlers'[k].at \in {"sending", "leavingLate"} => handlers[k].at \in {"sending", "leavingLate"}
  BY <1>one, <1>1 DEF RejoinSteps
<1>8. WindowKept'
  <2>1. past' = past /\ conn'.rejoin = conn.rejoin /\ conn'.closed = conn.closed
    BY <1>0 DEF Drops, Beside, ConnRecord
  <2> QED
    BY <1>7, <2>1, WindowStays DEF ConnInv
<1> QED
  BY <1>left, <1>1, <1>2, <1>3, <1>4, <1>5, <1>6, <1>8
     DEF ConnInv, ConnKept, ConnTypeOK, ConnRecord, Gates, Sockets, HandlerRecord, PastRecord, Update

-----------------------------------------------------------------------------
(* Whatever the recorder, Discord or the network does of the connection.   *)
LEMMA ConnStep ==
  ASSUME ConnInv, ConnNext
  PROVE  ConnInv' /\ LinkMoves(gate, gate')
<1>1. ASSUME NEW h \in Handlers, Drops(h) \/ HandlerStep(h)
      PROVE  ConnInv' /\ LinkMoves(gate, gate')
  BY <1>1, DropsKept, LookupAnswersKept, CheckKept, GivesUpKept, RenewKept, HandKept, StartKept, JoinsKept,
     SendsLateKept, WaitEndsKept, ResultKept, RetriesKept, LeavesKept, LeftKept DEF HandlerStep
<1>2. CASE DialStep
  BY <1>2, DialOpensKept, DescribedKept, DialDoneKept, DialRefusedKept DEF DialStep
<1>3. CASE \E n \in timers : Redeliver(n)
  BY <1>3, RedeliverKept
<1>4. CASE Deliver \/ Close \/ CloseLeaves \/ World \/ SessionTurns \/ Reopen
  BY <1>4, DeliverKept, CloseKept, CloseLeavesKept, WorldKept, SessionTurnsKept, ReopenKept
<1> QED
  BY <1>1, <1>2, <1>3, <1>4 DEF ConnNext

LEMMA ConnStays ==
  ASSUME ConnInv, UNCHANGED connVars
  PROVE  ConnInv' /\ LinkMoves(gate, gate')
<1>1. /\ conn' = conn /\ gate' = gate /\ dial' = dial /\ sock' = sock /\ handlers' = handlers /\ timers' = timers
      /\ online' = online /\ past' = past /\ connLeft' = connLeft
  BY DEF connVars
<1>2. ConnKept'
  BY ZenonT(60), <1>1 DEF ConnInv, ConnKept, ConnTypeOK, LossesReal
<1>3. WindowKept'
  BY <1>1, WindowStays DEF ConnInv
<1>4. LinkMoves(gate, gate')
  BY <1>1 DEF LinkMoves
<1> QED
  BY <1>2, <1>3, <1>4 DEF ConnInv

LEMMA ConnStarts ==
  ASSUME ConnInit
  PROVE  ConnInv
<1>1. 1 \in 0 .. MaxServers /\ 0 \in 0 .. MaxServers /\ 1 \in Servers /\ 1 \in 1 .. MaxGateways /\ 0 \in Nat
  BY ConnAssumption DEF Servers
<1>2. connLeft \in [ConnDisturbances -> Nat]
  BY ConnAssumption DEF ConnInit
<1>3. conn \in ConnRecord /\ conn.last = 1 /\ ~conn.closed
  BY <1>1 DEF ConnInit, ConnRecord, None
<1>4. gate \in Gates /\ sock \in Sockets
  BY <1>1 DEF ConnInit, Gates, Sockets, None
<1>5. handlers \in [Handlers -> HandlerRecord] /\ \A h \in Handlers : handlers[h].at = "idle"
  BY RestTyped DEF ConnInit
<1>6. past.sent = <<>> /\ past \in PastRecord /\ timers = {} /\ dial = "none" /\ online
  BY EmptySeq DEF ConnInit, PastRecord
<1>7. ConnTypeOK
  BY <1>2, <1>3, <1>4, <1>5, <1>6, EmptySeq, ConnParts DEF ConnInit
<1>8. ConnKept
  BY <1>1, <1>3, <1>5, <1>7 DEF ConnKept, LossesReal
<1>9. WindowKept
  BY <1>3, <1>5, <1>6 DEF WindowKept, OneAtATime, Rejoining, RejoinSteps, QuietInv, QuietAfterClose
<1> QED
  BY <1>8, <1>9 DEF ConnInv

THEOREM ConnInvHolds == Spec => []ConnInv
<1>1. Init => ConnInv
  BY ConnStarts DEF Init
<1>2. ConnInv /\ [Next]_all => ConnInv'
  <2> SUFFICES ASSUME ConnInv, [Next]_all PROVE ConnInv'
    OBVIOUS
  <2>1. CASE OfConn(ConnNext)
    BY <2>1, ConnStep DEF OfConn
  <2>2. CASE UNCHANGED connVars
    BY <2>2, ConnStays
  <2>3. OfConn(ConnNext) \/ UNCHANGED connVars
    BY DEF Next, OfReceiver, besideReceiver, besideSockets, all
  <2> QED
    BY <2>1, <2>2, <2>3
<1> QED
  BY <1>1, <1>2, PTL DEF Spec

(* The gateway answers its receiver as a voice link promises: each step of *)
(* the connection's is one of the link's, or none.                         *)
THEOREM ConnImplementsLink == Spec => ImplementsLink
<1>1. Init => link!LinkInit
  BY DEF Init, ConnInit, link!LinkInit
<1>2. ConnInv /\ [Next]_all => [link!LinkNext]_(link!linkVars)
  <2> SUFFICES ASSUME ConnInv, [Next]_all PROVE [link!LinkNext]_(link!linkVars)
    OBVIOUS
  <2>1. LinkMoves(gate, gate')
    <3>1. CASE OfConn(ConnNext)
      BY <3>1, ConnStep DEF OfConn
    <3>2. CASE UNCHANGED connVars
      BY <3>2, ConnStays
    <3>3. OfConn(ConnNext) \/ UNCHANGED connVars
      BY DEF Next, OfReceiver, besideReceiver, besideSockets, all
    <3> QED
      BY <3>1, <3>2, <3>3
  <2> QED
    BY <2>1 DEF LinkMoves, link!LinkNext, link!Connect, link!Lose, link!NameCause, link!StillLost, link!linkVars
<1> QED
  BY <1>1, <1>2, ConnInvHolds, PTL DEF Spec, ImplementsLink, link!LinkSpec

(* However many closes, moves and silences come at once, the library waits *)
(* for the connection of one rejoin (gateway.go, handCloseToRejoin), until *)
(* a close comes between another's check and its note.                     *)
THEOREM OneRejoinAtATime == Spec => []OneRejoin
<1>1. ConnInv => OneRejoin
  <2> SUFFICES ASSUME ConnInv, ~past.crossed PROVE Cardinality({h \in Handlers : Rejoining(h)}) <= 1
    BY DEF OneRejoin, OneWaits
  <2> DEFINE R == {h \in Handlers : Rejoining(h)}
  <2>1. R \subseteq {conn.rejoin}
    BY DEF ConnInv, WindowKept, OneAtATime
  <2>2. IsFiniteSet({conn.rejoin}) /\ Cardinality({conn.rejoin}) = 1
    BY FS_Singleton
  <2> HIDE DEF R
  <2>3. Cardinality(R) <= 1
    BY <2>1, <2>2, FS_Subset
  <2> QED
    BY <2>3 DEF R
<1> QED
  BY <1>1, ConnInvHolds, PTL

(* After the close, the recorder's leave goes out once, and otherwise only *)
(* the updates that had passed the check as it closed, each handler's one  *)
(* (gateway.go, updateVoiceState, leave).                                  *)
THEOREM QuietOnceClosed == Spec => []QuietAfterClose
<1>1. ConnInv => QuietAfterClose
  BY DEF ConnInv, WindowKept, QuietInv
<1> QED
  BY <1>1, ConnInvHolds, PTL

-----------------------------------------------------------------------------
(* The sockets under the connection.                                       *)
LEMMA ClosedSocket ==
  ASSUME SocketsInv
  PROVE  /\ Closed(sockets, udp.socket) \in Seq({"opening", "open", "closed"})
         /\ Len(Closed(sockets, udp.socket)) = Len(sockets)
         /\ \A n \in 1 .. Len(sockets) : Closed(sockets, udp.socket)[n] # "open"
         /\ \A n \in 1 .. Len(sockets) : n # udp.socket => Closed(sockets, udp.socket)[n] = sockets[n]
<1>1. udp.socket \in Nat /\ sockets \in Seq({"opening", "open", "closed"}) /\ Len(sockets) \in Nat
  BY DEF SocketsInv
<1>2. \A n \in 1 .. Len(sockets) : sockets[n] = "open" => n = udp.socket
  BY DEF SocketsInv
<1>3. CASE udp.socket = NoSocketYet
  BY <1>1, <1>2, <1>3 DEF Closed, NoSocketYet
<1>4. CASE udp.socket # NoSocketYet
  <2>1. Closed(sockets, udp.socket) = [sockets EXCEPT ![udp.socket] = "closed"]
    BY <1>4 DEF Closed
  <2> DEFINE c == [sockets EXCEPT ![udp.socket] = "closed"]
  <2>2. c \in Seq({"opening", "open", "closed"}) /\ Len(c) = Len(sockets)
    <3>1. CASE udp.socket \in 1 .. Len(sockets)
      BY <1>1, <3>1, ExceptSeq
    <3>2. CASE udp.socket \notin 1 .. Len(sockets)
      <4>1. c = [i \in DOMAIN sockets |-> sockets[i]]
        BY <1>1, <3>2
      <4>2. c = sockets
        BY <1>1, <4>1
      <4> HIDE DEF c
      <4> QED
        BY <1>1, <4>2
    <3> QED
      BY <3>1, <3>2
  <2>3. ASSUME NEW n \in 1 .. Len(sockets)
        PROVE  c[n] # "open" /\ (n # udp.socket => c[n] = sockets[n])
    <3>1. n \in DOMAIN sockets
      BY <1>1
    <3>2. c[n] = IF n = udp.socket THEN "closed" ELSE sockets[n]
      BY <3>1
    <3> HIDE DEF c
    <3> QED
      BY <1>2, <3>2
  <2> HIDE DEF c
  <2> QED
    BY <2>1, <2>2, <2>3 DEF c
<1> QED
  BY <1>3, <1>4

LEMMA SocketsStep ==
  ASSUME SocketsInv, SocketsNext
  PROVE  SocketsInv'
<1>0. /\ udp \in [socket : Nat, key : BOOLEAN, stops : Nat, closing : Nat]
      /\ sockets \in Seq({"opening", "open", "closed"}) /\ Len(sockets) \in Nat /\ keeping \subseteq Nat
      /\ \A n \in 1 .. Len(sockets) : sockets[n] = "open" => n = udp.socket /\ n = udp.stops /\ n \in keeping
  BY DEF SocketsInv
<1>1. CASE Dials
  <2>1. sockets' = Append(sockets, "opening") /\ UNCHANGED <<udp, keeping>>
    BY <1>1 DEF Dials
  <2>2. /\ sockets' \in Seq({"opening", "open", "closed"}) /\ Len(sockets') = Len(sockets) + 1
        /\ \A n \in 1 .. Len(sockets') : sockets'[n] = IF n <= Len(sockets) THEN sockets[n] ELSE "opening"
    BY <1>0, <2>1
  <2> QED
    BY <1>0, <2>1, <2>2 DEF SocketsInv
<1>2. CASE SetSecretKey
  BY <1>0, <1>2 DEF SetSecretKey, SocketsInv
<1>3. CASE Closes
  <2>1. sockets' = Closed(sockets, udp.socket) /\ UNCHANGED keeping
        /\ udp' = [udp EXCEPT !.stops = NoSocketYet, !.closing = @ + udp.stops]
    BY <1>3 DEF Closes
  <2>2. udp' \in [socket : Nat, key : BOOLEAN, stops : Nat, closing : Nat]
    <3>1. udp.closing + udp.stops \in Nat /\ NoSocketYet \in Nat
      BY <1>0 DEF NoSocketYet
    <3>2. udp' = [udp EXCEPT !.stops = NoSocketYet, !.closing = udp.closing + udp.stops]
      BY <1>0, <2>1
    <3> QED
      BY <1>0, <3>1, <3>2
  <2> QED
    BY <1>0, <2>1, <2>2, ClosedSocket DEF SocketsInv
<1>4. CASE CloseReturns
  BY <1>0, <1>4 DEF CloseReturns, SocketsInv, NoSocketYet
<1>5. ASSUME NEW n \in 1 .. Len(sockets), Undiscovered(n)
      PROVE  SocketsInv'
  BY <1>0, <1>5 DEF Undiscovered, SocketsInv
<1>6. ASSUME NEW n \in 1 .. Len(sockets), Discovered(n)
      PROVE  SocketsInv'
  <2> DEFINE c == Closed(sockets, udp.socket)
  <2>1. /\ c \in Seq({"opening", "open", "closed"}) /\ Len(c) = Len(sockets)
        /\ \A k \in 1 .. Len(sockets) : c[k] # "open"
    BY ClosedSocket
  <2>2. /\ sockets' = [c EXCEPT ![n] = "open"] /\ keeping' = keeping \cup {n}
        /\ udp' = [udp EXCEPT !.socket = n, !.stops = n]
    BY <1>6 DEF Discovered
  <2> HIDE DEF c
  <2>3. /\ sockets' \in Seq({"opening", "open", "closed"}) /\ Len(sockets') = Len(sockets)
        /\ \A k \in 1 .. Len(sockets) : sockets'[k] = "open" => k = n
    BY <1>6, <2>1, <2>2
  <2>4. udp' \in [socket : Nat, key : BOOLEAN, stops : Nat, closing : Nat] /\ udp'.socket = n /\ udp'.stops = n
    <3>1. n \in Nat
      BY <1>0
    <3> QED
      BY <1>0, <2>2, <3>1
  <2> QED
    BY <1>0, <1>6, <2>2, <2>3, <2>4 DEF SocketsInv
<1>7. ASSUME NEW n \in 1 .. Len(sockets), KeepaliveEnds(n)
      PROVE  SocketsInv'
  BY <1>0, <1>7 DEF KeepaliveEnds, SocketsInv
<1> QED
  BY <1>1, <1>2, <1>3, <1>4, <1>5, <1>6, <1>7 DEF SocketsNext

THEOREM SocketsInvHolds == Spec => []SocketsInv
<1>1. Init => SocketsInv
  BY DEF Init, SocketsInit, SocketsInv, NoSocketYet
<1>2. SocketsInv /\ [Next]_all => SocketsInv'
  <2> SUFFICES ASSUME SocketsInv, [Next]_all PROVE SocketsInv'
    OBVIOUS
  <2>1. SocketsNext \/ UNCHANGED <<udp, sockets, keeping>>
    BY DEF Next, OfConn, OfReceiver, besideConn, besideReceiver, all, socketsVars, LogNext, StepStarts, StepEnds,
           ClosedThrough, GapFrom, BesideLog
  <2>2. CASE UNCHANGED <<udp, sockets, keeping>>
    BY <2>2 DEF SocketsInv
  <2> QED
    BY <2>1, <2>2, SocketsStep
<1> QED
  BY <1>1, <1>2, PTL DEF Spec

(* One socket is open, the one the receiver reads, and its keepalive runs  *)
(* (udp.go, Open), however opens, answers, keepalives and closes fall.     *)
THEOREM OneSocketOpen == Spec => []OneSocket
<1>1. SocketsInv => OneSocket
  BY DEF SocketsInv, OneSocket
<1> QED
  BY <1>1, SocketsInvHolds, PTL
=============================================================================
