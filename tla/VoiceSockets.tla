---------------------------- MODULE VoiceSockets ----------------------------
(***************************************************************************)
(* What lies under a recorder's voice connection: the UDP sockets the      *)
(* library opens and closes on one udpConn (voice/udp.go), and the log of  *)
(* the recovery steps its connection takes (voice/recovery.go), kept from  *)
(* the start of the gap the receiver last told of.                         *)
(***************************************************************************)
EXTENDS Integers, FiniteSets, SequencesExt

CONSTANTS
  MaxSockets,  \* bound on the sockets opened
  MaxSteps,    \* bound on the recovery steps taken
  StepsKept    \* steps a gap's report lists

ASSUME SocketsAssumption == MaxSockets \in Nat /\ MaxSteps \in Nat /\ StepsKept \in Nat \ {0}

VARIABLES
  udp,       \* the socket open now, its number, whether it has a key, and who opens or closes
  sockets,   \* every socket's state: "opening", "open" or "closed"
  keeping,   \* the sockets whose keepalive runs
  steps,     \* the log: each step's number, the gateway it dialed through, its outcome and close
  earlier,   \* the steps of the gap that gave way
  taken      \* the steps taken, those under way, the first of the gap's, the last to give way

socketsVars == <<udp, sockets, keeping, steps, earlier, taken>>
NoSocketYet == 0
Outcomes == {"failed", "succeeded", "refused"}

SocketsTypeOK ==
  /\ udp.socket \in 0 .. MaxSockets /\ udp.stops \in 0 .. MaxSockets /\ udp.closing \in 0 .. MaxSockets
  /\ sockets \in Seq({"opening", "open", "closed"}) /\ keeping \subseteq 1 .. Len(sockets)
  /\ Len(steps) <= MaxSteps /\ earlier \in 0 .. MaxSteps

SocketsInit ==
  /\ udp = [socket |-> NoSocketYet, key |-> FALSE, stops |-> NoSocketYet, closing |-> NoSocketYet]
  /\ sockets = <<>> /\ keeping = {} /\ steps = <<>> /\ earlier = 0 /\ taken = [all |-> 0, open |-> {}, from |-> 1, gone |-> 0]

----------------------------------------------------------------------------
(* The UDP connection.                                                     *)

BesideSockets == <<steps, earlier, taken>>

(* Open dials the voice server and asks it for the socket's own address.   *)
Dials ==
  /\ Len(sockets) < MaxSockets /\ sockets' = Append(sockets, "opening")
  /\ UNCHANGED <<udp, keeping>> /\ UNCHANGED BesideSockets
Undiscovered(n) ==
  /\ sockets[n] = "opening" /\ sockets' = [sockets EXCEPT ![n] = "closed"]
  /\ UNCHANGED <<udp, keeping>> /\ UNCHANGED BesideSockets

(* The answer puts the socket in the last one's place, whose keepalive is  *)
(* told to stop.                                                           *)
(* Wrong on purpose, to test CallsHold: the last one stays open.           *)
Replaced(socks, old) == socks
Closed(socks, old) == IF old = NoSocketYet THEN socks ELSE [socks EXCEPT ![old] = "closed"]
Discovered(n) ==
  /\ sockets[n] = "opening" /\ sockets' = [Closed(sockets, udp.socket) EXCEPT ![n] = "open"]
  /\ keeping' = keeping \cup {n} /\ udp' = [udp EXCEPT !.socket = n, !.stops = n]
  /\ UNCHANGED BesideSockets
SetSecretKey == ~udp.key /\ udp' = [udp EXCEPT !.key = TRUE] /\ UNCHANGED <<sockets, keeping>> /\ UNCHANGED BesideSockets

(* keepalive: it returns once it is told to stop, at its next look.        *)
KeepaliveEnds(n) ==
  /\ n \in keeping /\ udp.stops # n /\ keeping' = keeping \ {n}
  /\ UNCHANGED <<udp, sockets>> /\ UNCHANGED BesideSockets

(* Close closes the socket and waits for its keepalive.                    *)
Closes ==
  /\ udp.closing = NoSocketYet /\ sockets' = Closed(sockets, udp.socket)
  /\ udp' = [udp EXCEPT !.stops = NoSocketYet, !.closing = @ + udp.stops]
  /\ UNCHANGED keeping /\ UNCHANGED BesideSockets
CloseReturns ==
  /\ udp.closing # NoSocketYet /\ udp.closing \notin keeping /\ udp' = [udp EXCEPT !.closing = NoSocketYet]
  /\ UNCHANGED <<sockets, keeping>> /\ UNCHANGED BesideSockets

----------------------------------------------------------------------------
(* The recovery log.                                                       *)

BesideLog == <<udp, sockets, keeping>>
Ended(s) == s.outcome # "under way"

(* keepLocked: past what a report lists, the oldest that ended gives way.  *)
(* Wrong on purpose, to test CallsHold: the oldest, ended or not.          *)
OldestOf(log) == IF log = <<>> THEN 0 ELSE 1
GivesWay(log) == SelectInSeq(log, Ended)

LogKept(log) ==
  LET after[k \in 0 .. Len(log)] ==
        IF k = 0 THEN log
        ELSE LET l == after[k - 1] IN
          IF Len(l) <= StepsKept \/ GivesWay(l) = 0 THEN l ELSE RemoveAt(l, GivesWay(l))
  IN after[Len(log)]
Keeps(log, open, all) ==
  LET gone == {s.n : s \in Range(log)} \ {s.n : s \in Range(LogKept(log))} IN
    /\ steps' = LogKept(log) /\ earlier' = earlier + Cardinality(gone)
    /\ taken' = [taken EXCEPT !.all = all, !.open = open, !.gone = Max(gone \cup {@})]

(* start, dial: a step starts, a dial through a gateway.                   *)
StepStarts(via) ==
  LET n == taken.all + 1 IN
    /\ n <= MaxSteps /\ UNCHANGED BesideLog
    /\ Keeps(Append(steps, [n |-> n, via |-> via, outcome |-> "under way", close |-> FALSE]), taken.open \cup {n}, n)

(* end: the step keeps the code of the close that ended it, unless it has  *)
(* succeeded.  One the log has forgotten ends as well.                     *)
StepEnds(n) ==
  /\ n \in taken.open /\ UNCHANGED BesideLog
  /\ \E o \in Outcomes, closed \in BOOLEAN : Keeps(
       [i \in DOMAIN steps |-> IF steps[i].n # n THEN steps[i]
          ELSE [steps[i] EXCEPT !.outcome = o, !.close = o # "succeeded" /\ (@ \/ closed)]], taken.open \ {n}, taken.all)

(* closedThrough: a close tells of the last dial through its gateway.      *)
ClosedThrough(via) ==
  LET i == SelectLastInSeq(steps, LAMBDA s : s.via = via) IN
    /\ i # 0 /\ steps[i].outcome # "succeeded" /\ ~steps[i].close
    /\ steps' = [steps EXCEPT ![i].close = TRUE]
    /\ UNCHANGED <<earlier, taken>> /\ UNCHANGED BesideLog

(* from: a gap starts now, or started before the latest steps, none of     *)
(* which has given way yet.                                                *)
GapFrom(n) ==
  /\ n > taken.from /\ n > taken.gone /\ taken' = [taken EXCEPT !.from = n]
  /\ steps' = SelectSeq(steps, LAMBDA s : s.n >= n) /\ earlier' = 0
  /\ UNCHANGED BesideLog

(* report: the steps that ended, then those under way.                     *)
Report == SelectSeq(steps, Ended) \o SelectSeq(steps, LAMBDA s : ~Ended(s))

SocketsNext ==
  \/ Dials \/ SetSecretKey \/ Closes \/ CloseReturns
  \/ \E n \in 1 .. Len(sockets) : Undiscovered(n) \/ Discovered(n) \/ KeepaliveEnds(n)
LogNext ==
  \/ \E via \in {1, 2} : StepStarts(via) \/ ClosedThrough(via)
  \/ \E n \in taken.open : StepEnds(n)
  \/ \E n \in 1 .. taken.all + 1 : GapFrom(n)
=============================================================================
