------------------------------- MODULE MCVoice -------------------------------
(***************************************************************************)
(* TLC instance of a recorder's voice connection, of its receiver, and of  *)
(* the sockets and the log under both.  They share no state but what       *)
(* VoiceLink says of the connection, so one run checks whichever WHICH     *)
(* names.                                                                  *)
(***************************************************************************)
EXTENDS VoiceConn, Receiver, VoiceSockets, TLC

VARIABLE which

(* At most this many of each kind and none of the others.  One step may    *)
(* come through a window: an answer of the network, or a stop, between two *)
(* steps of the recorder's that wait on nothing.                           *)
ConnAtMost(f) ==
  [k \in ConnDisturbances |-> IF k \in DOMAIN f THEN f[k] ELSE IF k = "window" THEN 1 ELSE 0]
ConnSets ==
  {ConnAtMost(f) : f \in
    {[move |-> 2, drop |-> 1], [move |-> 1, mute |-> 1], [move |-> 1, stall |-> 1],
     [stale |-> 1, drop |-> 1, outage |-> 1], [stale |-> 1, stop |-> 1, kick |-> 1],
     [move |-> 1, silence |-> 1, stop |-> 1], [delete |-> 1, drop |-> 1, stop |-> 1],
     [move |-> 1, stale |-> 1, drop |-> 1], [drop |-> 2, stale |-> 1],
     [outage |-> 1, move |-> 1, stop |-> 1], [kick |-> 1, move |-> 1, drop |-> 1], [silence |-> 1, stall |-> 1]}}

(* The runs of what the code's comments say of it, and the code breaks.    *)
SecondRejoin == {ConnAtMost([drop |-> 2, move |-> 1, mute |-> 1, window |-> 3])}
LateJoin == {ConnAtMost([drop |-> 1, stop |-> 1])}
MovedAgain == {ConnAtMost([move |-> 2, stall |-> 1, mute |-> 1])}
RcvAtMost(f) == [k \in Troubles |-> IF k \in DOMAIN f THEN f[k] ELSE 0]
RcvSets ==
  {RcvAtMost(f) : f \in
    {[loss |-> 1, lookup |-> 1], [loss |-> 1, deafen |-> 1], [stall |-> 1, quiet |-> 1, slow |-> 1],
     [break |-> 1, frame |-> 3], [frame |-> 4], [quiet |-> 1, deafen |-> 1],
     [break |-> 1, loss |-> 1, frame |-> 2], [quiet |-> 1, loss |-> 1, lookup |-> 1]}}

all == <<which, connVars, rcvVars, socketsVars>>
AtRest(f, S) == f = CHOOSE g \in S : TRUE
Init ==
  /\ which \in {"conn", "receiver", "sockets", "log"}
  /\ ConnInit /\ (which # "conn" => AtRest(connLeft, ConnSets))
  /\ RcvInit /\ (which # "receiver" => AtRest(rcvLeft, RcvSets))
  /\ SocketsInit
besideConn == <<which, rcvVars, socketsVars>>
besideReceiver == <<which, connVars, socketsVars>>
besideSockets == <<which, connVars, rcvVars>>
OfConn(A) == which = "conn" /\ A /\ UNCHANGED besideConn
OfReceiver(A) == which = "receiver" /\ A /\ UNCHANGED besideReceiver
Next ==
  \/ OfConn(ConnNext) \/ OfReceiver(RcvNext)
  \/ which = "sockets" /\ SocketsNext /\ UNCHANGED besideSockets
  \/ which = "log" /\ LogNext /\ UNCHANGED besideSockets

(* Goroutines are scheduled, Discord and the network answer, an outage     *)
(* ends, and time passes.  Members need not speak, nor moderators undeafen *)
(* the recorder.                                                           *)
Spec ==
  /\ Init /\ [][Next]_all
  /\ WF_all(OfConn(Deliver)) /\ WF_all(OfConn(DialStep)) /\ WF_all(OfConn(Returns /\ SessionTurns))
  /\ \A h \in Handlers : WF_all(OfConn(HandlerStep(h))) /\ WF_all(OfConn(Drops(h) /\ UNCHANGED connLeft))
  /\ \A n \in Servers : WF_all(OfConn(Redeliver(n)))
  /\ WF_all(OfConn(CloseLeaves))
  /\ WF_all(OfReceiver(ReceiverStep \/ ReadsAny)) /\ WF_all(OfReceiver(ComesBack \/ LooksUp \/ GetsReady \/ TimePasses))

----------------------------------------------------------------------------
(* Properties of the connection.                                           *)

(* Each part keeps to its types.                                           *)
TypesOK == ConnTypeOK /\ RcvTypeOK /\ SocketsTypeOK

(* However many closes, moves and silences come at once, the library waits *)
(* for the connection of one rejoin (gateway.go, handCloseToRejoin), unless*)
(* a close was handed to none as another's rejoin was about to be noted.   *)
Rejoining(h) ==
  handlers[h].at \in RejoinSteps /\ ~handlers[h].cancelled
OneWaits == Cardinality({h \in Handlers : Rejoining(h)}) <= 1
OneRejoin == past.crossed \/ OneWaits

(* "A second rejoin would take over disgo's wait for a connection, and the *)
(* first could then never end": so at most one runs (gateway.go, the       *)
(* comment of handCloseToRejoin, which is to see to it).                   *)
NeverTwoRejoins == OneWaits

(* Once the recorder closes the connection, its one leave goes out and,    *)
(* once each, the updates that had passed the check before: a later one    *)
(* could take it out of, or into, another recording's channel (gateway.go, *)
(* updateVoiceState, leave).                                               *)
QuietAfterClose ==
  \A i \in DOMAIN past.sent :
    /\ past.sent[i] = [what |-> "leave", by |-> Nobody] \/ past.sent[i].by \in past.midway
    /\ \A j \in 1 .. i - 1 : past.sent[j].by # past.sent[i].by

(* "Once the recorder closes the connection, only the leave of that close  *)
(* goes out" (gateway.go, the comment of updateVoiceState).                *)
OnlyTheLeave == \A i \in DOMAIN past.sent : i = 1 /\ past.sent[i].what = "leave"

(* The gateway counts as "connected in the call, at the voice server       *)
(* Discord had named last as it connected" (gateway.go, renewableGateway). *)
ConnectedWhereNamed ==
  [][~gate.connected /\ gate'.connected => sock.at = conn.last]_connVars

(* The gateway answers its receiver as a voice link promises.              *)
link == INSTANCE VoiceLink WITH connected <- gate.connected, losses <- gate.losses, cause <- gate.cause,
                                Causes <- LossCauses, Unknown <- NotNamed
ImplementsLink == link!LinkSpec

(* As long as no step has come through a window, the recorder comes back   *)
(* into a call it was not taken out of, and a close's handler ends, its    *)
(* rejoin with it (gateway.go, rejoin).                                    *)
InTime == connLeft["window"] > 0
BackInCall ==
  /\ []<>(gate.connected \/ discord.out \/ conn.closed \/ ~InTime)
  /\ \A h \in Handlers : []<>(handlers[h].at = "idle" \/ ~InTime)

----------------------------------------------------------------------------
(* Properties of the receiver and of what lies under it.                   *)

(* A stream's frames are handed over in the order they arrived, those held *)
(* for their speaker's name too (receiver.go, receive, release).           *)
FramesInOrder ==
  \A s \in SSRCs : LET q == rcv.heard[s] \o rcv.held[s] IN \A i \in 1 .. Len(q) - 1 : q[i] < q[i + 1]

(* One socket is open, the one the receiver reads, and its keepalive runs  *)
(* (udp.go, Open).                                                         *)
OneSocket == \A n \in 1 .. Len(sockets) : sockets[n] = "open" => n = udp.socket /\ n \in keeping

(* A gap's report lists every step still under way, the last that ended,   *)
(* and counts the rest (recovery.go, keepLocked, from, report).            *)
ReportsSteps ==
  /\ {n \in taken.open : n >= taken.from} \subseteq {s.n : s \in Range(Report)}
  /\ Len(Report) + earlier = taken.all - taken.from + 1
  /\ Len(Report) > StepsKept => ~Ended(Report[1])
CallsHold ==
  TypesOK /\ OneRejoin /\ QuietAfterClose /\ FramesInOrder /\ OneSocket /\ ReportsSteps

(* Every loss is told of, one that is over already too, every gap but a    *)
(* deafen's or a decrypt run's ends, and a server silent on a socket that  *)
(* has reported is given up (receiver.go, step, watchGap, watchMedia).     *)
ReceiverHeeds ==
  /\ []<>(losses = rcv.told \/ cause = Unknown)
  /\ []<>(~rcv.inGap \/ wire.deaf \/ rcv.decryptGap)
  /\ wire.silent /\ rcv.armed /\ rcv.socket = wire.socket
       ~> ~wire.silent \/ ~connected \/ wire.deaf \/ rcv.decryptGap

(* Every one of these comes to its end.                                    *)
CallsSettle == BackInCall /\ ReceiverHeeds
=============================================================================
