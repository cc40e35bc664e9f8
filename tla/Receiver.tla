------------------------------- MODULE Receiver -------------------------------
(***************************************************************************)
(* The receiver of a recorder's call (voice/receiver.go): one goroutine    *)
(* that takes a step again and again.  Each looks at DAVE, at the          *)
(* connection and at the recorder's deafen, tells its listener of the gap  *)
(* that starts or ends, and reads one datagram.                            *)
(*                                                                         *)
(* The connection is as VoiceLink describes it, and loses and finds the    *)
(* call on its own.  A socket, a stretch of time and a DAVE setup are what *)
(* the receiver can tell of them: another socket, long enough, stalled.    *)
(***************************************************************************)
EXTENDS VoiceLink, Integers, SequencesExt

CONSTANTS
  SSRCs,            \* the speakers' streams
  HeldPerSSRC,      \* frames held for one whose speaker is not known
  DecryptRunLimit,  \* failures to decrypt in a run that start a gap
  FailureBurst,     \* one speaker's failures in a row Sentry hears of
  RcvAllowances     \* frames to come, and how often each kind of trouble may happen: bounds

Troubles == {"frame", "loss", "lookup", "deafen", "stall", "quiet", "break", "slow"}
ASSUME ReceiverAssumption ==
  /\ HeldPerSSRC \in Nat \ {0} /\ DecryptRunLimit \in Nat \ {0} /\ FailureBurst \in Nat \ {0}
  /\ RcvAllowances \subseteq [Troubles -> Nat] /\ {"dave", "silent"} \subseteq Causes

VARIABLES
  rcv,      \* the receiver's own fields, where its step is, and the last two it handed over
  wire,     \* socket, dave, deaf, silent, arms, broken, mapped, spoken: what reaches it
  late,     \* the clocks that have run out: of the setup, of the media watch
  rcvLeft   \* trouble still to come, by kind

rcvVars == <<linkVars, rcv, wire, late, rcvLeft>>
Trouble(k) == rcvLeft[k] > 0 /\ rcvLeft' = [rcvLeft EXCEPT ![k] = @ - 1]
NoFailure == [frames |-> 0, reported |-> FALSE]

RcvTypeOK ==
  /\ rcv.at \in {"look", "tell", "act", "fresh", "opening"} /\ rcv.told \in 0 .. losses /\ rcv.socket <= wire.socket
  /\ rcv.decryptGap => rcv.inGap
  /\ rcv.stalled => rcv.unheard
  /\ \A s \in SSRCs : Len(rcv.held[s]) <= HeldPerSSRC /\ rcv.failing[s].frames <= FailureBurst
  /\ wire.dave \in {"ready", "setup", "stalled"} /\ late \subseteq {"setup", "media"}
  /\ rcvLeft \in [Troubles -> Nat]

(* newReceiver, open: the join has connected, and DAVE sets up.            *)
RcvInit ==
  /\ LinkInit
  /\ rcv = [at |-> "look", holding |-> FALSE, inGap |-> FALSE, decryptGap |-> FALSE, told |-> 0,
            unheard |-> FALSE, stalled |-> FALSE, run |-> 0, socket |-> 0, armed |-> FALSE, fired |-> FALSE,
            failing |-> [s \in SSRCs |-> NoFailure], held |-> [s \in SSRCs |-> <<>>], heard |-> [s \in SSRCs |-> <<-1, 0>>]]
  /\ wire = [socket |-> 1, dave |-> "setup", deaf |-> FALSE, silent |-> FALSE, broken |-> {},
             mapped |-> {}, spoken |-> [s \in SSRCs |-> 0]]
  /\ late = {} /\ rcvLeft \in RcvAllowances

----------------------------------------------------------------------------
(* The gap the listener is told of.                                        *)

(* One at a time: what comes within it is part of it.                      *)
GapStarted(r) == IF r.inGap THEN r ELSE [r EXCEPT !.inGap = TRUE, !.run = 0]
(* endGap.                                                                 *)
GapEnded(r) == [r EXCEPT !.inGap = FALSE, !.decryptGap = FALSE]

(* A count is told apart up to its limit.                                  *)
AtLimit(n, limit) == IF n > limit THEN limit ELSE n

(* Nobody's frames decrypt, a datagram's or a speaker's: at the limit a gap*)
(* starts and DAVE starts over on a fresh connection.                      *)
DecryptFailed(r) ==
  IF r.inGap \/ r.run + 1 < DecryptRunLimit THEN [r EXCEPT !.run = AtLimit(@ + 1, DecryptRunLimit)]
  ELSE [GapStarted(r) EXCEPT !.decryptGap = TRUE, !.failing = [s \in SSRCs |-> NoFailure], !.at = "fresh"]
SpeakerFailed(r, s) ==
  IF r.decryptGap THEN r ELSE [r EXCEPT !.failing[s].frames = AtLimit(@ + 1, FailureBurst)]

(* One speaker's failures are reported once another's frame decrypts.      *)
Reported(f) ==
  [s \in SSRCs |-> IF f[s].frames >= FailureBurst THEN [f[s] EXCEPT !.reported = TRUE] ELSE f[s]]

(* deliver: a frame of s, as its speaker.                                  *)
Delivered(r, s, n) ==
  IF s \in wire.broken THEN DecryptFailed(SpeakerFailed(r, s))
  ELSE LET g == IF r.decryptGap THEN GapEnded(r) ELSE r IN
    [g EXCEPT !.run = 0, !.failing = Reported([@ EXCEPT ![s] = NoFailure]), !.heard[s] = <<@[2], n>>]

(* releaseSSRC: the frames held of s, in the order they arrived.           *)
(* Wrong on purpose, to test CallsHold: the last comes first.              *)
ReleasedLastFirst(r, s) ==
  FoldLeft(LAMBDA g, n : Delivered(g, s, n), [r EXCEPT !.held[s] = <<>>], Reverse(r.held[s]))
Released(r, s) ==
  FoldLeft(LAMBDA g, n : Delivered(g, s, n), [r EXCEPT !.held[s] = <<>>], r.held[s])
Release(r) == FoldSet(LAMBDA s, g : Released(g, s), r, wire.mapped)

(* receive: one whose speaker is not known is held, the oldest going first.*)
(* Wrong on purpose, to test CallsHold: none goes.                         *)
HeldAll(h, n) == Append(h, n)
Held(h, n) == LET all == Append(h, n) IN IF Len(all) > HeldPerSSRC THEN Tail(all) ELSE all
Received(r, s, n) ==
  IF s \in wire.mapped THEN Delivered(Released(r, s), s, n) ELSE [r EXCEPT !.held[s] = Held(@, n)]

----------------------------------------------------------------------------
(* The receiver's step.                                                    *)

Look == rcv.at = "look" /\ rcv' = [rcv EXCEPT !.at = "tell", !.holding = wire.dave # "ready"]
        /\ UNCHANGED <<linkVars, wire, late, rcvLeft>>

(* A loss the receiver has not told of can be over already.                *)
(* Wrong on purpose, to test CallsSettle: only one that lasts is told.     *)
UntoldLasting(r) == ~connected /\ losses # r.told /\ cause # Unknown
Untold(r) == losses # r.told /\ cause # Unknown
Tell ==
  LET lost == IF Untold(rcv) THEN GapStarted([rcv EXCEPT !.told = losses]) ELSE rcv
      deaf == IF wire.deaf THEN GapStarted(lost) ELSE lost
      hearing == connected /\ ~rcv.holding /\ ~wire.deaf
  IN /\ rcv.at = "tell"
     /\ rcv' = [IF hearing /\ deaf.inGap /\ ~deaf.decryptGap THEN GapEnded(deaf) ELSE deaf
                  EXCEPT !.at = "act"]
     /\ UNCHANGED <<linkVars, wire, late, rcvLeft>>

(* waitOrStartOver: DAVE holds the frames, past a while for good.          *)
Holds ==
  /\ rcv.at = "act" /\ rcv.holding
  /\ rcv' = IF "setup" \notin late THEN [rcv EXCEPT !.unheard = TRUE, !.at = "look"]
            ELSE [IF rcv.stalled THEN rcv ELSE GapStarted(rcv) EXCEPT !.stalled = TRUE, !.at = "fresh"]
  /\ UNCHANGED <<linkVars, wire, late, rcvLeft>>

(* reconnect: the fresh connection is a loss the receiver learns of as of  *)
(* any other.  It opens, or not in time, and the setup starts over.        *)
Fresh ==
  /\ rcv.at = "fresh" /\ rcv' = [rcv EXCEPT !.at = "opening"]
  /\ IF connected THEN losses' = losses + 1 /\ cause' = "dave" /\ connected' = FALSE
     ELSE UNCHANGED linkVars
  /\ UNCHANGED <<wire, late, rcvLeft>>
Opened ==
  /\ rcv.at = "opening" /\ ((connected /\ UNCHANGED rcvLeft) \/ Trouble("slow"))
  /\ rcv' = [rcv EXCEPT !.at = "look"] /\ late' = late \ {"setup"}
  /\ UNCHANGED <<linkVars, wire>>

(* endStall, then the frames whose speaker is known by now, then one       *)
(* datagram of the socket it reads, which starts the watches over on       *)
(* another socket.                                                         *)
OnSocket(r) ==
  IF wire.socket = r.socket THEN r
  ELSE [r EXCEPT !.socket = wire.socket, !.armed = FALSE, !.fired = FALSE, !.run = 0]
Ready == OnSocket(Release([rcv EXCEPT !.unheard = FALSE, !.stalled = FALSE, !.at = "look"]))
Passes == rcv.at = "act" /\ ~rcv.holding
Flows == Passes /\ connected /\ ~wire.silent

Reads(s) ==
  /\ Flows /\ ~wire.deaf /\ Trouble("frame") /\ wire' = [wire EXCEPT !.spoken[s] = @ + 1]
  /\ rcv' = Received(Ready, s, wire'.spoken[s])
  /\ late' = {} /\ UNCHANGED linkVars
ReadsReport ==
  /\ Flows /\ rcv' = [Ready EXCEPT !.armed = TRUE] /\ late' = {}
  /\ UNCHANGED <<linkVars, wire, rcvLeft>>
ReadsGarbled == Flows /\ wire.broken = SSRCs /\ rcv' = DecryptFailed(Ready) /\ late' = {}
                /\ UNCHANGED <<linkVars, wire, rcvLeft>>

(* watchMedia: a socket its watch has seen a report of, and then nothing   *)
(* for long, asks once for a drop, unless a gap runs.                      *)
(* The clock starts over once DAVE stops holding frames.                   *)
Quiet(r) == r.armed /\ ~r.fired /\ ~r.inGap /\ "media" \in late /\ ~rcv.unheard
ReadsNothing ==
  /\ Passes /\ UNCHANGED <<wire, rcvLeft>>
  /\ IF Quiet(Ready)
     THEN /\ rcv' = [Ready EXCEPT !.fired = TRUE] /\ UNCHANGED late
          /\ IF connected THEN losses' = losses + 1 /\ cause' = "silent" /\ connected' = FALSE
             ELSE UNCHANGED linkVars
     ELSE rcv' = Ready /\ UNCHANGED linkVars /\ late' = IF rcv.unheard THEN {} ELSE late

----------------------------------------------------------------------------
(* The connection, Discord and time.                                       *)

Loses ==
  /\ connected /\ Lose /\ UNCHANGED <<rcv, wire, late>>
  /\ \/ Trouble("loss") /\ cause' = "closed"
     \/ Trouble("lookup") /\ cause' = Unknown
LooksUp == NameCause /\ cause' = "closed" /\ UNCHANGED <<rcv, wire, late, rcvLeft>>

(* It comes back on another socket, and DAVE starts over.                  *)
ComesBack ==
  /\ ~connected /\ Connect /\ UNCHANGED <<rcv, late, rcvLeft>>
  /\ wire' = [wire EXCEPT !.socket = @ + 1, !.dave = "setup", !.silent = FALSE, !.broken = {}]
SetsUp == wire.dave = "setup" /\ wire' = [wire EXCEPT !.dave = "ready"] /\ UNCHANGED rcvLeft
Stalls == wire.dave = "setup" /\ Trouble("stall") /\ wire' = [wire EXCEPT !.dave = "stalled"]
Deafens == ~wire.deaf /\ Trouble("deafen") /\ wire' = [wire EXCEPT !.deaf = TRUE]
Undeafens == wire.deaf /\ wire' = [wire EXCEPT !.deaf = FALSE] /\ UNCHANGED rcvLeft
Silences == connected /\ ~wire.silent /\ Trouble("quiet") /\ wire' = [wire EXCEPT !.silent = TRUE]
Breaks == \E b \in (SUBSET SSRCs) \ {{}} : Trouble("break") /\ wire' = [wire EXCEPT !.broken = b]
Maps(s) == s \notin wire.mapped /\ rcvLeft["frame"] > 0 /\ wire' = [wire EXCEPT !.mapped = @ \cup {s}] /\ UNCHANGED rcvLeft
WireTurns == (Stalls \/ Deafens \/ Undeafens \/ Silences \/ Breaks \/ \E s \in SSRCs : Maps(s))
             /\ UNCHANGED <<linkVars, rcv, late>>
GetsReady == SetsUp /\ UNCHANGED <<linkVars, rcv, late>>

(* A setup that stalls, or has no connection, has held frames for long, or *)
(* nothing has come for long: a server that lives sends a report every     *)
(* second.                                                                 *)
TimePasses ==
  /\ \/ rcv.unheard /\ (wire.dave = "stalled" \/ ~connected) /\ "setup" \notin late /\ late' = late \cup {"setup"}
     \/ (wire.silent \/ ~connected \/ rcv.unheard) /\ "media" \notin late /\ late' = late \cup {"media"}
  /\ UNCHANGED <<linkVars, rcv, wire, rcvLeft>>

ReceiverStep == Look \/ Tell \/ Holds \/ Fresh \/ Opened \/ ReadsNothing
ReadsAny == ReadsReport \/ ReadsGarbled \/ \E s \in SSRCs : Reads(s)
RcvNext == ReceiverStep \/ ReadsAny \/ Loses \/ LooksUp \/ ComesBack \/ WireTurns \/ GetsReady \/ TimePasses
=============================================================================
