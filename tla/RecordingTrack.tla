--------------------------- MODULE RecordingTrack ---------------------------
(***************************************************************************)
(* One speaker's track (commands/recording_tracks.go place, end and close, *)
(* recording_ogg.go oggWriter): packets that the network delays, reorders, *)
(* repeats or loses, placed by RTP timestamps that wrap or by the clock,   *)
(* gaps filled with silence frames, and pages of whole packets.            *)
(*                                                                         *)
(* Times and lengths are in one unit, the shortest packet; the code counts *)
(* 48 kHz samples, a silence frame being 960.  A speaker speaks one packet *)
(* at a time, joins again, with a new SSRC, only once the network has lost *)
(* or delivered what they sent, and their RTP clock may stand still while  *)
(* they are silent.                                                        *)
(***************************************************************************)
EXTENDS Integers, FiniteSets

CONSTANTS
  Modulus,   \* the RTP timestamps: 2^32 in the code
  Bases,     \* where a stream's RTP clock may start
  Silence,   \* the length of a silence frame
  MaxDrift,  \* maxRTPDrift
  Lengths,   \* packet lengths
  MaxDelay,  \* the network's longest delay
  MaxClock, MaxSent  \* bounds: the recording's length, packets sent

ASSUME TrackAssumption ==
  /\ Silence \in Nat \ {0} /\ MaxDrift \in Nat /\ MaxDelay \in Nat /\ MaxClock \in Nat
  /\ MaxSent \in Nat /\ Lengths \subseteq Nat \ {0} /\ IsFiniteSet(Lengths)
  /\ Modulus \in Nat /\ Modulus > 2 * MaxClock  \* no recording lasts half the RTP space
  /\ Bases \subseteq 0 .. (Modulus - 1)

VARIABLES
  clock,   \* since the recording's start
  speaker, \* their stream: SSRC, RTP base, how far its clock stood still, and
           \* when their last packet ended
  sent,    \* packets sent
  net,     \* packets on their way
  trk,     \* the track and its Ogg stream
  placed   \* own record: the last packet kept

trackVars == <<clock, speaker, sent, net, trk, placed>>

NewTrack == [started |-> FALSE, ssrc |-> 0, nextTS |-> 0, granule |-> 0, pageGranule |-> 0,
             pending |-> FALSE, closed |-> FALSE]
NonePlaced == [n |-> 0, at |-> 0, spoken |-> 0]

TrackTypeOK ==
  /\ clock \in 0 .. MaxClock /\ sent \in 0 .. MaxSent
  /\ trk.nextTS \in 0 .. (Modulus - 1) /\ trk.granule \in Nat /\ trk.pageGranule \in Nat
  /\ \A p \in net : p.ts \in 0 .. (Modulus - 1) /\ p.len \in Lengths /\ p.n \in 1 .. sent

TrackInit ==
  /\ clock = 0 /\ sent = 0 /\ net = {} /\ trk = NewTrack /\ placed = NonePlaced
  /\ \E b \in Bases : speaker = [ssrc |-> 1, base |-> b, stood |-> 0, until |-> 0]

-----------------------------------------------------------------------------
(* The speaker and the network.                                            *)
Late(p) == clock >= p.spoken + p.len + MaxDelay
Tick ==
  /\ clock < MaxClock /\ ~trk.closed /\ clock' = clock + 1 /\ \A p \in net : ~Late(p)
  /\ UNCHANGED <<speaker, sent, net, trk, placed>>

(* A packet spoken until now goes out.                                     *)
Speak(len) ==
  /\ sent < MaxSent /\ sent' = sent + 1 /\ speaker.until + len <= clock /\ ~trk.closed
  /\ \E stood \in {speaker.stood, speaker.stood + clock - len - speaker.until} :
       /\ speaker' = [speaker EXCEPT !.stood = stood, !.until = clock]
       /\ net' = net \cup {[n |-> sent + 1, ssrc |-> speaker.ssrc, len |-> len, spoken |-> clock - len,
                            ts |-> (speaker.base + clock - len - stood) % Modulus]}
  /\ UNCHANGED <<clock, trk, placed>>

Rejoin ==
  /\ net = {} /\ sent \in 1 .. (MaxSent - 1) /\ speaker.ssrc = 1 /\ ~trk.closed
  /\ \E b \in Bases : speaker' = [ssrc |-> 2, base |-> b, stood |-> 0, until |-> clock]
  /\ UNCHANGED <<clock, sent, net, trk, placed>>

Lose(p) == p \in net /\ net' = net \ {p} /\ UNCHANGED <<clock, speaker, sent, trk, placed>>

-----------------------------------------------------------------------------
(* The track.                                                              *)

(* Wrong on purpose, to test TrackHolds: the difference is taken without   *)
(* its wrap.                                                               *)
Unwrapped(d) == d
(* A 32-bit difference read as signed.                                     *)
Signed(d) == LET m == d % Modulus IN IF 2 * m >= Modulus THEN m - Modulus ELSE m

(* Wrong on purpose, to test TrackHolds: the RTP timestamps always place.  *)
ByRTP(gap, wallGap) == gap
(* The RTP timestamps place a packet, unless the clock disagrees too far.  *)
ByEither(gap, wallGap) ==
  IF gap - wallGap > MaxDrift \/ wallGap - gap > MaxDrift THEN wallGap ELSE gap

(* Wrong on purpose, to test TypesOK: the next timestamp does not wrap.    *)
AfterWide(p) == p.ts + p.len
(* The timestamp of the packet after this one, if none is missing.         *)
After(p) == (p.ts + p.len) % Modulus

(* The silence of a gap: whole frames only.                                *)
Filled(gap) == IF gap > 0 THEN (gap \div Silence) * Silence ELSE 0

(* place: a packet behind the track's stream is dropped, any other is      *)
(* written after its gap of silence.                                       *)
Place(p) ==
  LET wallGap == clock - trk.granule
      same == trk.started /\ p.ssrc = trk.ssrc
      rtp == Signed(p.ts - trk.nextTS)
      at == trk.granule + Filled(IF same THEN ByEither(rtp, wallGap) ELSE wallGap)
  IN IF same /\ rtp < 0 THEN UNCHANGED <<trk, placed>>
     ELSE /\ trk' = [trk EXCEPT !.started = TRUE, !.ssrc = p.ssrc, !.pending = TRUE,
                                !.nextTS = After(p), !.granule = at + p.len]
          /\ placed' = [n |-> p.n, at |-> at, spoken |-> p.spoken]

(* A packet arrives, to arrive again or not.                               *)
Arrive(p) ==
  /\ p \in net /\ ~trk.closed /\ Place(p) /\ net' \in {net, net \ {p}}
  /\ UNCHANGED <<clock, speaker, sent>>

(* flush, and a page that is full: the page being filled is written out.   *)
Page ==
  /\ trk.pending /\ ~trk.closed
  /\ trk' = [trk EXCEPT !.pending = FALSE, !.pageGranule = trk.granule]
  /\ UNCHANGED <<clock, speaker, sent, net, placed>>

(* Wrong on purpose, to test TrackHolds: no frame is added for the last    *)
(* page.                                                                   *)
EndedBare(t, end) ==
  LET short == IF end > t.granule THEN end - t.granule ELSE 0
      frames == (short + Silence - 1) \div Silence
  IN [t EXCEPT !.granule = @ + frames * Silence, !.pending = @ \/ frames > 0]
(* end: silence to the recording's end, and one more frame when no packet  *)
(* waits for the last page.                                                *)
Ended(t, end) ==
  LET short == IF end > t.granule THEN end - t.granule ELSE 0
      frames == (short + Silence - 1) \div Silence
      n == IF frames = 0 /\ ~t.pending THEN 1 ELSE frames
  IN [t EXCEPT !.granule = @ + n * Silence, !.pending = @ \/ n > 0]

(* Wrong on purpose, to test TrackHolds: the last page ends at the         *)
(* recording's end, before a page already out.                             *)
ClosedThere(t, end) == end
(* closeAt: trimmed to the end, no further back than the page before.      *)
ClosedAt(t, end) == IF end > t.pageGranule THEN end ELSE t.pageGranule

(* close, at the recording's end.  One with no packet was never opened.    *)
Close ==
  /\ trk.started /\ ~trk.closed
  /\ LET t == Ended(trk, clock) IN
     trk' = [t EXCEPT !.closed = TRUE, !.granule = ClosedAt(t, clock), !.pageGranule = ClosedAt(t, clock)]
  /\ UNCHANGED <<clock, speaker, sent, net, placed>>

TrackNext ==
  \/ Tick \/ Rejoin \/ Page \/ Close
  \/ \E len \in Lengths : Speak(len)
  \/ \E p \in net : Arrive(p) \/ Lose(p)
=============================================================================
