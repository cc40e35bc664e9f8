---------------------------- MODULE AccessProofs ----------------------------
(***************************************************************************)
(* Proofs about one spawned channel's lock, its delete wait and its        *)
(* renames, for every value of the constants: any number of members,       *)
(* goroutines, commands, presses, moves and disturbances.                  *)
(*                                                                         *)
(* The three parts share no state, so each has an inductive invariant of   *)
(* its own.  The wait's and the slots' come first, then the lock's:        *)
(* AccessTypes are the types, Plans says what a goroutine may still have   *)
(* to do and that one of them holds the change in flight, and Told says    *)
(* what Discord, the cache, the row and the notice have of the lock at     *)
(* every section of a change, and not only at rest.                        *)
(***************************************************************************)
EXTENDS MCTempVCAccess, SequenceTheorems, FiniteSetTheorems, TLAPS

-----------------------------------------------------------------------------
(* The delete wait.                                                        *)

Waits == [since : Nat, due : Nat, number : Nat]

WaitTypes ==
  /\ clock \in 0 .. MaxClock /\ made \in 0 .. MaxWaits /\ delay \in Nat /\ delay \in Delays
  /\ emptied \in 0 .. clock /\ checks \in Nat
  /\ lives \in BOOLEAN /\ inside \in BOOLEAN /\ known \in BOOLEAN /\ heard \in BOOLEAN
  /\ kept \in BOOLEAN
  /\ wait = NoWait \/ wait \in Waits
  /\ wait # NoWait => wait.since <= clock /\ wait.number \in 1 .. made
  /\ timers \subseteq [number : Nat, due : Nat]
  /\ fired \subseteq 0 .. made
  /\ timeLeft \in [TimeKinds -> Nat]

WaitStands ==
  /\ wait # NoWait =>
       /\ known /\ ~heard /\ wait.since = emptied /\ wait.due = wait.since + delay
       /\ wait.number \in fired \cup {t.number : t \in timers}
  /\ \A t \in timers : wait # NoWait /\ wait.number = t.number /\ t.number \notin fired
  /\ \A t, u \in timers : t = u
  /\ known /\ ~heard => wait # NoWait \/ checks > 0 \/ kept

WaitInv == WaitTypes /\ WaitStands

(* A new wait with its timer stands, when no timer of an older one runs.   *)
LEMMA ScheduledStands ==
  ASSUME WaitTypes, TimeConstants, NEW since \in 0 .. clock, NEW due \in Nat,
         Scheduled(since, due, {})
  PROVE  /\ made' \in 0 .. MaxWaits /\ made' > made
         /\ wait' = [since |-> since, due |-> due, number |-> made']
         /\ wait' \in Waits /\ wait' # NoWait
         /\ wait'.since = since /\ wait'.due = due /\ wait'.number = made'
         /\ timers' = {[number |-> made', due |-> due]}
         /\ timers' \subseteq [number : Nat, due : Nat]
         /\ \A t \in timers' : t.number = made'
         /\ \A t, u \in timers' : t = u
         /\ made' \in {t.number : t \in timers'}
         /\ made' \notin fired
<1>1. made \in Nat /\ made' = made + 1 /\ made' \in 0 .. MaxWaits /\ MaxWaits \in Nat
      /\ since \in Nat
  BY DEF Scheduled, WaitTypes, TimeConstants
<1>2. wait' = [since |-> since, due |-> due, number |-> made']
  BY DEF Scheduled
<1>3. wait' \in Waits /\ wait'.since = since /\ wait'.due = due /\ wait'.number = made'
  BY <1>1, <1>2 DEF Waits
<1>4. wait' # NoWait
  BY <1>3 DEF Waits, TimeConstants
<1>5. timers' = {[number |-> made', due |-> due]}
  BY DEF Scheduled
<1>6. [number |-> made', due |-> due].number = made'
  OBVIOUS
<1>7. made' \in {t.number : t \in timers'}
  BY <1>5, <1>6
<1>8. timers' \subseteq [number : Nat, due : Nat] /\ \A t \in timers' : t.number = made'
  BY <1>1, <1>5, <1>6
<1>9. made' \notin fired
  BY <1>1 DEF WaitTypes
<1> QED BY <1>1, <1>2, <1>3, <1>4, <1>5, <1>7, <1>8, <1>9

(* Stopping the wait's timer leaves none.                                  *)
LEMMA NoneRuns ==
  ASSUME WaitInv
  PROVE  Stopped = {} /\ (wait = NoWait => timers = {})
  BY DEF WaitInv, WaitStands, Stopped

LEMMA HearsKeeps ==
  ASSUME WaitInv, TimeConstants, Hears
  PROVE  WaitInv'
<1> USE DEF WaitInv
<1>1. CASE ~known \/ heard = inside
  BY <1>1 DEF Hears, WaitTypes, WaitStands
<1>2. CASE known /\ heard # inside /\ inside
  BY <1>2, NoneRuns DEF Hears, Joined, Cancelled, WaitTypes, WaitStands
<1>3. CASE known /\ heard # inside /\ ~inside
  <2>1. wait = NoWait /\ timers = {} /\ heard' = FALSE /\ kept' = FALSE /\ emptied' = clock
    BY <1>3, NoneRuns DEF Hears, WaitTypes, WaitStands
  <2>2. /\ clock' = clock /\ lives' = lives /\ inside' = inside /\ delay' = delay
        /\ known' = TRUE /\ fired' = fired /\ timeLeft' = timeLeft
    BY <1>3 DEF Hears, WaitTypes
  <2>3. clock \in 0 .. clock /\ clock + delay \in Nat /\ clock <= clock /\ emptied' \in 0 .. clock'
    BY <2>1, <2>2 DEF WaitTypes, TimeConstants
  <2>4. CASE delay = 0
    <3>1. wait' = NoWait /\ timers' = {} /\ made' = made /\ checks' = checks + 1
      BY <1>3, <2>1, <2>4 DEF Hears, EmptiedNow
    <3>2. checks' \in Nat /\ checks' > 0
      BY <3>1 DEF WaitTypes
    <3>3. WaitTypes'
      BY <2>1, <2>2, <2>3, <3>1, <3>2 DEF WaitTypes
    <3> QED BY <2>1, <2>2, <3>1, <3>2, <3>3 DEF WaitStands
  <2>5. CASE delay # 0
    <3>1. Scheduled(clock, clock + delay, {}) /\ checks' = checks
      BY <1>3, <2>1, <2>5 DEF Hears, EmptiedNow
    <3>2. made' \in 1 .. made' /\ fired' \subseteq 0 .. made'
      BY <2>2, <2>3, <3>1, ScheduledStands DEF WaitTypes
    <3>3. WaitTypes'
      BY <2>1, <2>2, <2>3, <3>1, <3>2, ScheduledStands DEF WaitTypes
    <3> QED BY <2>1, <2>2, <2>3, <3>1, <3>3, ScheduledStands DEF WaitStands
  <2> QED BY <2>4, <2>5
<1> QED BY <1>1, <1>2, <1>3 DEF WaitTypes

LEMMA FiresKeeps ==
  ASSUME WaitInv, TimeConstants, NEW t \in timers, Fires(t)
  PROVE  WaitInv'
<1> USE DEF WaitInv
<1>1. wait # NoWait /\ wait.number = t.number /\ t.number \in 1 .. made
  BY DEF WaitTypes, WaitStands
<1>2. timers' = {}
  BY DEF Fires, WaitStands
<1>3. /\ wait' = wait /\ known' = known /\ heard' = heard /\ emptied' = emptied
      /\ delay' = delay /\ checks' = checks /\ kept' = kept /\ clock' = clock /\ made' = made
      /\ lives' = lives /\ inside' = inside /\ timeLeft' = timeLeft
      /\ fired' = fired \cup {t.number} /\ wait.number \in fired'
  BY <1>1 DEF Fires
<1>4. fired' \subseteq 0 .. made'
  <2>1. fired \subseteq 0 .. made /\ made \in Nat /\ made' = made
    BY <1>3 DEF WaitTypes
  <2>2. t.number \in 0 .. made
    BY <1>1, <2>1
  <2>3. fired' = fired \cup {t.number}
    BY <1>3
  <2> QED BY <2>1, <2>2, <2>3
<1>5. WaitTypes'
  BY <1>2, <1>3, <1>4 DEF WaitTypes
<1>6. /\ wait' # NoWait => /\ known' /\ ~heard' /\ wait'.since = emptied'
                            /\ wait'.due = wait'.since + delay'
      /\ known' /\ ~heard' => wait' # NoWait
  BY <1>1, <1>3 DEF WaitStands
<1> QED BY <1>2, <1>3, <1>5, <1>6 DEF WaitStands

(* The wait ends, and a check for an empty channel may be on its way.      *)
LEMMA EndedStands ==
  ASSUME WaitTypes, wait' = NoWait, timers' = {}, fired' \subseteq fired,
         clock' = clock, made' = made, UNCHANGED <<lives, inside, delay, emptied>>,
         checks' \in Nat, known' \in BOOLEAN, heard' \in BOOLEAN, kept' \in BOOLEAN,
         timeLeft' \in [TimeKinds -> Nat],
         known' /\ ~heard' => checks' > 0 \/ kept'
  PROVE  WaitInv'
  BY DEF WaitTypes, WaitInv, WaitStands

LEMMA WaitOverKeeps ==
  ASSUME WaitInv, TimeConstants, NEW n \in fired, WaitOver(n)
  PROVE  WaitInv'
<1> USE DEF WaitInv
<1>1. /\ clock' = clock /\ made' = made /\ lives' = lives /\ inside' = inside /\ delay' = delay
      /\ emptied' = emptied /\ known' = known /\ heard' = heard /\ kept' = kept
      /\ timeLeft' = timeLeft /\ timers' = timers /\ fired' = fired \ {n}
  BY DEF WaitOver
<1>2. CASE Own(n)
  BY <1>1, <1>2, EndedStands DEF WaitOver, WaitStands, Own, WaitTypes
<1>3. CASE ~Own(n)
  BY <1>1, <1>3 DEF WaitOver, WaitTypes, Own, WaitStands
<1> QED BY <1>2, <1>3

LEMMA DeleteIfStillEmptyKeeps ==
  ASSUME WaitInv, TimeConstants, DeleteIfStillEmpty
  PROVE  WaitInv'
<1> USE DEF WaitInv
<1>1. /\ clock' = clock /\ inside' = inside /\ delay' = delay
      /\ emptied' = emptied /\ heard' = heard /\ fired' = fired /\ checks' \in Nat
      /\ timeLeft' \in [TimeKinds -> Nat]
  BY DEF DeleteIfStillEmpty, WaitTypes, Disturbed
<1>2. CASE known' = FALSE /\ lives' = FALSE /\ Cancelled /\ kept' = kept
  BY <1>1, <1>2, NoneRuns DEF Cancelled, WaitTypes, WaitStands
<1>3. CASE /\ UNCHANGED <<lives, known, wait, timers, made>>
           /\ kept' \in BOOLEAN /\ (known /\ ~heard => kept')
  BY <1>1, <1>3 DEF WaitTypes, WaitStands
<1> QED BY <1>2, <1>3 DEF DeleteIfStillEmpty, WaitTypes

LEMMA SaveDelayKeeps ==
  ASSUME WaitInv, TimeConstants, NEW d \in Delays, SaveDelay(d)
  PROVE  WaitInv'
<1> USE DEF WaitInv
<1>1. /\ clock' = clock /\ inside' = inside /\ lives' = lives /\ delay' = d /\ d \in Nat
      /\ emptied' = emptied /\ heard' = heard /\ known' = known /\ fired' = fired
      /\ checks' = checks /\ kept' = kept
  BY DEF SaveDelay, TimeConstants
<1>0. timeLeft' \in [TimeKinds -> Nat]
  BY DEF SaveDelay, Disturbed, WaitTypes, TimeKinds
<1>2. CASE wait = NoWait
  BY <1>0, <1>1, <1>2 DEF SaveDelay, WaitTypes, WaitStands
<1>3. CASE wait # NoWait
  <2>1. Scheduled(wait.since, wait.since + d, {})
    BY <1>3, NoneRuns DEF SaveDelay, Since
  <2>2. wait \in Waits /\ wait.since <= clock /\ wait.since = emptied /\ known /\ ~heard
    BY <1>3 DEF WaitTypes, WaitStands
  <2>3. wait.since \in 0 .. clock /\ wait.since + d \in Nat
    BY <1>1, <2>2 DEF WaitTypes, TimeConstants, Waits
  <2>4. made' \in 1 .. made' /\ fired' \subseteq 0 .. made' /\ wait'.since <= clock'
    BY <1>1, <2>1, <2>3, ScheduledStands DEF WaitTypes
  <2>5. WaitTypes'
    BY <1>1, <1>0, <2>1, <2>3, <2>4, ScheduledStands DEF WaitTypes
  <2>6. known' /\ ~heard' /\ wait'.since = emptied' /\ wait'.due = wait'.since + delay'
    BY <1>1, <2>1, <2>2, <2>3, ScheduledStands
  <2> QED BY <1>1, <2>1, <2>3, <2>5, <2>6, ScheduledStands DEF WaitStands
<1> QED BY <1>2, <1>3

(* A wait of this length since then is made, and the channel is empty.     *)
LEMMA MadeStands ==
  ASSUME WaitTypes, TimeConstants, NEW since \in 0 .. clock,
         Scheduled(since, since + delay, {}),
         UNCHANGED <<clock, lives, inside, delay, fired, checks, timeLeft>>,
         known' = TRUE, heard' = FALSE, kept' \in BOOLEAN, emptied' = since
  PROVE  WaitInv'
<1>1. since \in Nat /\ since + delay \in Nat /\ clock \in Nat
  BY DEF WaitTypes, TimeConstants
<1>2. /\ made' \in 1 .. made' /\ fired' \subseteq 0 .. made' /\ wait'.since <= clock'
      /\ emptied' \in 0 .. clock'
  BY <1>1, ScheduledStands DEF WaitTypes
<1>3. WaitTypes'
  BY <1>1, <1>2, ScheduledStands DEF WaitTypes
<1>4. known' /\ ~heard' /\ wait'.since = emptied' /\ wait'.due = wait'.since + delay'
  BY <1>1, ScheduledStands
<1> QED BY <1>1, <1>3, <1>4, ScheduledStands DEF WaitInv, WaitStands

LEMMA SweepsKeeps ==
  ASSUME WaitInv, TimeConstants, Sweeps
  PROVE  WaitInv'
<1> USE DEF WaitInv
<1>1. /\ clock' = clock /\ inside' = inside /\ lives' = lives /\ delay' = delay
      /\ fired' = fired /\ timeLeft' = timeLeft /\ known' = lives
      /\ kept' = FALSE /\ clock \in Nat
      /\ clock \in 0 .. clock
  BY DEF Sweeps, WaitTypes, TimeConstants
<1>2. heard' = (lives /\ inside)
  BY DEF Sweeps
<1>3. emptied' = IF lives /\ ~inside /\ wait = NoWait THEN clock ELSE emptied
  BY DEF Sweeps
<1>4. emptied' \in 0 .. clock' /\ heard' \in BOOLEAN /\ known' \in BOOLEAN
  BY <1>1, <1>2, <1>3 DEF WaitTypes
<1>5. ASSUME wait' = NoWait, timers' = {}, made' = made, checks' \in Nat,
             ~lives \/ inside \/ checks' > 0
      PROVE  WaitInv'
  BY <1>1, <1>2, <1>4, <1>5 DEF WaitTypes, WaitStands
<1>6. CASE ~lives \/ inside
  BY <1>5, <1>6, NoneRuns DEF Sweeps, Cancelled, WaitTypes
<1>7. CASE lives /\ ~inside
  <2>0. known' = TRUE /\ heard' = FALSE
    BY <1>1, <1>2, <1>7 DEF WaitTypes
  <2>1. CASE delay = 0
    BY <1>5, <1>7, <2>1, NoneRuns DEF Sweeps, EmptiedNow, Cancelled, WaitTypes
  <2>2. CASE delay # 0 /\ wait # NoWait
    <3>1. Scheduled(wait.since, wait.since + delay, {}) /\ checks' = checks
      BY <1>7, <2>2, NoneRuns DEF Sweeps, HeldWait
    <3>2. wait \in Waits /\ wait.since <= clock /\ wait.since = emptied
      BY <2>2 DEF WaitTypes, WaitStands
    <3>3. wait.since \in 0 .. clock
      BY <1>1, <3>2 DEF Waits
    <3>4. emptied' = wait.since
      BY <1>3, <2>2, <3>2
    <3> QED BY <1>1, <2>0, <3>1, <3>3, <3>4, MadeStands
  <2>3. CASE delay # 0 /\ wait = NoWait
    BY <1>1, <1>3, <1>7, <2>0, <2>3, NoneRuns, MadeStands DEF Sweeps, HeldWait, EmptiedNow
  <2> QED BY <2>1, <2>2, <2>3
<1> QED BY <1>6, <1>7 DEF WaitTypes

LEMMA LeftTyped ==
  ASSUME WaitTypes, NEW kind \in TimeKinds, Disturbed(kind)
  PROVE  timeLeft' \in [TimeKinds -> Nat]
  BY DEF WaitTypes, Disturbed

LEMMA OthersKeep ==
  ASSUME WaitInv, TimeConstants, MovesThere \/ Reconnects \/ Restarts
  PROVE  WaitInv'
<1> USE DEF WaitInv
<1>1. timeLeft' \in [TimeKinds -> Nat]
  BY LeftTyped DEF MovesThere, Reconnects, Restarts, TimeKinds
<1>2. CASE MovesThere \/ Reconnects
  <2>1. WaitTypes'
    BY <1>1, <1>2 DEF MovesThere, Reconnects, WaitTypes
  <2> QED BY <1>2, <2>1 DEF MovesThere, Reconnects, WaitStands
<1>3. CASE Restarts
  BY <1>1, <1>3 DEF Restarts, WaitTypes, WaitStands
<1> QED BY <1>2, <1>3

LEMMA TicksKeep ==
  ASSUME WaitInv, TimeConstants, Ticks
  PROVE  WaitInv'
<1>1. clock' = clock + 1 /\ clock \in Nat /\ clock' \in 0 .. MaxClock
  BY DEF Ticks, Later, WaitInv, WaitTypes, TimeConstants
<1>2. UNCHANGED delayVars
  BY DEF Ticks
<1>3. emptied' \in 0 .. clock' /\ (wait # NoWait => wait'.since <= clock')
  BY <1>1, <1>2 DEF WaitInv, WaitTypes, Waits, delayVars
<1>4. WaitTypes'
  BY <1>1, <1>2, <1>3 DEF WaitInv, WaitTypes, delayVars
<1> QED BY <1>2, <1>4 DEF WaitInv, WaitStands, delayVars

LEMMA WaitInvStep ==
  ASSUME WaitInv, TimeConstants, [Next]_all
  PROVE  WaitInv'
<1>1. ASSUME UNCHANGED clock, UNCHANGED delayVars PROVE WaitInv'
  BY <1>1 DEF WaitInv, WaitTypes, delayVars, WaitStands
<1>2. CASE UNCHANGED all \/ OfLock(AccessNext)
  BY <1>1, <1>2 DEF all, OfLock, timeVars
<1>3. ASSUME Rename PROVE WaitInv'
  BY <1>1, <1>3 DEF Rename
<1>6. ASSUME NEW slot \in asked, Answered(slot) PROVE WaitInv'
  <2>1. timeLeft' \in [TimeKinds -> Nat]
    BY <1>6, LeftTyped DEF Answered, WaitInv, WaitTypes, TimeKinds
  <2>2. WaitTypes'
    BY <1>6, <2>1 DEF Answered, WaitInv, WaitTypes
  <2> QED BY <1>6, <2>2 DEF Answered, WaitInv, WaitStands
<1>4. ASSUME Hears \/ (\E t \in timers : Fires(t)) \/ (\E n \in fired : WaitOver(n))
             \/ DeleteIfStillEmpty \/ Sweeps
      PROVE  WaitInv'
  BY <1>4, HearsKeeps, FiresKeeps, WaitOverKeeps, DeleteIfStillEmptyKeeps, SweepsKeeps
<1>5. ASSUME DelayNext PROVE WaitInv'
  BY <1>5, <1>4, TicksKeep, OthersKeep, SaveDelayKeeps DEF DelayNext, DelaySteps
<1> QED BY <1>2, <1>3, <1>4, <1>5, <1>6, TicksKeep, OthersKeep DEF Next, OfDelay, RenameNext

LEMMA WaitInvInit ==
  ASSUME TimeConstants, Init
  PROVE  WaitInv
<1>1. delay \in Delays /\ timeLeft \in [TimeKinds -> Nat]
  BY DEF Init, TimeInit, TimeConstants
<1>2. WaitTypes
  <2>1. TimeInit
    BY DEF Init
  <2>2. 0 \in 0 .. MaxClock /\ 0 \in 0 .. MaxWaits /\ 0 \in 0 .. 0 /\ delay \in Nat
    BY <1>1 DEF TimeConstants
  <2> QED BY <1>1, <2>1, <2>2 DEF TimeInit, WaitTypes
<1> QED BY <1>2 DEF Init, TimeInit, WaitInv, WaitStands

(* A wait belongs to a channel the record has empty, counts from when it   *)
(* emptied through every save and sweep, ends when the delay as it stands  *)
(* is over, and its timer, the only one, runs or has just fired            *)
(* (temp_vc_delay.go); a channel left empty waits, is being checked, or    *)
(* its delete was refused.                                                 *)
THEOREM WaitsAlwaysRight == Spec => []WaitsRight
<1>1. Init => WaitInv
  BY WaitInvInit, TimeConstants
<1>2. WaitInv /\ [Next]_all => WaitInv'
  BY WaitInvStep, TimeConstants
<1>3. WaitInv => WaitsRight
  BY DEF WaitInv, WaitStands, WaitsRight
<1> QED BY <1>1, <1>2, <1>3, PTL DEF Spec

-----------------------------------------------------------------------------
(* The rename slots.                                                       *)

Slots == [at : 0 .. clock, number : 1 .. MaxRenames]
Given == accepted \cup asked
From(t) == {s \in Given : s.at >= t /\ s.at < t + RenameWindow}

SlotInv ==
  /\ clock \in Nat
  /\ renames \subseteq Slots /\ asked \subseteq Slots /\ accepted \subseteq Slots
  /\ unheard \subseteq Slots /\ IsFiniteSet(renames) /\ IsFiniteSet(Given)
  /\ asked \cap accepted = {}
  /\ \A s \in Slots : Recent(s.at) => (s \in renames <=> s \in Given)
  /\ \A t \in Nat : Cardinality(From(t)) <= RenamesPerWindow
  /\ which # "rename" => renames = {} /\ asked = {} /\ accepted = {}

LEMMA SlotTypes ==
  ASSUME SlotInv, NEW s \in Slots
  PROVE  s.at \in Nat /\ s.at <= clock /\ s.number \in 1 .. MaxRenames
  BY DEF SlotInv, Slots

LEMMA GivenFinite ==
  ASSUME SlotInv, NEW t
  PROVE  From(t) \subseteq Given /\ IsFiniteSet(From(t)) /\ Cardinality(From(t)) \in Nat
  BY FS_Subset, FS_CardinalityType DEF From, SlotInv

LEMMA RenameKeeps ==
  ASSUME SlotInv, TimeConstants, which = "rename", which' = which, Rename
  PROVE  SlotInv'
<1>1. /\ clock' = clock /\ accepted' = accepted /\ clock \in Nat /\ Slots' = Slots
      /\ unheard' \subseteq Slots
  BY DEF Rename, SlotInv, Slots
<1>2. Counted \subseteq renames /\ IsFiniteSet(Counted) /\ Cardinality(Counted) \in Nat
  BY FS_Subset, FS_CardinalityType DEF Counted, SlotInv
<1>3. CASE Cardinality(Counted) >= RenamesPerWindow
  BY <1>1, <1>2, <1>3 DEF Rename, Given, From, SlotInv, Counted, Recent
<1>4. CASE ~(Cardinality(Counted) >= RenamesPerWindow)
  <2> DEFINE slot == CHOOSE s \in Fresh : TRUE
  <2>1. slot \in Fresh
    BY DEF Rename
  <2>2. renames' = Counted \cup {slot} /\ asked' = asked \cup {slot}
    BY <1>4 DEF Rename
  <2>3. slot \in Slots /\ slot.at = clock /\ slot \notin Given
    BY <1>1, <2>1 DEF Fresh, Slots, Given
  <2> HIDE DEF slot
  <2>4. Given' = Given \cup {slot}
    BY <1>1, <2>2 DEF Given
  <2>5. /\ renames' \subseteq Slots' /\ asked' \subseteq Slots' /\ accepted' \subseteq Slots'
        /\ asked' \cap accepted' = {}
    BY <1>1, <1>2, <2>2, <2>3 DEF SlotInv, Given
  <2>6. IsFiniteSet(renames') /\ IsFiniteSet(Given')
    BY <1>2, <2>2, <2>4, FS_AddElement DEF SlotInv
  <2>7. \A s \in Slots' : Recent(s.at)' => (s \in renames' <=> s \in Given')
    BY <1>1, <2>2, <2>4 DEF SlotInv, Counted, Recent
  <2>8. ASSUME NEW t \in Nat
        PROVE  Cardinality(From(t)') <= RenamesPerWindow
    <3>0. Cardinality(From(t)) <= RenamesPerWindow /\ RenamesPerWindow \in Nat
          /\ RenameWindow \in Nat
      BY DEF SlotInv, TimeConstants
    <3>1. CASE t <= clock /\ clock < t + RenameWindow
      <4>1. From(t)' = From(t) \cup {slot}
        BY <2>3, <2>4, <3>1 DEF From
      <4>2. From(t) \subseteq Counted
        BY <1>1, <3>0, <3>1, SlotTypes DEF From, Given, SlotInv, Recent, Counted
      <4>3. Cardinality(From(t)) <= Cardinality(Counted)
        BY <1>2, <4>2, FS_Subset
      <4>4. slot \notin From(t)
        BY <2>3 DEF From
      <4>5. Cardinality(From(t)') = Cardinality(From(t)) + 1
        BY <4>1, <4>4, GivenFinite, FS_AddElement
      <4> QED BY <1>2, <1>4, <3>0, <4>3, <4>5, GivenFinite
    <3>2. CASE ~(t <= clock /\ clock < t + RenameWindow)
      BY <1>1, <2>3, <2>4, <3>0, <3>2 DEF From
    <3> QED BY <3>1, <3>2
  <2> QED BY <1>1, <2>5, <2>6, <2>7, <2>8 DEF SlotInv
<1> QED BY <1>3, <1>4

LEMMA AnsweredKeeps ==
  ASSUME SlotInv, TimeConstants, which = "rename", which' = which,
         NEW slot \in asked, Answered(slot)
  PROVE  SlotInv'
<1>1. clock' = clock /\ Slots' = Slots /\ asked' = asked \ {slot} /\ slot \in Slots
      /\ slot \notin accepted /\ unheard' \subseteq Slots
  BY DEF Answered, SlotInv, Slots
<1>2. CASE accepted' = accepted \cup {slot} /\ renames' = renames
  BY <1>1, <1>2 DEF Given, From, SlotInv, Recent
<1>3. CASE renames' = renames \ {slot} /\ accepted' = accepted
  <2>1. Given' = Given \ {slot}
    BY <1>1, <1>3 DEF Given
  <2>2. IsFiniteSet(renames') /\ IsFiniteSet(Given')
    BY <1>3, <2>1, FS_Subset DEF SlotInv
  <2>3. \A s \in Slots : Recent(s.at)' => (s \in renames' <=> s \in Given')
    BY <1>1, <1>3, <2>1 DEF SlotInv, Recent
  <2>4. ASSUME NEW t \in Nat
        PROVE  Cardinality(From(t)') <= RenamesPerWindow
    <3>1. From(t)' \subseteq From(t)
      BY <2>1 DEF From
    <3>2. Cardinality(From(t)') <= Cardinality(From(t))
      BY <3>1, GivenFinite, FS_Subset
    <3>3. Cardinality(From(t)') \in Nat
      BY <3>1, GivenFinite, FS_Subset, FS_CardinalityType
    <3> QED BY <3>2, <3>3, GivenFinite DEF SlotInv, TimeConstants
  <2> QED BY <1>1, <1>3, <2>2, <2>3, <2>4 DEF SlotInv
<1> QED BY <1>2, <1>3 DEF Answered, Released

LEMMA SlotTicksKeep ==
  ASSUME SlotInv, TimeConstants, Later, UNCHANGED renameVars, which' = which
  PROVE  SlotInv'
<1>1. clock' = clock + 1 /\ clock \in Nat /\ clock' \in Nat
  BY DEF Later, SlotInv
<1>2. /\ renames' = renames /\ asked' = asked /\ accepted' = accepted /\ unheard' = unheard
      /\ Given' = Given
  BY DEF renameVars, Given
<1>3. Slots \subseteq Slots'
  BY <1>1 DEF Slots
<1>4. \A t : From(t)' = From(t)
  BY <1>2 DEF From
<1>5. ASSUME NEW s \in Slots', Recent(s.at)'
      PROVE  s \in renames' <=> s \in Given'
  BY <1>1, <1>2, <1>5, SlotTypes DEF Slots, Recent, TimeConstants, SlotInv, Given
<1> QED BY <1>1, <1>2, <1>3, <1>4, <1>5 DEF SlotInv

(* A process that starts has no slots.                                     *)
LEMMA SlotRestartKeeps ==
  ASSUME SlotInv, TimeConstants, Restarts, which' = which
  PROVE  SlotInv'
<1>1. /\ clock' = clock /\ renames' = {} /\ asked' = {} /\ accepted' = {}
      /\ Slots' = Slots /\ unheard' \subseteq Slots
  BY DEF Restarts, SlotInv, Slots
<1>2. IsFiniteSet({}) /\ Cardinality({}) = 0 /\ Given' = {}
  BY <1>1, FS_EmptySet DEF Given
<1>3. ASSUME NEW t \in Nat
      PROVE  Cardinality(From(t)') <= RenamesPerWindow
  <2>1. From(t)' = {}
    BY <1>2 DEF From
  <2> QED BY <1>2, <2>1 DEF TimeConstants
<1>4. \A s \in Slots' : Recent(s.at)' => (s \in renames' <=> s \in Given')
  BY <1>1, <1>2
<1> QED BY <1>1, <1>2, <1>3, <1>4 DEF SlotInv

LEMMA SlotInvStep ==
  ASSUME SlotInv, TimeConstants, [Next]_all
  PROVE  SlotInv'
<1>1. ASSUME UNCHANGED <<which, clock, renames, asked, accepted, unheard>> PROVE SlotInv'
  BY <1>1 DEF Slots, Given, From, SlotInv, Recent
<1>2. CASE UNCHANGED all \/ OfLock(AccessNext)
  BY <1>1, <1>2 DEF all, OfLock, timeVars, renameVars
<1>3. CASE OfDelay(DelayNext)
  <2>1. which' = which /\ renames = {} /\ asked = {} /\ accepted = {} /\ which # "rename"
    BY <1>3 DEF OfDelay, SlotInv
  <2>2. CASE Ticks
    BY <2>1, <2>2, SlotTicksKeep DEF Ticks
  <2>3. CASE DeleteIfStillEmpty
    BY <1>1, <2>1, <2>3 DEF DeleteIfStillEmpty
  <2>4. ASSUME \/ Hears \/ (\E t \in timers : Fires(t)) \/ (\E n \in fired : WaitOver(n))
               \/ Sweeps \/ MovesThere \/ (\E d \in Delays : SaveDelay(d)) \/ Reconnects
        PROVE  SlotInv'
    BY <1>1, <2>1, <2>4 DEF Hears, Fires, WaitOver, Sweeps, MovesThere, SaveDelay,
       Reconnects, renameVars
  <2> QED BY <1>3, <2>1, <2>2, <2>3, <2>4, SlotRestartKeeps DEF OfDelay, DelayNext, DelaySteps
<1>4. CASE which = "rename" /\ RenameNext /\ which' = which
  <2>1. CASE Sweeps
    BY <1>1, <1>4, <2>1 DEF Sweeps, renameVars
  <2> QED BY <1>4, <2>1, RenameKeeps, AnsweredKeeps, SlotTicksKeep, SlotRestartKeeps
          DEF RenameNext, Ticks
<1> QED BY <1>2, <1>3, <1>4 DEF Next

LEMMA SlotInvInit ==
  ASSUME TimeConstants, Init
  PROVE  SlotInv
  BY FS_EmptySet DEF Init, TimeInit, Given, From, SlotInv, TimeConstants

(* Of the renames Discord told this process it accepted no more than       *)
(* RenamesPerWindow took their slot within one window, whichever were      *)
(* refused meanwhile, whenever their answers came, were lost or the        *)
(* process restarted (temp_vc_rename.go); of the last window, every one of *)
(* them and every one in flight has its slot, and nothing else has.        *)
THEOREM SlotsAlwaysTell == Spec => []SlotsTell
<1>1. Init => SlotInv
  BY SlotInvInit, TimeConstants
<1>2. SlotInv /\ [Next]_all => SlotInv'
  BY SlotInvStep, TimeConstants
<1>3. ASSUME SlotInv PROVE SlotsTell
  <2>1. ASSUME NEW t \in 0 .. MaxClock
        PROVE  Cardinality({a \in accepted : a.at >= t /\ a.at < t + RenameWindow})
                 <= RenamesPerWindow
    <3> DEFINE A == {a \in accepted : a.at >= t /\ a.at < t + RenameWindow}
    <3>1. A \subseteq From(t) /\ t \in Nat
      BY DEF From, Given
    <3>2. Cardinality(A) <= Cardinality(From(t)) /\ Cardinality(A) \in Nat
      BY <1>3, <3>1, GivenFinite, FS_Subset, FS_CardinalityType
    <3>3. Cardinality(From(t)) <= RenamesPerWindow
      BY <1>3, <3>1 DEF SlotInv
    <3> HIDE DEF A
    <3>4. Cardinality(A) <= RenamesPerWindow
      BY <1>3, <3>2, <3>3, GivenFinite, TimeConstants DEF TimeConstants
    <3> QED BY <3>4 DEF A
  <2>2. ASSUME NEW t \in 0 .. MaxClock, Recent(t)
        PROVE  {s \in renames : s.at = t} = {s \in accepted \cup asked : s.at = t}
    BY <1>3, <2>2 DEF SlotInv, Given
  <2> QED BY <2>1, <2>2 DEF SlotsTell
<1> QED BY <1>1, <1>2, <1>3, PTL DEF Spec

-----------------------------------------------------------------------------
(* What a goroutine has to do.                                             *)

Ones == {"deleteEmpty", "forget", "rebuild"} \cup Commands
LockDos == {"lockEdit", "lockCommit", "postNotice"}
Dos == Ones \cup LockDos \cup
       {"noticed", "writeLock", "closeNotice", "unlockEdit", "unlockCommit", "end",
        "add", "addSend", "pick"}

Sections == [do : Dos, by : Members \cup {NoOne}, who : SUBSET Members,
             held : Locks \cup {NoLock, NoRow}]
Sectioned(s) ==
  /\ s \in Sections
  /\ s.do \in LockDos => s.by \in Members
  /\ s.do = "noticed" => s.held \in Locks
  /\ s.do = "writeLock" => s.held \in Locks \cup {NoLock}

(* Section t comes after section s.                                        *)
Follows(s, t) ==
  /\ s.do \notin Ones \cup {"end"}
  /\ s.do = "lockEdit" => t.do = "lockCommit" /\ t.by = s.by
  /\ s.do = "lockCommit" => t.do = "postNotice" /\ t.by = s.by
  /\ s.do = "noticed" => t.do = "writeLock" /\ t.held = s.held
  /\ s.do = "writeLock" => t.do = IF s.held = NoLock THEN "closeNotice" ELSE "end"
  /\ s.do = "unlockEdit" => t.do = "unlockCommit"
  /\ s.do = "addSend" => t.do \in {"add", "pick"}
  /\ s.do \in {"postNotice", "closeNotice", "unlockCommit", "add", "pick"} => t.do = "end"

Planned(q) ==
  /\ q \in Seq(Sections) /\ \A i \in 1 .. Len(q) : Sectioned(q[i])
  /\ \A i, j \in 1 .. Len(q) : j = i + 1 => Follows(q[i], q[j])
  /\ q # <<>> => q[Len(q)].do \in Ones \cup {"end", "add"}

(* A plan that ends an access change: of the goroutine that holds it.      *)
EndsOne(q) == q # <<>> /\ q[Len(q)].do = "end"
Holds(g) == EndsOne(run[g])

Rebuilding == sweepDue \/ At(Sweep, "rebuild")

AccessTypes ==
  /\ exists \in BOOLEAN /\ perms \in Lists /\ cache \in Lists
  /\ at \subseteq Members /\ occupants \subseteq Members /\ events \subseteq Members
  /\ open \subseteq 1 .. posted /\ posted \in Nat
  /\ updates \in Seq(Lists) /\ sweepDue \in BOOLEAN
  /\ hub \in [stands : BOOLEAN, locking : BOOLEAN] /\ tracked \in BOOLEAN
  /\ lock \in Locks \cup {NoLock} /\ row \in Locks \cup {NoLock, NoRow}
  /\ change = NoChange \/ change \subseteq Members
  /\ left \in [AccessKinds -> Nat] /\ spoilt \subseteq Wrongs /\ missed \subseteq Members
  /\ late \subseteq Members /\ loose \subseteq 1 .. posted
  /\ run \in [Goroutines -> Seq(Sections)]

Plans ==
  /\ \A g \in Goroutines : Planned(run[g])
  /\ ~Holds(Sweep) /\ (run[Sweep] # <<>> => Now(Sweep).do \notin Commands)
  /\ \A g \in Goroutines : Holds(g) => change # NoChange
  /\ \A g, h \in Goroutines : Holds(g) /\ Holds(h) => g = h
  /\ change # NoChange => \E g \in Goroutines : Holds(g)
  /\ ~tracked => occupants = {} /\ lock = NoLock

(* What a channel that exists has.                                         *)
Whole ==
  /\ row # NoRow
  /\ \A g \in Goroutines : ~At(g, "forget")
  /\ At(Sweep, "rebuild") => Now(Sweep).held # NoRow
  /\ ~tracked =>
       /\ Rebuilding /\ change = NoChange
       /\ \A g \in Calls : run[g] # <<>> => Now(g).do \in Commands
       /\ At(Sweep, "rebuild") => Now(Sweep).held = row

Phase(g) ==
  /\ At(g, "lockEdit") \/ At(g, "lockCommit") => lock = NoLock
  /\ At(g, "postNotice") => lock = [locker |-> Now(g).by, notice |-> NoNotice]
  /\ At(g, "noticed") => lock # NoLock
  /\ At(g, "writeLock") => lock = Now(g).held
  /\ At(g, "unlockEdit") \/ At(g, "unlockCommit") => lock # NoLock
  /\ At(g, "closeNotice") => lock = NoLock

RowDue(g) == At(g, "postNotice") \/ At(g, "noticed") \/ At(g, "writeLock")
RowRight == tracked => row = lock \/ \E g \in Goroutines : RowDue(g)

Stands == IF tracked THEN lock ELSE row
Closing(g) == At(g, "closeNotice") \/ (At(g, "writeLock") /\ Now(g).held = NoLock)
(* The notices with buttons that a lock is to have.                        *)
Bare == open \ loose
NoticeRight ==
  /\ \A g \in Goroutines : At(g, "noticed") => Bare \subseteq Of(Now(g).held)
  /\ \A g \in Goroutines : At(g, "closeNotice") => Bare \subseteq Of(Now(g).held)
  /\ \A g \in Goroutines : At(g, "writeLock") /\ Now(g).held = NoLock =>
                             Bare \subseteq Of(run[g][2].held)
  /\ (\A g \in Goroutines : ~At(g, "noticed") /\ ~Closing(g)) => Bare \subseteq Of(Stands)

Committing == \E g \in Goroutines : At(g, "lockCommit")
Opening == \E g \in Goroutines : At(g, "unlockCommit")
Shut == Committing \/ (Stands # NoLock /\ ~Opening)
(* Whom a section adds; NoOne stands for the members let in one by one.    *)
AddsOf(s) ==
  IF s.do \in {"add", "addSend"} THEN s.who ELSE {n \in {NoOne} : s.do = "pick"}
AddsIn(q, m) == \E i \in 1 .. Len(q) : m \in AddsOf(q[i])
Adds(m) == \E g \in Goroutines : AddsIn(run[g], m)
HoldersAdd ==
  \A g \in Goroutines : \A m \in Members \cup {NoOne} :
    Holds(g) /\ AddsIn(run[g], m) => lock # NoLock
(* A lock's edit names everyone inside but those who came after its check. *)
EditFull ==
  \A g \in Goroutines : At(g, "lockEdit") => occupants \subseteq Now(g).who \cup change

ButtonsRight ==
  /\ \A g \in Goroutines : At(g, "noticed") => Of(Now(g).held) \subseteq open
  /\ ~Opening => Of(Stands) \subseteq open

ListRight == IF Shut THEN perms.denied ELSE ~perms.denied /\ perms.guests \subseteq late
Covered(m) ==
  \/ m \in perms.guests
  \/ change # NoChange /\ m \in change
  \/ Adds(m) \/ Rebuilding
GuestsCovered == Shut => \A m \in occupants \ missed : Covered(m)

Heard == \A m \in at \ occupants : m \in events \/ Rebuilding

Lasting ==
  /\ Whole /\ Heard /\ (\A g \in Goroutines : Phase(g))
  /\ HoldersAdd /\ EditFull /\ NoticeRight

Told ==
  /\ exists => Lasting
  /\ exists /\ Sound({"row"}) => ButtonsRight
  /\ exists /\ Sound({"store"}) => RowRight
  /\ exists /\ Sound({"edit", "row"}) => ListRight /\ GuestsCovered

AccessInv == AccessTypes /\ Plans /\ Told

-----------------------------------------------------------------------------
(* Plans: sequences of sections.                                           *)

LEMMA PlanParts ==
  ASSUME NEW q, Planned(q)
  PROVE  /\ q \in Seq(Sections) /\ Len(q) \in Nat /\ (q = <<>> <=> Len(q) = 0)
         /\ \A i \in 1 .. Len(q) : q[i] \in Sections /\ Sectioned(q[i]) /\ q[i].do \in Dos
         /\ \A i \in 1 .. Len(q) : i + 1 <= Len(q) => Follows(q[i], q[i + 1])
         /\ q # <<>> => q[Len(q)].do \in Ones \cup {"end", "add"}
<1>1. q \in Seq(Sections) /\ Len(q) \in Nat
  BY DEF Planned
<1>2. q = <<>> <=> Len(q) = 0
  BY <1>1
<1>3. ASSUME NEW i \in 1 .. Len(q)
      PROVE  q[i] \in Sections /\ Sectioned(q[i]) /\ q[i].do \in Dos
  BY DEF Planned, Sectioned, Sections
<1>4. ASSUME NEW i \in 1 .. Len(q), i + 1 <= Len(q) PROVE Follows(q[i], q[i + 1])
  BY <1>1, <1>4 DEF Planned
<1> QED BY <1>1, <1>2, <1>3, <1>4 DEF Planned

LEMMA EmptyPlan == Planned(<<>>) /\ ~EndsOne(<<>>)
  BY DEF Planned, EndsOne

(* What is left of a plan after its first section.                         *)
LEMMA TailPlan ==
  ASSUME NEW q, Planned(q), q # <<>>
  PROVE  /\ Planned(Tail(q)) /\ Len(Tail(q)) = Len(q) - 1
         /\ \A i \in 1 .. Len(q) - 1 : Tail(q)[i] = q[i + 1]
         /\ q[1].do # "end" => (EndsOne(Tail(q)) <=> EndsOne(q))
         /\ q[1].do = "end" => Tail(q) = <<>>
         /\ q[1].do \in Ones => Tail(q) = <<>>
         /\ Tail(q) # <<>> => Tail(q)[1] = q[2] /\ Follows(q[1], q[2]) /\ Sectioned(q[2])
         /\ q[1].do \notin Ones \cup {"end", "add"} => Tail(q) # <<>>
<1> DEFINE t == Tail(q)
<1>1. q \in Seq(Sections) /\ Len(q) \in Nat /\ Len(q) > 0
  BY PlanParts
<1>2. t \in Seq(Sections) /\ Len(t) = Len(q) - 1 /\ \A i \in 1 .. Len(t) : t[i] = q[i + 1]
  BY <1>1
<1> HIDE DEF t
<1>3. t = <<>> <=> Len(t) = 0
  BY <1>2
<1>4. \A i \in 1 .. Len(t) : i + 1 \in 1 .. Len(q)
  BY <1>1, <1>2
<1>5. \A i \in 1 .. Len(t) : Sectioned(t[i])
  BY <1>2, <1>4, PlanParts
<1>6. ASSUME NEW i \in 1 .. Len(t), NEW j \in 1 .. Len(t), j = i + 1 PROVE Follows(t[i], t[j])
  BY <1>2, <1>4, <1>6 DEF Planned
<1>7. t # <<>> => Len(t) \in 1 .. Len(t) /\ t[Len(t)] = q[Len(q)] /\ 1 \in 1 .. Len(t) /\ t[1] = q[2]
                  /\ 1 + 1 <= Len(q) /\ 1 \in 1 .. Len(q) /\ 2 \in 1 .. Len(q)
  BY <1>1, <1>2, <1>3
<1>8. Planned(t)
  BY <1>2, <1>5, <1>6, <1>7, PlanParts DEF Planned
<1>9. t # <<>> => Follows(q[1], q[2]) /\ Sectioned(q[2])
  BY <1>7, PlanParts
<1>10. q[1].do \in Ones \cup {"end"} => t = <<>>
  BY <1>9 DEF Follows
<1>11. t = <<>> => Len(q) = 1 /\ q[1].do \in Ones \cup {"end", "add"}
  BY <1>1, <1>2, <1>3, PlanParts
<1>12. q[1].do # "end" => (EndsOne(t) <=> EndsOne(q))
  BY <1>7, <1>11 DEF EndsOne
<1> QED BY <1>2, <1>7, <1>8, <1>9, <1>10, <1>11, <1>12 DEF t

(* A section put before a plan.                                            *)
LEMMA PushPlan ==
  ASSUME NEW q, Planned(q), NEW s, Sectioned(s),
         IF q = <<>> THEN s.do \in Ones \cup {"end", "add"} ELSE Follows(s, q[1])
  PROVE  /\ Planned(<<s>> \o q) /\ <<s>> \o q # <<>> /\ (<<s>> \o q)[1] = s
         /\ Len(<<s>> \o q) = Len(q) + 1
         /\ \A i \in 1 .. Len(q) : (<<s>> \o q)[i + 1] = q[i]
         /\ \A i \in 2 .. Len(q) + 1 : (<<s>> \o q)[i] = q[i - 1]
         /\ EndsOne(<<s>> \o q) <=> IF q = <<>> THEN s.do = "end" ELSE EndsOne(q)
<1> DEFINE p == <<s>> \o q
<1>1. q \in Seq(Sections) /\ Len(q) \in Nat /\ s \in Sections
  BY PlanParts DEF Sectioned
<1>2. /\ p \in Seq(Sections) /\ Len(p) = Len(q) + 1 /\ p[1] = s
      /\ \A i \in 2 .. Len(q) + 1 : p[i] = q[i - 1]
  BY <1>1, ConcatProperties
<1> HIDE DEF p
<1>3. p # <<>>
  BY <1>1, <1>2
<1>4. \A i \in 1 .. Len(q) : p[i + 1] = q[i]
  BY <1>1, <1>2
<1>5. ASSUME NEW i \in 1 .. Len(p) PROVE Sectioned(p[i])
  BY <1>1, <1>2, PlanParts
<1>6. ASSUME NEW i \in 1 .. Len(p), NEW j \in 1 .. Len(p), j = i + 1 PROVE Follows(p[i], p[j])
  <2>1. CASE i = 1
    BY <1>1, <1>2, <1>6, <2>1
  <2>2. CASE i # 1
    BY <1>1, <1>2, <1>6, <2>2 DEF Planned
  <2> QED BY <2>1, <2>2
<1>7. p[Len(p)] = IF q = <<>> THEN s ELSE q[Len(q)]
  BY <1>1, <1>2, PlanParts
<1>8. Planned(p)
  BY <1>2, <1>5, <1>6, <1>7, PlanParts DEF Planned
<1>9. EndsOne(p) <=> IF q = <<>> THEN s.do = "end" ELSE EndsOne(q)
  BY <1>3, <1>7 DEF EndsOne
<1> QED BY <1>2, <1>3, <1>4, <1>8, <1>9 DEF p

LEMMA OnePlan ==
  ASSUME NEW s, Sectioned(s), s.do \in Ones \cup {"end", "add"}
  PROVE  /\ Planned(<<s>>) /\ <<s>> # <<>> /\ <<s>>[1] = s /\ Len(<<s>>) = 1
         /\ EndsOne(<<s>>) <=> s.do = "end"
  BY DEF Sectioned, Planned, EndsOne

(* A plan of an access change goes to the end of it.                       *)
ChangeDos == {"lockEdit", "lockCommit", "postNotice", "noticed", "writeLock",
              "closeNotice", "unlockEdit", "unlockCommit", "pick", "end"}
LEMMA ChangePlan ==
  ASSUME NEW q, Planned(q), q # <<>>, q[1].do \in ChangeDos
  PROVE  EndsOne(q)
<1>1. ASSUME NEW p, Planned(p), p # <<>>, p[1].do = "end" PROVE EndsOne(p)
  <2>1. Tail(p) = <<>>
    BY <1>1, TailPlan
  <2>2. Len(Tail(p)) = Len(p) - 1 /\ Len(p) \in Nat /\ Len(Tail(p)) = 0
    BY <1>1, <2>1, TailPlan, PlanParts, EmptyPlan
  <2>3. Len(p) = 1
    BY <2>2
  <2> QED BY <1>1, <2>3 DEF EndsOne
<1>2. ASSUME NEW p, Planned(p), p # <<>>,
             p[1].do \in {"closeNotice", "postNotice", "unlockCommit", "pick"}
      PROVE  EndsOne(p)
  <2>1. Tail(p) # <<>> /\ Planned(Tail(p)) /\ Tail(p)[1] = p[2] /\ Follows(p[1], p[2])
    BY <1>2, TailPlan DEF Ones, Commands
  <2>2. Tail(p)[1].do = "end"
    BY <1>2, <2>1 DEF Follows
  <2> QED BY <1>1, <1>2, <2>1, <2>2, TailPlan
<1>3. ASSUME NEW p, Planned(p), p # <<>>, p[1].do \in {"writeLock", "lockCommit", "unlockEdit"}
      PROVE  EndsOne(p)
  <2>1. Tail(p) # <<>> /\ Planned(Tail(p)) /\ Tail(p)[1] = p[2] /\ Follows(p[1], p[2])
    BY <1>3, TailPlan DEF Ones, Commands
  <2>2. Tail(p)[1].do \in {"end", "closeNotice", "postNotice", "unlockCommit"}
    BY <1>3, <2>1 DEF Follows
  <2> QED BY <1>1, <1>2, <1>3, <2>1, <2>2, TailPlan
<1>4. CASE q[1].do \in {"noticed", "lockEdit"}
  <2>1. Tail(q) # <<>> /\ Planned(Tail(q)) /\ Tail(q)[1] = q[2] /\ Follows(q[1], q[2])
    BY <1>4, TailPlan DEF Ones, Commands
  <2>2. Tail(q)[1].do \in {"writeLock", "lockCommit"}
    BY <1>4, <2>1 DEF Follows
  <2> QED BY <1>3, <1>4, <2>1, <2>2, TailPlan
<1> QED BY <1>1, <1>2, <1>3, <1>4 DEF ChangeDos

Basics == AccessTypes /\ Plans

LEMMA RunsOn ==
  ASSUME AccessTypes, NEW g \in Goroutines, NEW q, Planned(q), Becomes(g, q)
  PROVE  /\ run' \in [Goroutines -> Seq(Sections)] /\ run'[g] = q
         /\ \A h \in Goroutines : h # g => run'[h] = run[h]
  BY PlanParts DEF AccessTypes, Becomes

(* A step of g in its plan.                                                *)
LEMMA PlansGo ==
  ASSUME AccessTypes, Plans, NEW g \in Goroutines, NEW q, Planned(q), Becomes(g, q),
         EndsOne(q) <=> Holds(g), change' = NoChange <=> change = NoChange,
         ~tracked' => occupants' = {} /\ lock' = NoLock,
         g = Sweep /\ q # <<>> => q[1].do \notin Commands
  PROVE  Plans'
<1>1. run'[g] = q /\ \A h \in Goroutines : h # g => run'[h] = run[h]
  BY RunsOn
<1>2. \A h \in Goroutines : EndsOne(run'[h]) <=> Holds(h)
  BY <1>1 DEF Holds
<1>3. \A h \in Goroutines : Planned(run'[h])
  BY <1>1 DEF Plans
<1>4. Sweep \in Goroutines
  BY DEF Goroutines
<1>5. \A h \in Goroutines : Holds(h)' <=> Holds(h)
  BY <1>2 DEF Holds
<1>6. \A h \in Goroutines : Planned(run[h])'
  BY <1>3 DEF Planned, Sectioned, Sections, Follows
<1>7. run'[Sweep] # <<>> => run'[Sweep][1].do \notin Commands
  BY <1>1, <1>4 DEF Plans, Now
<1> QED BY <1>4, <1>5, <1>6, <1>7 DEF Plans, Now

(* g begins an access change.                                              *)
LEMMA PlansBegin ==
  ASSUME AccessTypes, Plans, NEW g \in Calls, NEW q, Planned(q), Becomes(g, q),
         EndsOne(q), change = NoChange, change' # NoChange,
         UNCHANGED <<tracked, occupants, lock>>
  PROVE  Plans'
<1>1. g \in Goroutines /\ g # Sweep /\ Sweep \in Goroutines
  BY AccessConstants DEF Goroutines, AccessConstants
<1>2. run'[g] = q /\ \A h \in Goroutines : h # g => run'[h] = run[h]
  BY <1>1, RunsOn
<1>3. \A h \in Goroutines : EndsOne(run'[h]) <=> h = g
  BY <1>2 DEF Holds, Plans
<1>4. \A h \in Goroutines : Planned(run'[h])
  BY <1>2 DEF Plans
<1>5. \A h \in Goroutines : Holds(h)' <=> h = g
  BY <1>3 DEF Holds
<1>6. \A h \in Goroutines : Planned(run[h])'
  BY <1>4 DEF Planned, Sectioned, Sections, Follows
<1>7. run'[Sweep] = run[Sweep]
  BY <1>1, <1>2
<1> QED BY <1>1, <1>5, <1>6, <1>7 DEF Plans, Now

(* g ends its access change.                                               *)
LEMMA PlansEnd ==
  ASSUME AccessTypes, Plans, NEW g \in Goroutines, Becomes(g, <<>>), Holds(g),
         change' = NoChange, UNCHANGED <<tracked, occupants, lock>>
  PROVE  Plans'
<1>1. run'[g] = <<>> /\ \A h \in Goroutines : h # g => run'[h] = run[h]
  BY RunsOn, EmptyPlan
<1>2. Sweep \in Goroutines
  BY DEF Goroutines
<1>3. \A h \in Goroutines : ~EndsOne(run'[h])
  BY <1>1, EmptyPlan DEF Holds, Plans
<1>4. \A h \in Goroutines : Planned(run'[h])
  BY <1>1, EmptyPlan DEF Plans
<1>5. \A h \in Goroutines : ~Holds(h)'
  BY <1>3 DEF Holds
<1>6. \A h \in Goroutines : Planned(run[h])'
  BY <1>4 DEF Planned, Sectioned, Sections, Follows
<1>7. run'[Sweep] # <<>> => run'[Sweep][1].do \notin Commands
  BY <1>1, <1>2 DEF Plans, Now
<1> QED BY <1>2, <1>5, <1>6, <1>7 DEF Plans, Now

(* The queues stay.                                                        *)
LEMMA PlansStay ==
  ASSUME Plans, run' = run, change' = NoChange <=> change = NoChange,
         ~tracked' => occupants' = {} /\ lock' = NoLock
  PROVE  Plans'
<1>1. \A h \in Goroutines : Planned(run'[h])
  BY DEF Plans
<1>2. \A h \in Goroutines : Planned(run[h])'
  BY <1>1 DEF Planned, Sectioned, Sections, Follows
<1>3. \A h \in Goroutines : Holds(h)' <=> Holds(h)
  BY DEF Holds, EndsOne
<1>4. Sweep \in Goroutines
  BY DEF Goroutines
<1> QED BY <1>2, <1>3, <1>4 DEF Plans, Now

(* A goroutine at a section: what comes next.                              *)
LEMMA Heads ==
  ASSUME AccessTypes, Plans, NEW g \in Goroutines, run[g] # <<>>
  PROVE  /\ Planned(run[g]) /\ Now(g) = run[g][1] /\ Sectioned(Now(g)) /\ Now(g) \in Sections
         /\ Now(g).do \in Dos /\ Now(g).who \subseteq Members
         /\ Planned(Tail(run[g]))
         /\ Now(g).do # "end" => (EndsOne(Tail(run[g])) <=> Holds(g))
         /\ Now(g).do \in ChangeDos => Holds(g)
         /\ Now(g).do \in Ones => ~Holds(g) /\ Tail(run[g]) = <<>>
         /\ Tail(run[g]) # <<>> => Follows(Now(g), Tail(run[g])[1]) /\ Sectioned(Tail(run[g])[1])
                                  /\ Tail(run[g])[1].do \notin Commands
         /\ Now(g).do \notin Ones \cup {"end", "add"} => Tail(run[g]) # <<>>
<1>1. Planned(run[g])
  BY DEF Plans
<1>2. Sectioned(Now(g)) /\ Now(g) \in Sections /\ Now(g) = run[g][1] /\ Now(g).do \in Dos
  BY <1>1, PlanParts DEF Now
<1>3. Planned(Tail(run[g])) /\ (Now(g).do # "end" => (EndsOne(Tail(run[g])) <=> Holds(g)))
      /\ (Now(g).do \in Ones => Tail(run[g]) = <<>>)
  BY <1>1, <1>2, TailPlan DEF Holds
<1>4. Now(g).do \in ChangeDos => Holds(g)
  BY <1>1, <1>2, ChangePlan DEF Holds
<1>5. Now(g).do \in Ones => ~Holds(g)
  BY <1>3, EmptyPlan DEF Ones, Commands
<1>6. Now(g).who \subseteq Members
  BY <1>2 DEF Sections
<1>7. /\ Tail(run[g]) # <<>> => Follows(Now(g), Tail(run[g])[1]) /\ Sectioned(Tail(run[g])[1])
      /\ Now(g).do \notin Ones \cup {"end", "add"} => Tail(run[g]) # <<>>
  BY <1>1, <1>2, TailPlan
<1>8. Tail(run[g]) # <<>> => Tail(run[g])[1].do \notin Commands
  BY <1>2, <1>7 DEF Follows, Dos, Ones, LockDos, Commands
<1> QED BY <1>1, <1>2, <1>3, <1>4, <1>5, <1>6, <1>7, <1>8

(* To the end: the last section of a change, which ends it.                *)
LEMMA LastPlan ==
  ASSUME AccessTypes, Plans, NEW g \in Goroutines, Holds(g)
  PROVE  /\ Planned(<<run[g][Len(run[g])]>>) /\ EndsOne(<<run[g][Len(run[g])]>>)
         /\ <<run[g][Len(run[g])]>>[1].do = "end"
  BY PlanParts, OnePlan DEF Plans, Holds, EndsOne

LEMMA LeftInNat ==
  ASSUME AccessTypes, NEW kind \in AccessKinds, Uses(kind)
  PROVE  left' \in [AccessKinds -> Nat]
  BY DEF AccessTypes, Uses

(* Goroutine g goes on: with everything it may leave alone.                *)
LEMMA Direction ==
  ASSUME AccessTypes, Plans, NEW g \in Goroutines
  PROVE  Direct(g) <=> ~Holds(g)
  BY PlanParts DEF Plans, Direct, Holds, EndsOne, Follows

(* A sequence of few elements, put together.                              *)
LEMMA Consed ==
  ASSUME NEW a, NEW b, NEW c, NEW d
  PROVE  /\ <<a>> \o <<b>> = <<a, b>>
         /\ <<a>> \o <<b, c>> = <<a, b, c>>
         /\ <<a>> \o <<b, c, d>> = <<a, b, c, d>>
<1> DEFINE S == {a, b, c, d}
<1>1. a \in S /\ b \in S /\ c \in S /\ d \in S
  OBVIOUS
<1> HIDE DEF S
<1>2. /\ <<a>> \in Seq(S) /\ <<b>> \in Seq(S) /\ <<b, c>> \in Seq(S) /\ <<b, c, d>> \in Seq(S)
      /\ <<a, b>> \in Seq(S) /\ <<a, b, c>> \in Seq(S) /\ <<a, b, c, d>> \in Seq(S)
  BY <1>1
<1>3. <<a>> \o <<b>> = <<a, b>>
  <2>1. Len(<<a>> \o <<b>>) = 2 /\ (<<a>> \o <<b>>)[1] = a /\ (<<a>> \o <<b>>)[2] = b /\ <<a>> \o <<b>> \in Seq(S)
    BY <1>2, ConcatProperties
  <2>2. \A i \in 1 .. 2 : i = 1 \/ i = 2
    OBVIOUS
  <2>3. Len(<<a, b>>) = 2 /\ <<a, b>>[1] = a /\ <<a, b>>[2] = b
    OBVIOUS
  <2>4. \A i \in 1 .. Len(<<a>> \o <<b>>) : (<<a>> \o <<b>>)[i] = <<a, b>>[i]
    BY <2>1, <2>2, <2>3
  <2> QED BY <1>2, <2>1, <2>3, <2>4, SeqEqual
<1>4. <<a>> \o <<b, c>> = <<a, b, c>>
  <2>1. Len(<<a>> \o <<b, c>>) = 3 /\ (<<a>> \o <<b, c>>)[1] = a /\ (<<a>> \o <<b, c>>)[2] = b
       /\ (<<a>> \o <<b, c>>)[3] = c /\ <<a>> \o <<b, c>> \in Seq(S)
    BY <1>2, ConcatProperties
  <2>2. \A i \in 1 .. 3 : i = 1 \/ i = 2 \/ i = 3
    OBVIOUS
  <2>3. Len(<<a, b, c>>) = 3 /\ <<a, b, c>>[1] = a /\ <<a, b, c>>[2] = b /\ <<a, b, c>>[3] = c
    OBVIOUS
  <2>4. \A i \in 1 .. Len(<<a>> \o <<b, c>>) : (<<a>> \o <<b, c>>)[i] = <<a, b, c>>[i]
    BY <2>1, <2>2, <2>3
  <2> QED BY <1>2, <2>1, <2>3, <2>4, SeqEqual
<1>5. <<a>> \o <<b, c, d>> = <<a, b, c, d>>
  <2>1. Len(<<a>> \o <<b, c, d>>) = 4 /\ (<<a>> \o <<b, c, d>>)[1] = a /\ (<<a>> \o <<b, c, d>>)[2] = b
       /\ (<<a>> \o <<b, c, d>>)[3] = c /\ (<<a>> \o <<b, c, d>>)[4] = d /\ <<a>> \o <<b, c, d>> \in Seq(S)
    BY <1>2, ConcatProperties
  <2>2. \A i \in 1 .. 4 : i = 1 \/ i = 2 \/ i = 3 \/ i = 4
    OBVIOUS
  <2>3. Len(<<a, b, c, d>>) = 4 /\ <<a, b, c, d>>[1] = a /\ <<a, b, c, d>>[2] = b /\ <<a, b, c, d>>[3] = c /\ <<a, b, c, d>>[4] = d
    OBVIOUS
  <2>4. \A i \in 1 .. Len(<<a>> \o <<b, c, d>>) : (<<a>> \o <<b, c, d>>)[i] = <<a, b, c, d>>[i]
    BY <2>1, <2>2, <2>3
  <2> QED BY <1>2, <2>1, <2>3, <2>4, SeqEqual
<1> QED BY <1>3, <1>4, <1>5

LEMMA PushOn ==
  ASSUME NEW q, Planned(q), q # <<>>, EndsOne(q), NEW s, Sectioned(s), Follows(s, q[1])
  PROVE  Planned(<<s>> \o q) /\ EndsOne(<<s>> \o q)
  BY PushPlan

(* A section of these kinds, made by the module.                           *)
LEMMA Made ==
  ASSUME NEW do \in Dos, NEW by \in Members \cup {NoOne}, NEW who \in SUBSET Members,
         NEW held \in Locks \cup {NoLock, NoRow},
         do \in LockDos => by \in Members,
         do = "noticed" => held \in Locks,
         do = "writeLock" => held \in Locks \cup {NoLock}
  PROVE  LET s == Section(do, by, who, held)
         IN Sectioned(s) /\ s.do = do /\ s.by = by /\ s.who = who /\ s.held = held
<1> DEFINE s == Section(do, by, who, held)
<1>1. s.do = do /\ s.by = by /\ s.who = who /\ s.held = held /\ s \in Sections
  BY DEF Section, Sections
<1> HIDE DEF s
<1>2. Sectioned(s)
  BY <1>1 DEF Sectioned
<1> QED BY <1>1, <1>2 DEF s

LEMMA MadeTodo ==
  ASSUME NEW do \in Dos \ (LockDos \cup {"noticed"}), NEW who \in SUBSET Members
  PROVE  LET s == Todo(do, who)
         IN Sectioned(s) /\ s.do = do /\ s.who = who /\ s.held = NoLock
  BY Made DEF Todo

LEMMA MemberOrNoOne == Members \subseteq Members \cup {NoOne} /\ {} \in SUBSET Members
  OBVIOUS

(* The plan of a lock, of an unlock and of a let-in.                       *)
LEMMA BegunPlan ==
  ASSUME AccessTypes, Plans, NEW g \in Calls, run[g] # <<>>, Now(g).do \in Commands,
         NEW s, s = Now(g),
         \/ s.do = "lock" /\ s.by \in Members /\ BeginLock(g, s)
         \/ s.do = "letIn" /\ BeginLetIn(g, s)
         \/ s.do \in {"unlock", "button"} /\ BeginUnlock(g, s)
  PROVE  \E q : /\ Planned(q) /\ EndsOne(q) /\ q # <<>> /\ Becomes(g, q)
                /\ \/ s.do = "lock" /\ q[1] = Section("lockEdit", s.by, LockedList(Inside).guests, NoLock)
                   \/ s.do = "letIn" /\ q[1].do = "pick"
                   \/ s.do \in {"unlock", "button"} /\ q[1].do = "unlockEdit"
                /\ \A i \in 1 .. Len(q) : q[i].do \notin {"add", "addSend"}
<1>0. g \in Goroutines /\ s \in Sections
  BY Heads DEF Goroutines
<1>1. Sectioned(Todo("end", {})) /\ Todo("end", {}).do = "end"
  BY MadeTodo DEF Dos, Ones, LockDos, Commands
<1>e. Planned(<<Todo("end", {})>>) /\ EndsOne(<<Todo("end", {})>>)
      /\ <<Todo("end", {})>> # <<>> /\ <<Todo("end", {})>>[1] = Todo("end", {})
  BY <1>1, OnePlan
<1>2. CASE s.do = "lock" /\ s.by \in Members /\ BeginLock(g, s)
  <2> DEFINE e == Section("lockEdit", s.by, LockedList(Inside).guests, NoLock)
             c == Section("lockCommit", s.by, {}, NoLock)
             n == Section("postNotice", s.by, {}, NoLock)
             d == Todo("end", {})
  <2>1. LockedList(Inside).guests \in SUBSET Members
    BY DEF LockedList, Inside, AccessTypes, Lists
  <2>2. /\ Sectioned(e) /\ e.do = "lockEdit" /\ e.by = s.by
        /\ Sectioned(c) /\ c.do = "lockCommit" /\ c.by = s.by
        /\ Sectioned(n) /\ n.do = "postNotice" /\ n.by = s.by
    BY <1>2, <2>1, Made DEF Dos, Ones, LockDos, Commands
  <2> HIDE DEF e, c, n, d
  <2>3. d.do = "end" /\ Planned(<<d>>) /\ EndsOne(<<d>>) /\ <<d>> # <<>> /\ <<d>>[1] = d
    BY <1>1, <1>e DEF d
  <2>4. Planned(<<n, d>>) /\ EndsOne(<<n, d>>) /\ <<n, d>> # <<>> /\ <<n, d>>[1] = n
    <3>1. Follows(n, <<d>>[1])
      BY <2>2, <2>3 DEF Follows, Ones, Commands
    <3>2. Planned(<<n>> \o <<d>>) /\ EndsOne(<<n>> \o <<d>>)
      BY <2>2, <2>3, <3>1, PushOn
    <3> QED BY <3>2, Consed
  <2>5. Planned(<<c, n, d>>) /\ EndsOne(<<c, n, d>>) /\ <<c, n, d>> # <<>> /\ <<c, n, d>>[1] = c
    <3>1. Follows(c, <<n, d>>[1])
      BY <2>2, <2>4 DEF Follows, Ones, Commands
    <3>2. Planned(<<c>> \o <<n, d>>) /\ EndsOne(<<c>> \o <<n, d>>)
      BY <2>2, <2>4, <3>1, PushOn
    <3> QED BY ZenonT(30), <3>2, Consed
  <2>6. Planned(<<e, c, n, d>>) /\ EndsOne(<<e, c, n, d>>) /\ <<e, c, n, d>> # <<>> /\ <<e, c, n, d>>[1] = e
    <3>1. Follows(e, <<c, n, d>>[1])
      BY <2>2, <2>5 DEF Follows, Ones, Commands
    <3>2. Planned(<<c, n, d>>) /\ EndsOne(<<c, n, d>>) /\ <<c, n, d>> # <<>> /\ Sectioned(e)
      BY <2>2, <2>5
    <3>3. Planned(<<e>> \o <<c, n, d>>) /\ EndsOne(<<e>> \o <<c, n, d>>)
      BY <3>1, <3>2, PushOn
    <3>4. <<e>> \o <<c, n, d>> = <<e, c, n, d>>
      BY ZenonT(60), Consed
    <3>5. <<e, c, n, d>> # <<>> /\ <<e, c, n, d>>[1] = e
      OBVIOUS
    <3> QED BY <3>3, <3>4, <3>5
  <2>8. Becomes(g, <<e, c, n, d>>)
    BY <1>2 DEF BeginLock, e, c, n, d
  <2>9. <<e, c, n, d>> # <<>> /\ <<e, c, n, d>>[1] = e /\ Len(<<e, c, n, d>>) = 4
        /\ <<e, c, n, d>>[2] = c /\ <<e, c, n, d>>[3] = n /\ <<e, c, n, d>>[4] = d
    OBVIOUS
  <2>10. \A i \in 1 .. Len(<<e, c, n, d>>) : <<e, c, n, d>>[i].do \notin {"add", "addSend"}
    BY <2>2, <2>3, <2>9
  <2> QED BY <1>2, <2>6, <2>8, <2>9, <2>10 DEF e
<1>3. CASE s.do = "letIn" /\ BeginLetIn(g, s)
  <2> DEFINE p == Todo("pick", s.who)
             d == Todo("end", {})
  <2>1. Sectioned(p) /\ p.do = "pick"
    BY <1>0, MadeTodo DEF Dos, Ones, LockDos, Commands, Sections
  <2> HIDE DEF p, d
  <2>3. d.do = "end" /\ Planned(<<d>>) /\ EndsOne(<<d>>) /\ <<d>> # <<>> /\ <<d>>[1] = d
    BY <1>1, <1>e DEF d
  <2>4. Planned(<<p, d>>) /\ EndsOne(<<p, d>>) /\ <<p, d>> # <<>> /\ <<p, d>>[1] = p
    <3>1. Follows(p, <<d>>[1])
      BY <2>1, <2>3 DEF Follows, Ones, Commands
    <3>2. Planned(<<p>> \o <<d>>) /\ EndsOne(<<p>> \o <<d>>)
      BY <2>1, <2>3, <3>1, PushOn
    <3> QED BY <3>2, Consed
  <2>5. <<p, d>> # <<>> /\ <<p, d>>[1] = p /\ <<p, d>>[2] = d /\ Len(<<p, d>>) = 2
    OBVIOUS
  <2>6. \A i \in 1 .. Len(<<p, d>>) : <<p, d>>[i].do \notin {"add", "addSend"}
    BY <2>1, <2>3, <2>5
  <2> QED BY <1>3, <2>1, <2>4, <2>5, <2>6 DEF BeginLetIn, p, d
<1>4. CASE s.do \in {"unlock", "button"} /\ BeginUnlock(g, s)
  <2> DEFINE u == Todo("unlockEdit", {})
             c == Todo("unlockCommit", {})
             d == Todo("end", {})
  <2>1. Sectioned(u) /\ u.do = "unlockEdit" /\ Sectioned(c) /\ c.do = "unlockCommit"
    BY MadeTodo DEF Dos, Ones, LockDos, Commands
  <2> HIDE DEF u, c, d
  <2>3. d.do = "end" /\ Planned(<<d>>) /\ EndsOne(<<d>>) /\ <<d>> # <<>> /\ <<d>>[1] = d
    BY <1>1, <1>e DEF d
  <2>4. Planned(<<c, d>>) /\ EndsOne(<<c, d>>) /\ <<c, d>> # <<>> /\ <<c, d>>[1] = c
    <3>1. Follows(c, <<d>>[1])
      BY <2>1, <2>3 DEF Follows, Ones, Commands
    <3>2. Planned(<<c>> \o <<d>>) /\ EndsOne(<<c>> \o <<d>>)
      BY <2>1, <2>3, <3>1, PushOn
    <3> QED BY <3>2, Consed
  <2>5. Planned(<<u, c, d>>) /\ EndsOne(<<u, c, d>>) /\ <<u, c, d>> # <<>> /\ <<u, c, d>>[1] = u
    <3>1. Follows(u, <<c, d>>[1])
      BY <2>1, <2>4 DEF Follows, Ones, Commands
    <3>2. Planned(<<u>> \o <<c, d>>) /\ EndsOne(<<u>> \o <<c, d>>)
      BY <2>1, <2>4, <3>1, PushOn
    <3> QED BY <3>2, Consed
  <2>6. <<u, c, d>> # <<>> /\ <<u, c, d>>[1] = u /\ <<u, c, d>>[2] = c /\ <<u, c, d>>[3] = d
        /\ Len(<<u, c, d>>) = 3
    OBVIOUS
  <2>7. \A i \in 1 .. Len(<<u, c, d>>) : <<u, c, d>>[i].do \notin {"add", "addSend"}
    BY <2>1, <2>3, <2>6
  <2> QED BY <1>4, <2>1, <2>5, <2>6, <2>7 DEF BeginUnlock, u, c, d
<1> QED BY <1>2, <1>3, <1>4

-----------------------------------------------------------------------------
(* What each step keeps of the types and the plans.                        *)

(* g drops its first section, or goes to the end of its change.            *)
LEMMA GoesPlan ==
  ASSUME Basics, NEW g \in Goroutines, run[g] # <<>>, Now(g).do # "end", Goes(g),
         change' = NoChange <=> change = NoChange,
         ~tracked' => occupants' = {} /\ lock' = NoLock
  PROVE  Plans' /\ run' \in [Goroutines -> Seq(Sections)]
  BY Heads, PlansGo, RunsOn DEF Basics, Goes

LEMMA ToTheEndPlan ==
  ASSUME Basics, NEW g \in Goroutines, run[g] # <<>>, Holds(g), ToTheEnd(g),
         change' = NoChange <=> change = NoChange,
         ~tracked' => occupants' = {} /\ lock' = NoLock
  PROVE  Plans' /\ run' \in [Goroutines -> Seq(Sections)]
<1> USE DEF Basics
<1> DEFINE q == <<run[g][Len(run[g])]>>
<1>1. Planned(q) /\ EndsOne(q) /\ q[1].do = "end" /\ Becomes(g, q)
  BY LastPlan DEF ToTheEnd
<1> HIDE DEF q
<1>2. q[1].do \notin Commands
  BY <1>1 DEF Commands
<1> QED BY <1>1, <1>2, PlansGo, RunsOn

(* Goroutine g takes a plan, its change as it was.                         *)
LEMMA TakesPlan ==
  ASSUME Basics, NEW g \in Goroutines, NEW q, Planned(q), Becomes(g, q),
         EndsOne(q) <=> Holds(g), change' = NoChange <=> change = NoChange,
         ~tracked' => occupants' = {} /\ lock' = NoLock,
         q # <<>> => q[1].do \notin Commands
  PROVE  Plans' /\ run' \in [Goroutines -> Seq(Sections)]
  BY PlansGo, RunsOn DEF Basics

LEMMA Untrack ==
  ASSUME Untracked
  PROVE  ~tracked' /\ occupants' = {} /\ lock' = NoLock
  BY DEF Untracked

LEMMA NotAChange == \A who \in SUBSET Members : who # NoChange
  BY NoValues DEF NoValues

LEMMA AccessBasics ==
  ASSUME Basics, NEW g \in Goroutines, Access(g)
  PROVE  Basics'
<1> USE DEF Basics
<1>1. run[g] # <<>> /\ Now(g).do \in Commands
  BY DEF Access
<1>2. g \in Calls
  BY <1>1 DEF Plans, Goroutines
<1>3. /\ UNCHANGED <<exists, perms, at, open, posted, cache, updates, events, sweepDue, hub,
                     tracked, occupants, lock, row, left, spoilt, missed, late, loose>>
  BY DEF Access, outside, gateway, budget, own
<1>4. CASE Goes(g) /\ change' = change
  <2>1. Now(g).do # "end" /\ (~tracked' => occupants' = {} /\ lock' = NoLock)
    BY <1>1, <1>3 DEF Commands, Plans
  <2>2. Plans' /\ run' \in [Goroutines -> Seq(Sections)]
    BY <1>1, <1>4, <2>1, GoesPlan
  <2> QED BY <1>3, <1>4, <2>2 DEF AccessTypes
<1>5. CASE /\ May(Now(g).do, Now(g).by) /\ Idle /\ change' = {}
           /\ \/ Now(g).do = "lock" /\ BeginLock(g, Now(g))
              \/ Now(g).do = "letIn" /\ BeginLetIn(g, Now(g))
              \/ Now(g).do \in {"unlock", "button"} /\ BeginUnlock(g, Now(g))
  BY SMTT(30), <1>1, <1>2, <1>3, <1>5, BegunPlan, NotAChange, PlansBegin, RunsOn DEF May,
     AccessTypes, Idle
<1> QED BY <1>1, <1>4, <1>5 DEF Access, Commands

LEMMA EditBasics ==
  ASSUME Basics, NEW g \in Goroutines, Edit(g)
  PROVE  Basics'
<1> USE DEF Basics
<1>1. run[g] # <<>> /\ Now(g).do \in {"lockEdit", "unlockEdit"}
  BY DEF Edit
<1>2. Now(g).do # "end" /\ Holds(g) /\ Now(g).who \subseteq Members
  BY <1>1, Heads DEF ChangeDos
<1> DEFINE list == IF Now(g).do = "lockEdit"
                   THEN [denied |-> TRUE, guests |-> Now(g).who] ELSE Source
<1>3. list \in Lists
  BY <1>2 DEF Lists, Source
<1>4. \/ /\ exists /\ perms' = list /\ cache' = list /\ updates' = Append(updates, list)
         /\ spoilt' = spoilt \ {"edit", "row"} /\ late' = {} /\ missed' = missed \ list.guests
         /\ Goes(g) /\ UNCHANGED <<tracked, occupants, lock, row, left, loose>>
      \/ /\ exists /\ Spend("refuse") /\ ToTheEnd(g)
         /\ UNCHANGED <<perms, cache, updates, tracked, occupants, lock, row>>
      \/ /\ exists /\ Uses("lost") /\ ToTheEnd(g)
         /\ perms' = list /\ updates' = Append(updates, list)
         /\ spoilt' = spoilt \cup {"edit"} /\ late' = {}
         /\ UNCHANGED <<cache, tracked, occupants, lock, row, missed, loose>>
      \/ /\ ~exists /\ Untracked /\ row' = NoRow /\ ToTheEnd(g)
         /\ UNCHANGED <<perms, cache, updates, budget>>
  BY DEF Edit
<1>5. UNCHANGED <<exists, at, open, posted, events, sweepDue, hub, change>>
  BY DEF Edit
<1> HIDE DEF list
<1>6. Append(updates, list) \in Seq(Lists)
  BY <1>3 DEF AccessTypes
<1>7. perms' \in Lists /\ cache' \in Lists /\ updates' \in Seq(Lists)
  BY <1>3, <1>4, <1>6 DEF AccessTypes
<1>8. /\ left' \in [AccessKinds -> Nat] /\ spoilt' \subseteq Wrongs
      /\ missed' \subseteq Members /\ late' \subseteq Members /\ loose' = loose
  BY <1>4, LeftInNat DEF AccessTypes, AccessKinds, Wrongs, Spend, budget, own
<1>9. ~tracked' => occupants' = {} /\ lock' = NoLock
  BY <1>4, Untrack DEF Plans
<1>10. Plans' /\ run' \in [Goroutines -> Seq(Sections)]
  BY <1>1, <1>2, <1>4, <1>5, <1>9, GoesPlan, ToTheEndPlan
<1>11. tracked' \in BOOLEAN /\ occupants' \subseteq Members /\ lock' \in Locks \cup {NoLock}
       /\ row' \in Locks \cup {NoLock, NoRow}
  BY <1>4 DEF AccessTypes, Untracked
<1> QED BY <1>5, <1>7, <1>8, <1>10, <1>11 DEF AccessTypes

LEMMA CommitBasics ==
  ASSUME Basics, NEW g \in Goroutines, LockCommit(g)
  PROVE  Basics'
<1> USE DEF Basics
<1>1. run[g] # <<>> /\ Now(g).do = "lockCommit"
  BY DEF LockCommit, At
<1>2. Now(g).do # "end" /\ Holds(g) /\ Now(g).by \in Members
  BY <1>1, Heads DEF ChangeDos, Sectioned, LockDos
<1>3. UNCHANGED <<exists, perms, at, open, posted, cache, updates, events, sweepDue, hub,
                  tracked, occupants, change, row, left, spoilt, missed, late, loose>>
  BY DEF LockCommit, outside, gateway, budget, own
<1>4. \/ tracked /\ lock' = [locker |-> Now(g).by, notice |-> NoNotice] /\ Goes(g)
      \/ ~tracked /\ lock' = lock /\ ToTheEnd(g)
  BY DEF LockCommit
<1>5. lock' \in Locks \cup {NoLock}
  BY <1>2, <1>4 DEF Locks, AccessTypes
<1>6. ~tracked' => occupants' = {} /\ lock' = NoLock
  BY <1>3, <1>4 DEF Plans
<1>7. Plans' /\ run' \in [Goroutines -> Seq(Sections)]
  BY <1>1, <1>2, <1>3, <1>4, <1>6, GoesPlan, ToTheEndPlan
<1> QED BY <1>3, <1>5, <1>7 DEF AccessTypes

LEMMA EmptyLen == Len(<<>>) = 0
OBVIOUS

(* Two sections put before a plan.                                         *)
LEMMA TwoPlan ==
  ASSUME NEW q, Planned(q), q # <<>>, NEW a, NEW b, Sectioned(a), Sectioned(b),
         Follows(a, b), Follows(b, q[1]), NEW p, p = <<a, b>> \o q
  PROVE  /\ Planned(p) /\ (EndsOne(p) <=> EndsOne(q)) /\ p # <<>> /\ p[1] = a /\ p[2] = b
         /\ Tail(p) # <<>> /\ Tail(p)[1] = b
         /\ Len(p) = Len(q) + 2 /\ \A i \in 1 .. Len(q) : p[i + 2] = q[i]
<1> DEFINE r == <<b>> \o q
<1>1. Planned(r) /\ (EndsOne(r) <=> EndsOne(q)) /\ r # <<>> /\ r[1] = b /\ Len(r) = Len(q) + 1
      /\ \A i \in 1 .. Len(q) : r[i + 1] = q[i]
  BY PushPlan
<1>2. p = <<a>> \o r
  <2>1. <<a>> \in Seq(Sections) /\ <<b>> \in Seq(Sections) /\ q \in Seq(Sections)
    BY PlanParts DEF Sectioned
  <2>2. <<a>> \o (<<b>> \o q) = (<<a>> \o <<b>>) \o q
    BY <2>1, ConcatAssociative
  <2> QED BY <2>2, Consed
<1> HIDE DEF r
<1>3. /\ Planned(p) /\ (EndsOne(p) <=> EndsOne(r)) /\ p # <<>> /\ p[1] = a /\ Len(p) = Len(r) + 1
      /\ \A i \in 1 .. Len(r) : p[i + 1] = r[i]
  <2> DEFINE u == <<a>> \o r
  <2>1. Follows(a, r[1])
    BY <1>1
  <2>2. /\ Planned(u) /\ (EndsOne(u) <=> EndsOne(r)) /\ u # <<>> /\ u[1] = a /\ Len(u) = Len(r) + 1
        /\ \A i \in 1 .. Len(r) : u[i + 1] = r[i]
    BY <1>1, <2>1, PushPlan
  <2> HIDE DEF u
  <2>3. p = u
    BY <1>2 DEF u
  <2> QED BY <2>2, <2>3
<1>4. Len(q) \in Nat /\ Len(q) > 0
  BY PlanParts
<1>5. p[2] = b
  BY <1>1, <1>3, <1>4
<1>6. ASSUME NEW i \in 1 .. Len(q) PROVE p[i + 2] = q[i]
  BY <1>1, <1>3, <1>4
<1>7. Tail(p) # <<>> /\ Tail(p)[1] = b
  BY SMTT(30), <1>1, <1>3, <1>4, <1>5, TailPlan, PlanParts
<1>8. Len(p) = Len(q) + 2
  BY <1>1, <1>3, <1>4
<1> QED BY <1>1, <1>3, <1>5, <1>6, <1>7, <1>8

(* What an unlock has to do after its commit.                              *)
LEMMA UnlockPlan ==
  ASSUME Basics, NEW g \in Goroutines, At(g, "unlockCommit")
  PROVE  LET w == Section("writeLock", NoOne, {}, NoLock)
             c == Section("closeNotice", NoOne, {}, lock)
             q == <<w, c>> \o Tail(run[g])
         IN /\ Planned(q) /\ EndsOne(q) /\ q # <<>> /\ Holds(g)
            /\ q[1] = w /\ q[2] = c /\ w.do = "writeLock" /\ w.held = NoLock
            /\ c.do = "closeNotice" /\ c.held = lock
            /\ \A i \in 1 .. Len(q) : q[i].do \notin {"add", "addSend"}
<1> USE DEF Basics
<1> DEFINE w == Section("writeLock", NoOne, {}, NoLock)
           c == Section("closeNotice", NoOne, {}, lock)
           t == Tail(run[g])
           q == <<w, c>> \o t
<1>1. run[g] # <<>> /\ Now(g).do = "unlockCommit"
  BY DEF At
<1>2. Holds(g) /\ Planned(t) /\ EndsOne(t) /\ t # <<>> /\ Follows(Now(g), t[1])
  BY <1>1, Heads DEF ChangeDos, Ones, Commands
<1>3. t[1].do = "end"
  BY <1>1, <1>2 DEF Follows
<1>4. Sectioned(w) /\ w.do = "writeLock" /\ w.held = NoLock
  BY Made DEF Dos, LockDos, Ones, Commands
<1>5. lock \in Locks \cup {NoLock, NoRow}
  BY DEF AccessTypes
<1>6. Sectioned(c) /\ c.do = "closeNotice" /\ c.held = lock
  BY <1>5, Made DEF Dos, LockDos, Ones, Commands
<1> HIDE DEF w, c, t
<1>7. Follows(w, c) /\ Follows(c, t[1])
  BY <1>3, <1>4, <1>6 DEF Follows, Ones, Commands
<1>8. Len(t) = 1
  <2>1. Tail(t) = <<>> /\ Len(Tail(t)) = Len(t) - 1 /\ Len(t) \in Nat
    BY <1>2, <1>3, TailPlan, PlanParts
  <2>2. Len(Tail(t)) = 0
    BY <2>1, EmptyLen
  <2> QED BY <2>1, <2>2
<1>9. /\ Planned(q) /\ (EndsOne(q) <=> EndsOne(t)) /\ q # <<>> /\ q[1] = w /\ q[2] = c
      /\ Len(q) = 3 /\ q[3] = t[1]
  <2>1. Len(t) + 2 = 3 /\ 1 \in 1 .. Len(t) /\ 1 + 2 = 3
    BY <1>8
  <2>2. /\ Planned(q) /\ (EndsOne(q) <=> EndsOne(t)) /\ q # <<>> /\ q[1] = w /\ q[2] = c
        /\ Len(q) = Len(t) + 2 /\ \A i \in 1 .. Len(t) : q[i + 2] = t[i]
    <3>1. q = <<w, c>> \o t
      OBVIOUS
    <3> HIDE DEF q
    <3>2. Planned(t) /\ t # <<>> /\ Sectioned(w) /\ Sectioned(c) /\ Follows(w, c) /\ Follows(c, t[1])
      BY <1>2, <1>4, <1>6, <1>7
    <3>3. Planned(q) /\ (EndsOne(q) <=> EndsOne(t))
      BY <3>1, <3>2, TwoPlan
    <3>4. Len(q) = Len(t) + 2 /\ \A i \in 1 .. Len(t) : q[i + 2] = t[i]
      BY <3>1, <3>2, TwoPlan
    <3>5. q # <<>> /\ q[1] = w /\ q[2] = c
      BY <3>1, <3>2, TwoPlan
    <3> QED BY <3>3, <3>4, <3>5
  <2> QED BY <2>1, <2>2
<1> HIDE DEF q
<1>10. \A i \in 1 .. Len(q) : q[i].do \notin {"add", "addSend"}
  BY <1>3, <1>4, <1>6, <1>9
<1> QED BY <1>2, <1>4, <1>6, <1>9, <1>10 DEF q, w, c, t

(* What a lock has to do once its notice is posted, or is not.             *)
LEMMA PostedPlan ==
  ASSUME Basics, NEW g \in Goroutines, At(g, "postNotice"), NEW n \in Nat \cup {NoNotice}
  PROVE  LET held == [locker |-> Now(g).by, notice |-> n]
             m == Section("noticed", NoOne, {}, held)
             w == Section("writeLock", NoOne, {}, held)
             q == <<m, w>> \o Tail(run[g])
         IN /\ Planned(q) /\ EndsOne(q) /\ q # <<>> /\ Holds(g)
            /\ q[1] = m /\ m.do = "noticed" /\ m.held = held /\ held \in Locks /\ held.notice = n
            /\ \A i \in 1 .. Len(q) : q[i].do \notin {"add", "addSend"}
<1> USE DEF Basics
<1> DEFINE held == [locker |-> Now(g).by, notice |-> n]
           m == Section("noticed", NoOne, {}, held)
           w == Section("writeLock", NoOne, {}, held)
           t == Tail(run[g])
           q == <<m, w>> \o t
<1>1. run[g] # <<>> /\ Now(g).do = "postNotice"
  BY DEF At
<1>2. /\ Holds(g) /\ Planned(t) /\ EndsOne(t) /\ t # <<>> /\ Follows(Now(g), t[1])
      /\ Now(g).by \in Members
  BY <1>1, Heads DEF ChangeDos, Ones, Commands, Sectioned, LockDos
<1>3. t[1].do = "end"
  BY <1>1, <1>2 DEF Follows
<1>4. held \in Locks /\ held.notice = n /\ held # NoLock
  BY <1>2, NoValues DEF Locks, Notices, NoValues
<1> HIDE DEF held
<1>5. Sectioned(w) /\ w.do = "writeLock" /\ w.held = held
  BY <1>4, Made DEF Dos, LockDos, Ones, Commands
<1>6. Sectioned(m) /\ m.do = "noticed" /\ m.held = held
  BY <1>4, Made DEF Dos, LockDos, Ones, Commands
<1> HIDE DEF m, w, t
<1>7. Follows(m, w) /\ Follows(w, t[1])
  BY <1>3, <1>4, <1>5, <1>6 DEF Follows, Ones, Commands
<1>8. Len(t) = 1
  <2>1. Tail(t) = <<>> /\ Len(Tail(t)) = Len(t) - 1 /\ Len(t) \in Nat
    BY <1>2, <1>3, TailPlan, PlanParts
  <2>2. Len(Tail(t)) = 0
    BY <2>1, EmptyLen
  <2> QED BY <2>1, <2>2
<1>9. /\ Planned(q) /\ (EndsOne(q) <=> EndsOne(t)) /\ q # <<>> /\ q[1] = m /\ q[2] = w
      /\ Len(q) = 3 /\ q[3] = t[1]
  <2>1. Len(t) + 2 = 3 /\ 1 \in 1 .. Len(t) /\ 1 + 2 = 3
    BY <1>8
  <2>2. /\ Planned(q) /\ (EndsOne(q) <=> EndsOne(t)) /\ q # <<>> /\ q[1] = m /\ q[2] = w
        /\ Len(q) = Len(t) + 2 /\ \A i \in 1 .. Len(t) : q[i + 2] = t[i]
    <3>1. q = <<m, w>> \o t
      OBVIOUS
    <3> HIDE DEF q
    <3>2. Planned(t) /\ t # <<>> /\ Sectioned(m) /\ Sectioned(w) /\ Follows(m, w) /\ Follows(w, t[1])
      BY <1>2, <1>5, <1>6, <1>7
    <3>3. Planned(q) /\ (EndsOne(q) <=> EndsOne(t))
      BY <3>1, <3>2, TwoPlan
    <3>4. Len(q) = Len(t) + 2 /\ \A i \in 1 .. Len(t) : q[i + 2] = t[i]
      BY <3>1, <3>2, TwoPlan
    <3>5. q # <<>> /\ q[1] = m /\ q[2] = w
      BY <3>1, <3>2, TwoPlan
    <3> QED BY <3>3, <3>4, <3>5
  <2> QED BY <2>1, <2>2
<1> HIDE DEF q
<1>10. \A i \in 1 .. Len(q) : q[i].do \notin {"add", "addSend"}
  BY <1>3, <1>5, <1>6, <1>9
<1> QED BY <1>2, <1>4, <1>6, <1>9, <1>10 DEF q, m, w, t, held

LEMMA UnlockCommitBasics ==
  ASSUME Basics, NEW g \in Goroutines, UnlockCommit(g)
  PROVE  Basics'
<1> USE DEF Basics
<1>1. run[g] # <<>> /\ Now(g).do = "unlockCommit" /\ At(g, "unlockCommit")
  BY DEF UnlockCommit, At
<1>2. UNCHANGED <<exists, perms, at, open, posted, cache, updates, events, sweepDue, hub,
                  tracked, occupants, change, row, left, spoilt, missed, late, loose>>
  BY DEF UnlockCommit, outside, gateway, budget, own
<1>3. CASE tracked
  BY <1>1, <1>2, <1>3, UnlockPlan, TakesPlan DEF UnlockCommit, Commands, AccessTypes
<1>4. CASE ~tracked
  BY SMTT(30), <1>1, <1>2, <1>4, Heads, ToTheEndPlan DEF UnlockCommit, ChangeDos, Plans, AccessTypes
<1> QED BY <1>3, <1>4

LEMMA PostNoticeBasics ==
  ASSUME Basics, NEW g \in Goroutines, PostNotice(g)
  PROVE  Basics'
<1> USE DEF Basics
<1>1. At(g, "postNotice")
  BY DEF PostNotice
<1>2. UNCHANGED <<exists, perms, at, cache, updates, events, sweepDue, hub,
                  tracked, occupants, lock, change, row>>
  BY DEF PostNotice, gateway, record
<1> DEFINE Then(n) ==
      Becomes(g, <<Section("noticed", NoOne, {}, [locker |-> Now(g).by, notice |-> n]),
                   Section("writeLock", NoOne, {}, [locker |-> Now(g).by, notice |-> n])>>
                 \o Tail(run[g]))
<1>0. \/ posted' = posted + 1 /\ open' = open \cup {posted'} /\ (Then(posted') \/ Then(NoNotice))
      \/ UNCHANGED <<posted, open>> /\ Then(NoNotice)
  BY DEF PostNotice
<1>3. PICK n \in Nat \cup {NoNotice} :
        /\ Then(n)
        /\ \/ posted' = posted + 1 /\ open' = open \cup {posted'}
           \/ UNCHANGED <<posted, open>>
  <2> HIDE DEF Then
  <2>1. posted + 1 \in Nat
    BY DEF AccessTypes
  <2> QED BY <1>0, <2>1
<1> DEFINE q == <<Section("noticed", NoOne, {}, [locker |-> Now(g).by, notice |-> n]),
                  Section("writeLock", NoOne, {}, [locker |-> Now(g).by, notice |-> n])>>
                \o Tail(run[g])
<1>4. Planned(q) /\ EndsOne(q) /\ Holds(g) /\ q[1].do = "noticed"
  BY <1>1, PostedPlan
<1>5. Becomes(g, q)
  BY <1>3
<1> HIDE DEF q
<1>6. Plans' /\ run' \in [Goroutines -> Seq(Sections)]
  BY <1>2, <1>4, <1>5, TakesPlan DEF Plans, Commands
<1>7. posted' \in Nat /\ open' \subseteq 1 .. posted'
  <2>1. posted \in Nat /\ open \subseteq 1 .. posted
    BY DEF AccessTypes
  <2>2. CASE posted' = posted + 1 /\ open' = open \cup {posted'}
    BY <2>1, <2>2
  <2> QED BY <1>3, <2>1, <2>2
<1>8. left' \in [AccessKinds -> Nat] /\ spoilt' = spoilt /\ missed' = missed /\ late' = late
  BY LeftInNat DEF PostNotice, Spend, budget, own, AccessTypes, AccessKinds
<1>9. loose' \subseteq 1 .. posted'
  <2>1. posted \in Nat /\ loose \subseteq 1 .. posted
    BY DEF AccessTypes
  <2>2. /\ loose' \subseteq loose \cup {posted'}
        /\ posted' = posted + 1 \/ (posted' = posted /\ loose' = loose)
    BY DEF PostNotice, Spend, budget, own
  <2>3. CASE posted' = posted + 1
    <3>1. 1 .. posted \subseteq 1 .. posted' /\ posted' \in 1 .. posted'
      BY <2>1, <2>3
    <3> QED BY <2>1, <2>2, <3>1
  <2> QED BY <2>1, <2>2, <2>3
<1> QED BY <1>2, <1>6, <1>7, <1>8, <1>9 DEF AccessTypes

LEMMA NoticedBasics ==
  ASSUME Basics, NEW g \in Goroutines, Noticed(g)
  PROVE  Basics'
<1> USE DEF Basics
<1>1. run[g] # <<>> /\ Now(g).do = "noticed" /\ Now(g).do # "end"
  BY DEF Noticed, At
<1>2. UNCHANGED <<exists, perms, at, open, posted, cache, updates, events, sweepDue, hub,
                  tracked, occupants, change, row, left, spoilt, missed, late, loose>>
  BY DEF Noticed, outside, gateway, budget, own
<1>3. Now(g).held \in Locks
  BY <1>1, Heads DEF Sectioned
<1>4. lock' = IF lock # NoLock THEN Now(g).held ELSE NoLock
  BY DEF Noticed
<1>5. Goes(g)
  BY DEF Noticed
<1>6. ~tracked' => occupants' = {} /\ lock' = NoLock
  BY <1>2, <1>4 DEF Plans
<1>7. Plans' /\ run' \in [Goroutines -> Seq(Sections)]
  BY <1>1, <1>2, <1>5, <1>6, GoesPlan
<1> QED BY <1>2, <1>3, <1>4, <1>7 DEF AccessTypes

LEMMA WriteLockBasics ==
  ASSUME Basics, NEW g \in Goroutines, WriteLock(g) \/ CloseNotice(g)
  PROVE  Basics'
<1> USE DEF Basics
<1>1. run[g] # <<>> /\ Now(g).do \in {"writeLock", "closeNotice"} /\ Now(g).do # "end" /\ Goes(g)
  BY DEF WriteLock, CloseNotice, At
<1>2. UNCHANGED <<exists, perms, at, posted, cache, updates, events, sweepDue, hub,
                  tracked, occupants, lock, change>>
  BY DEF WriteLock, CloseNotice, outside, gateway, record
<1>3. row' \in Locks \cup {NoLock, NoRow} /\ open' \subseteq open
  BY <1>1, Heads DEF Sectioned, WriteLock, CloseNotice, AccessTypes, outside, At
<1>4. left' \in [AccessKinds -> Nat] /\ spoilt' \subseteq Wrongs /\ missed' = missed /\ late' = late
  BY LeftInNat DEF WriteLock, CloseNotice, budget, own, AccessTypes, AccessKinds, Wrongs
<1>6. loose' \subseteq 1 .. posted'
  BY <1>2 DEF WriteLock, CloseNotice, budget, own, AccessTypes
<1>5. Plans' /\ run' \in [Goroutines -> Seq(Sections)]
  BY <1>1, <1>2, GoesPlan DEF Plans
<1> QED BY <1>2, <1>3, <1>4, <1>5, <1>6 DEF AccessTypes

LEMMA AddsTail ==
  ASSUME NEW q, Planned(q), q # <<>>, NEW m
  PROVE  AddsIn(q, m) <=> m \in AddsOf(q[1]) \/ AddsIn(Tail(q), m)
<1>1. /\ Len(q) \in Nat /\ Len(q) > 0 /\ Len(Tail(q)) = Len(q) - 1
      /\ \A i \in 1 .. Len(q) - 1 : Tail(q)[i] = q[i + 1]
  BY TailPlan, PlanParts
<1>2. ASSUME NEW i \in 1 .. Len(q), m \in AddsOf(q[i]), i # 1 PROVE AddsIn(Tail(q), m)
  BY <1>1, <1>2 DEF AddsIn
<1>3. ASSUME NEW i \in 1 .. Len(Tail(q)), m \in AddsOf(Tail(q)[i]) PROVE AddsIn(q, m)
  BY <1>1, <1>3 DEF AddsIn
<1>4. 1 \in 1 .. Len(q)
  BY <1>1
<1> QED BY <1>2, <1>3, <1>4 DEF AddsIn

LEMMA AddsPush ==
  ASSUME NEW q, Planned(q), NEW s, Sectioned(s),
         IF q = <<>> THEN s.do \in Ones \cup {"end", "add"} ELSE Follows(s, q[1]), NEW m
  PROVE  AddsIn(<<s>> \o q, m) <=> m \in AddsOf(s) \/ AddsIn(q, m)
<1> DEFINE p == <<s>> \o q
<1>1. Planned(p) /\ p # <<>> /\ p[1] = s
  BY PushPlan
<1>2. Tail(p) = q
  <2>1. <<s>> \in Seq(Sections) /\ q \in Seq(Sections) /\ Len(<<s>>) = 1 /\ <<s>>[1] = s
    BY PlanParts DEF Sectioned
  <2>2. Len(p) = Len(q) + 1 /\ \A i \in 1 .. Len(q) : p[i + 1] = q[i]
    BY PushPlan
  <2>3. Tail(p) \in Seq(Sections) /\ Len(Tail(p)) = Len(q) /\ Len(q) \in Nat
    <3>1. Len(Tail(p)) = Len(p) - 1 /\ Planned(Tail(p))
      BY <1>1, TailPlan
    <3>2. Len(q) \in Nat /\ Tail(p) \in Seq(Sections)
      BY <3>1, PlanParts
    <3> QED BY <2>2, <3>1, <3>2
  <2>4. \A i \in 1 .. Len(Tail(p)) : Tail(p)[i] = q[i]
    BY <1>1, <2>2, <2>3, TailPlan
  <2> QED BY <2>1, <2>3, <2>4, SeqEqual
<1> HIDE DEF p
<1>3. AddsIn(p, m) <=> m \in AddsOf(s) \/ AddsIn(q, m)
  BY <1>1, <1>2, AddsTail
<1> QED BY <1>3 DEF p

LEMMA AddsNone == \A m : ~AddsIn(<<>>, m)
  BY EmptyLen DEF AddsIn

LEMMA AddsOne ==
  ASSUME NEW s, Sectioned(s), s.do \in Ones \cup {"end", "add"}, NEW m
  PROVE  AddsIn(<<s>>, m) <=> m \in AddsOf(s)
  BY DEF AddsIn

LEMMA AddsLast ==
  ASSUME AccessTypes, Plans, NEW g \in Goroutines, Holds(g), NEW m
  PROVE  ~AddsIn(<<run[g][Len(run[g])]>>, m)
<1> DEFINE e == run[g][Len(run[g])]
<1>1. Planned(run[g]) /\ run[g] # <<>> /\ e.do = "end"
  BY DEF Plans, Holds, EndsOne
<1>2. Sectioned(e)
  BY <1>1, PlanParts
<1> HIDE DEF e
<1>3. ~AddsIn(<<e>>, m)
  BY <1>1, <1>2, AddsOne DEF AddsOf
<1> QED BY <1>3 DEF e

(* What a goroutine that adds guests one by one has to do next.            *)
LEMMA NextPlan ==
  ASSUME Basics, NEW g \in Goroutines, run[g] # <<>>, Now(g).do \in {"add", "pick"},
         NEW m \in Now(g).who
  PROVE  LET rest == <<Todo(Now(g).do, Now(g).who \ {m})>> \o Tail(run[g])
             sent == <<Todo("addSend", {m})>> \o rest
         IN /\ Planned(rest) /\ (EndsOne(rest) <=> Holds(g)) /\ rest # <<>>
            /\ rest[1].do = Now(g).do
            /\ Planned(sent) /\ (EndsOne(sent) <=> Holds(g)) /\ sent # <<>>
            /\ sent[1].do = "addSend"
            /\ \A n : AddsIn(rest, n) <=>
                        n \in AddsOf(Now(g)) \ {m} \/ AddsIn(Tail(run[g]), n)
            /\ \A n : AddsIn(sent, n) <=> n = m \/ AddsIn(rest, n)
<1> USE DEF Basics
<1> DEFINE t == Tail(run[g])
           a == Todo(Now(g).do, Now(g).who \ {m})
           b == Todo("addSend", {m})
           rest == <<a>> \o t
           sent == <<b>> \o rest
<1>1. /\ Planned(t) /\ (EndsOne(t) <=> Holds(g)) /\ Now(g).who \subseteq Members
      /\ (t # <<>> => Follows(Now(g), t[1])) /\ (t = <<>> => Now(g).do = "add")
  BY Heads DEF Ones, Commands
<1>2. Sectioned(a) /\ a.do = Now(g).do /\ a.who = Now(g).who \ {m}
  BY ZenonT(30), <1>1, MadeTodo DEF Dos, LockDos
<1>3. Sectioned(b) /\ b.do = "addSend" /\ b.who = {m}
  <2>1. "addSend" \in Dos \ (LockDos \cup {"noticed"})
    BY DEF Dos, LockDos
  <2>2. {m} \in SUBSET Members
    BY <1>1
  <2> QED BY <2>1, <2>2, MadeTodo
<1> HIDE DEF t, a, b
<1>4. t # <<>> => t[1].do = "end"
  BY <1>1 DEF Follows
<1>5. IF t = <<>> THEN a.do \in Ones \cup {"end", "add"} ELSE Follows(a, t[1])
  BY <1>1, <1>2, <1>4 DEF Follows, Ones, Commands
<1>6. /\ Planned(rest) /\ rest # <<>> /\ rest[1] = a
      /\ EndsOne(rest) <=> IF t = <<>> THEN a.do = "end" ELSE EndsOne(t)
  BY <1>1, <1>2, <1>5, PushPlan
<1>7. \A n : AddsIn(rest, n) <=> n \in AddsOf(a) \/ AddsIn(t, n)
  BY <1>1, <1>2, <1>5, AddsPush
<1>8. EndsOne(rest) <=> Holds(g)
  BY <1>1, <1>2, <1>6 DEF EndsOne
<1> HIDE DEF rest
<1>9. Follows(b, rest[1])
  BY <1>2, <1>3, <1>6 DEF Follows, Ones, Commands
<1>10. Planned(sent) /\ sent # <<>> /\ sent[1] = b /\ (EndsOne(sent) <=> EndsOne(rest))
  BY <1>3, <1>6, <1>9, PushPlan
<1>11. \A n : AddsIn(sent, n) <=> n \in AddsOf(b) \/ AddsIn(rest, n)
  BY <1>3, <1>6, <1>9, AddsPush
<1> HIDE DEF sent
<1>12. AddsOf(b) = {m} /\ AddsOf(a) = AddsOf(Now(g)) \ {m}
  BY <1>1, <1>2, <1>3, AccessConstants DEF AddsOf
<1>13. \A n : AddsIn(rest, n) <=> n \in AddsOf(Now(g)) \ {m} \/ AddsIn(t, n)
  BY <1>7, <1>12
<1>14. \A n : AddsIn(sent, n) <=> n = m \/ AddsIn(rest, n)
  BY <1>11, <1>12
<1> QED BY <1>2, <1>3, <1>6, <1>8, <1>10, <1>13, <1>14 DEF rest, sent, t, a, b

(* The parts of Basics' that an action leaves alone.                       *)
LEMMA EndChangeBasics ==
  ASSUME Basics, NEW g \in Goroutines, EndChange(g)
  PROVE  /\ Basics'
         /\ Holds(g) /\ Tail(run[g]) = <<>>
         /\ \/ Held = {} /\ change' = NoChange /\ Becomes(g, <<>>)
            \/ /\ Held # {} /\ Held \subseteq Members /\ change' = {} /\ lock # NoLock /\ Held = change
               /\ Becomes(g, <<Todo("add", Held)>> \o run[g])
               /\ Planned(<<Todo("add", Held)>> \o run[g])
               /\ EndsOne(<<Todo("add", Held)>> \o run[g])
               /\ (<<Todo("add", Held)>> \o run[g])[1].do = "add"
               /\ \A m : AddsIn(<<Todo("add", Held)>> \o run[g], m) <=> m \in Held
<1> USE DEF Basics
<1>1. run[g] # <<>> /\ Now(g).do = "end" /\ Now(g) = run[g][1]
  BY DEF EndChange, At, Now
<1>2. Planned(run[g]) /\ Holds(g) /\ Tail(run[g]) = <<>>
  BY <1>1, Heads, TailPlan DEF ChangeDos, Plans
<1>3. UNCHANGED <<exists, perms, at, open, posted, cache, updates, events, sweepDue, hub,
                  tracked, occupants, lock, row, left, spoilt, missed, late, loose>>
  BY DEF EndChange, outside, gateway, budget, own
<1>4. CASE Held = {}
  BY <1>2, <1>3, <1>4, PlansEnd, RunsOn, EmptyPlan DEF EndChange, Goes, AccessTypes
<1>5. CASE Held # {}
  <2> DEFINE a == Todo("add", Held)
             q == <<a>> \o run[g]
  <2>1. change' = {} /\ Becomes(g, q)
    BY <1>5 DEF EndChange
  <2>2. lock # NoLock /\ Held = change
    BY <1>5 DEF Held
  <2>3. change # NoChange
    BY <1>2 DEF Plans
  <2>4. Held \in SUBSET Members
    BY <2>2, <2>3 DEF AccessTypes
  <2>5. Sectioned(a) /\ a.do = "add" /\ a.who = Held
    BY <2>4, MadeTodo DEF Dos, LockDos
  <2> HIDE DEF a
  <2>6. Follows(a, run[g][1])
    BY <1>1, <2>5 DEF Follows, Ones, Commands
  <2>7. Planned(q) /\ q # <<>> /\ q[1] = a /\ (EndsOne(q) <=> EndsOne(run[g]))
    BY <1>1, <1>2, <2>5, <2>6, PushPlan
  <2>8. \A m : AddsIn(q, m) <=> m \in Held
    <3>1. ASSUME NEW m PROVE AddsIn(q, m) <=> m \in AddsOf(a) \/ AddsIn(run[g], m)
      BY <1>1, <1>2, <2>5, <2>6, AddsPush
    <3>2. ASSUME NEW m PROVE AddsIn(run[g], m) <=> m \in AddsOf(run[g][1]) \/ AddsIn(<<>>, m)
      BY <1>1, <1>2, AddsTail
    <3> QED BY <1>1, <2>5, <3>1, <3>2, AddsNone DEF AddsOf
  <2> HIDE DEF q
  <2>9. EndsOne(q)
    BY <1>2, <2>7 DEF Holds
  <2>10. {} # NoChange
    BY NotAChange
  <2>11. Plans' /\ run' \in [Goroutines -> Seq(Sections)]
    BY <1>2, <1>3, <2>1, <2>3, <2>5, <2>7, <2>9, <2>10, TakesPlan DEF Commands, Plans
  <2> QED BY <1>2, <1>3, <1>5, <2>1, <2>2, <2>4, <2>5, <2>7, <2>8, <2>9, <2>11
          DEF AccessTypes, q, a
<1> QED BY <1>4, <1>5

(* One member on, or the end of a list of guests to add.                   *)
LEMMA NextGuestBasics ==
  ASSUME Basics, NEW g \in Goroutines, NextGuest(g)
  PROVE  /\ Basics'
         /\ run[g] # <<>> /\ Now(g).do \in {"add", "pick"}
         /\ \/ Now(g).who = {} /\ Goes(g) /\ missed' = missed
            \/ \E m \in Now(g).who : \E q :
                 /\ Becomes(g, q) /\ Planned(q) /\ q # <<>>
                 /\ q[1].do \in {"add", "pick", "addSend"} /\ (EndsOne(q) <=> Holds(g))
                 /\ \A n : AddsIn(run[g], n) => AddsIn(q, n) \/
                             (n = m /\ Now(g).do = "add" /\ ~(exists /\ Wanted("add", m)))
                 /\ \A n : AddsIn(q, n) => AddsIn(run[g], n) \/ Now(g).do = "pick"
                 /\ missed' = missed \cup
                      {n \in (occupants \ at) \cup (cache.guests \ perms.guests) :
                         n = m /\ Now(g).do = "add"}
<1> USE DEF Basics
<1>1. run[g] # <<>> /\ Now(g).do \in {"add", "pick"} /\ Now(g).do # "end" /\ Now(g) = run[g][1]
  BY DEF NextGuest, Now
<1>2. UNCHANGED <<exists, perms, at, open, posted, cache, updates, events, sweepDue, hub,
                  tracked, occupants, lock, change, row, left, spoilt, late, loose>>
  BY DEF NextGuest, outside, gateway, record
<1>3. Planned(run[g]) /\ Now(g).who \subseteq Members
  BY <1>1, Heads
<1>4. CASE Now(g).who = {}
  BY ZenonT(30), <1>1, <1>2, <1>4, GoesPlan DEF NextGuest, Plans, AccessTypes
<1>5. CASE Now(g).who # {}
  <2>1. PICK m \in Now(g).who : m = CHOOSE x \in Now(g).who : TRUE
    BY <1>5
  <2> DEFINE rest == <<Todo(Now(g).do, Now(g).who \ {m})>> \o Tail(run[g])
             sent == <<Todo("addSend", {m})>> \o rest
             q == IF exists /\ Wanted(Now(g).do, m) THEN sent ELSE rest
  <2>2. /\ Becomes(g, q)
        /\ missed' = missed \cup {n \in (occupants \ at) \cup (cache.guests \ perms.guests) :
                                   n = m /\ Now(g).do = "add"}
    BY <1>5, <2>1 DEF NextGuest
  <2>3. /\ Planned(rest) /\ (EndsOne(rest) <=> Holds(g)) /\ rest # <<>>
        /\ rest[1].do = Now(g).do
        /\ Planned(sent) /\ (EndsOne(sent) <=> Holds(g)) /\ sent # <<>>
        /\ sent[1].do = "addSend"
    BY <1>1, NextPlan
  <2>4. \A n : AddsIn(rest, n) <=>
                 n \in AddsOf(Now(g)) \ {m} \/ AddsIn(Tail(run[g]), n)
    BY <1>1, NextPlan
  <2>5. \A n : AddsIn(sent, n) <=> n = m \/ AddsIn(rest, n)
    BY <1>1, NextPlan
  <2>6. ASSUME NEW n PROVE AddsIn(run[g], n) <=> n \in AddsOf(Now(g)) \/ AddsIn(Tail(run[g]), n)
    BY <1>1, <1>3, AddsTail
  <2>7. /\ Now(g).do = "add" => AddsOf(Now(g)) = Now(g).who
        /\ Now(g).do # "add" => AddsOf(Now(g)) = {NoOne} /\ m # NoOne
    BY <1>1, <1>3, <2>1, AccessConstants DEF AddsOf
  <2> HIDE DEF rest, sent
  <2>8. /\ Planned(q) /\ q # <<>> /\ q[1].do \in {"add", "pick", "addSend"}
        /\ (EndsOne(q) <=> Holds(g))
    BY <1>1, <2>3
  <2>9. \A n : AddsIn(run[g], n) => AddsIn(q, n) \/
                 (n = m /\ Now(g).do = "add" /\ ~(exists /\ Wanted("add", m)))
    BY <2>4, <2>5, <2>6, <2>7
  <2>10. \A n : AddsIn(q, n) => AddsIn(run[g], n) \/ Now(g).do = "pick"
    BY <1>1, <2>1, <2>4, <2>5, <2>6, <2>7
  <2> HIDE DEF q
  <2>11. ~tracked' => occupants' = {} /\ lock' = NoLock
    BY <1>2 DEF Plans
  <2>12. Plans' /\ run' \in [Goroutines -> Seq(Sections)]
    BY <1>2, <2>2, <2>8, <2>11, TakesPlan DEF Commands
  <2>13. missed' \subseteq Members
    <3>1. missed \subseteq Members /\ m \in Members
      BY <1>3 DEF AccessTypes
    <3> QED BY <2>2, <3>1
  <2>14. AccessTypes'
    BY <1>2, <2>12, <2>13 DEF AccessTypes
  <2> QED BY <1>1, <2>2, <2>8, <2>9, <2>10, <2>12, <2>14
<1> QED BY <1>4, <1>5

LEMMA AddSendBasics ==
  ASSUME Basics, NEW g \in Goroutines, AddSend(g)
  PROVE  Basics'
<1> USE DEF Basics
<1>1. run[g] # <<>> /\ Now(g).do = "addSend" /\ Now(g).do # "end" /\ At(g, "addSend")
  BY DEF AddSend, At
<1>2. UNCHANGED <<exists, at, open, posted, cache, events, sweepDue, hub, change>>
  BY DEF AddSend
<1>3. Now(g).who \subseteq Members
  BY <1>1, Heads
<1>4. CASE exists
  <2>1. /\ Goes(g) /\ UNCHANGED <<tracked, occupants, lock, row, spoilt, loose>>
        /\ \/ /\ perms' = [perms EXCEPT !.guests = @ \cup Now(g).who]
              /\ updates' = Append(updates, perms') /\ left' = left
              /\ missed' = missed \ Now(g).who
              /\ late' \in {late, late \cup Now(g).who}
           \/ /\ UNCHANGED <<perms, updates, late>> /\ Uses("refuse")
              /\ missed' = missed \cup Now(g).who
    BY <1>4 DEF AddSend
  <2>2. perms' \in Lists
    <3>1. perms' = perms \/ perms' = [perms EXCEPT !.guests = @ \cup Now(g).who]
      BY <2>1
    <3>2. perms \in Lists
      BY DEF AccessTypes
    <3>3. [perms EXCEPT !.guests = @ \cup Now(g).who] \in Lists
      BY <1>3, <3>2 DEF Lists
    <3> QED BY <3>1, <3>2, <3>3
  <2>3. updates' \in Seq(Lists)
    <3>1. CASE updates' = Append(updates, perms')
      BY <2>2, <3>1 DEF AccessTypes
    <3>2. CASE updates' = updates
      BY <3>2 DEF AccessTypes
    <3> QED BY <2>1, <3>1, <3>2
  <2>4. left' \in [AccessKinds -> Nat] /\ missed' \subseteq Members /\ late' \subseteq Members
    BY <1>3, <2>1, LeftInNat DEF AccessTypes, AccessKinds
  <2>5. ~tracked' => occupants' = {} /\ lock' = NoLock
    BY <2>1 DEF Plans
  <2>6. Plans' /\ run' \in [Goroutines -> Seq(Sections)]
    BY <1>1, <1>2, <2>1, <2>5, GoesPlan
  <2> QED BY <1>2, <2>1, <2>2, <2>3, <2>4, <2>6 DEF AccessTypes
<1>5. CASE ~exists
  BY <1>1, <1>2, <1>5, Untrack, Direction, EmptyPlan, TakesPlan, ToTheEndPlan DEF AddSend,
     budget, own, Untracked, AccessTypes
<1> QED BY <1>4, <1>5

(* A join's plan: the guest add it asks for, or nothing.                   *)
LEMMA JoinsPlan ==
  ASSUME AccessTypes, NEW g \in Goroutines, NEW who \in SUBSET Members,
         NEW locked \in BOOLEAN, NEW after,
         after = <<>> \/ (after = <<Todo("deleteEmpty", {})>> /\ who = {}),
         Joins(g, who, locked, after)
  PROVE  \E q : /\ Planned(q) /\ ~EndsOne(q) /\ Becomes(g, q)
                /\ q # <<>> => q[1].do \in {"add", "deleteEmpty"}
                /\ (q # <<>> /\ q[1].do = "deleteEmpty") => who = {}
                /\ IF change # NoChange THEN change' = change \cup who ELSE change' = change
                /\ \A m : AddsIn(q, m) <=> change = NoChange /\ locked /\ m \in who
                /\ change' \in SUBSET Members \/ change' = NoChange
                /\ change' = NoChange <=> change = NoChange
<1> DEFINE d == Todo("deleteEmpty", {})
           a == Todo("add", who)
<1>1. Sectioned(d) /\ d.do = "deleteEmpty"
  BY MadeTodo, MemberOrNoOne DEF Dos, Ones, LockDos
<1>2. Sectioned(a) /\ a.do = "add" /\ a.who = who
  BY MadeTodo DEF Dos, Ones, LockDos
<1> HIDE DEF d, a
<1>3. /\ Planned(<<d>>) /\ ~EndsOne(<<d>>) /\ <<d>>[1].do = "deleteEmpty"
      /\ \A m : ~AddsIn(<<d>>, m)
  BY <1>1, OnePlan, AddsOne DEF AddsOf, Ones
<1>4. /\ Planned(<<a>>) /\ ~EndsOne(<<a>>) /\ <<a>>[1].do = "add"
      /\ \A m : AddsIn(<<a>>, m) <=> m \in who
  BY <1>2, OnePlan, AddsOne DEF AddsOf
<1>5. /\ Planned(<<>>) /\ ~EndsOne(<<>>) /\ \A m : ~AddsIn(<<>>, m)
  BY EmptyPlan, AddsNone
<1>6. after = <<>> \/ (after = <<d>> /\ who = {})
  BY DEF d
<1>7. change \in SUBSET Members \/ change = NoChange
  BY DEF AccessTypes
<1>8. CASE change # NoChange
  BY <1>3, <1>5, <1>6, <1>7, <1>8, NotAChange DEF Joins
<1>9. CASE change = NoChange
  <2>1. /\ change' = change
        /\ Becomes(g, after \o IF locked /\ who # {} THEN <<a>> ELSE <<>>)
    BY <1>9 DEF Joins, a
  <2>2. CASE locked /\ who # {}
    BY ZenonT(30), <1>4, <1>6, <1>9, <2>1, <2>2, PlanParts, ConcatEmptySeq
  <2>3. CASE ~locked \/ who = {}
    <3>1. after \o <<>> = after
      BY <1>6
    <3>2. Becomes(g, after)
      BY <2>1, <2>3, <3>1
    <3>3. \A m : ~(locked /\ m \in who)
      BY <2>3
    <3>4. CASE after = <<>>
      BY <1>5, <1>9, <2>1, <3>2, <3>3, <3>4
    <3>5. CASE after = <<d>> /\ who = {}
      BY <1>3, <1>9, <2>1, <3>2, <3>3, <3>5
    <3> QED BY <1>6, <3>4, <3>5
  <2> QED BY <2>2, <2>3
<1> QED BY <1>8, <1>9

LEMMA IdleHolds ==
  ASSUME NEW g, run[g] = <<>>
  PROVE  ~Holds(g)
BY DEF Holds, EndsOne

(* What a voice state event does, by its cases.                            *)
LEMMA VoiceUpdateBasics ==
  ASSUME Basics, NEW g \in Calls, NEW m \in Members, VoiceUpdate(g, m)
  PROVE  /\ Basics' /\ run[g] = <<>> /\ events' = events \ {m}
         /\ \/ \E q :
                 /\ tracked /\ m \in at /\ m \notin occupants /\ occupants' = occupants \cup {m}
                 /\ missed' = missed \ {m}
                 /\ Planned(q) /\ Becomes(g, q) /\ (q # <<>> => q[1].do = "add")
                 /\ IF change # NoChange THEN change' = change \cup {m} ELSE change' = change
                 /\ \A n : AddsIn(q, n) <=> change = NoChange /\ lock # NoLock /\ n = m
            \/ \E q :
                 /\ tracked /\ m \notin at /\ m \in occupants /\ occupants' = occupants \ {m}
                 /\ missed' = missed \ {m}
                 /\ change' = change /\ Planned(q) /\ Becomes(g, q)
                 /\ (q # <<>> => q[1].do = "deleteEmpty")
                 /\ \A n : ~AddsIn(q, n)
            \/ /\ ~tracked \/ (m \in at <=> m \in occupants)
               /\ UNCHANGED <<occupants, change, run, missed>>
<1> USE DEF Basics
<1>1. run[g] = <<>> /\ events' = events \ {m} /\ ~Holds(g) /\ g \in Goroutines
  BY IdleHolds DEF VoiceUpdate, Free, Goroutines
<1>2. UNCHANGED <<exists, perms, at, open, posted, cache, updates, sweepDue, hub,
                  tracked, lock, row, left, spoilt, late, loose>>
  BY DEF VoiceUpdate, outside
<1>3. AccessTypes' <=> /\ occupants' \subseteq Members /\ (change' = NoChange \/ change' \subseteq Members)
                       /\ missed' \subseteq Members /\ run' \in [Goroutines -> Seq(Sections)]
  BY <1>1, <1>2 DEF AccessTypes
<1>4. CASE /\ tracked /\ m \in at /\ m \notin occupants /\ occupants' = occupants \cup {m}
           /\ Joins(g, {m}, lock # NoLock, <<>>) /\ missed' = missed \ {m}
  <2>1. PICK q : /\ Planned(q) /\ ~EndsOne(q) /\ Becomes(g, q)
                 /\ q # <<>> => q[1].do \in {"add", "deleteEmpty"}
                 /\ (q # <<>> /\ q[1].do = "deleteEmpty") => {m} = {}
                 /\ IF change # NoChange THEN change' = change \cup {m} ELSE change' = change
                 /\ \A n : AddsIn(q, n) <=> change = NoChange /\ (lock # NoLock) /\ n \in {m}
                 /\ change' \in SUBSET Members \/ change' = NoChange
                 /\ change' = NoChange <=> change = NoChange
    <3>1. {m} \in SUBSET Members /\ (lock # NoLock) \in BOOLEAN
      OBVIOUS
    <3> DEFINE after == <<>>
               who == {m}
    <3>2. after = <<>> \/ (after = <<Todo("deleteEmpty", {})>> /\ who = {})
      OBVIOUS
    <3>3. Joins(g, who, lock # NoLock, after)
      BY <1>4
    <3> HIDE DEF after
    <3> QED BY ZenonT(30), <1>1, <3>1, <3>2, <3>3, JoinsPlan
  <2>2. ~tracked' => occupants' = {} /\ lock' = NoLock
    BY <1>2, <1>4
  <2>3. Plans' /\ run' \in [Goroutines -> Seq(Sections)]
    BY <1>1, <2>1, <2>2, TakesPlan DEF Commands
  <2>4. AccessTypes'
    BY <1>3, <1>4, <2>1, <2>3 DEF AccessTypes
  <2> QED BY <1>1, <1>4, <2>1, <2>3, <2>4
<1>5. CASE /\ tracked /\ m \notin at /\ m \in occupants
           /\ occupants' = occupants \ {m} /\ UNCHANGED change
           /\ Becomes(g, IF occupants' = {} THEN <<Todo("deleteEmpty", {})>> ELSE <<>>)
           /\ missed' = missed \ {m}
  <2> DEFINE d == Todo("deleteEmpty", {})
             q == IF occupants' = {} THEN <<d>> ELSE <<>>
  <2>0. Sectioned(d) /\ d.do = "deleteEmpty"
    BY MadeTodo, MemberOrNoOne DEF Dos, Ones, LockDos
  <2>6. Becomes(g, q)
    BY <1>5
  <2> HIDE DEF d
  <2>1. /\ Planned(q) /\ ~EndsOne(q) /\ (q # <<>> => q[1].do = "deleteEmpty")
        /\ \A n : ~AddsIn(q, n)
    BY <2>0, OnePlan, AddsOne, EmptyPlan, AddsNone DEF Ones, AddsOf
  <2> HIDE DEF q
  <2>2. ~tracked' => occupants' = {} /\ lock' = NoLock
    BY <1>2, <1>5
  <2>3. Plans' /\ run' \in [Goroutines -> Seq(Sections)]
    BY <1>1, <1>5, <2>1, <2>2, <2>6, TakesPlan DEF Commands
  <2>4. AccessTypes'
    BY <1>3, <1>5, <2>3 DEF AccessTypes
  <2> QED BY <1>1, <1>5, <2>1, <2>3, <2>4, <2>6
<1>6. CASE /\ ~tracked \/ (m \in at <=> m \in occupants)
           /\ UNCHANGED <<occupants, change, run, missed>>
  BY <1>1, <1>2, <1>3, <1>6, PlansStay DEF Plans, AccessTypes
<1> QED BY <1>4, <1>5, <1>6 DEF VoiceUpdate

LEMMA DeleteEmptyBasics ==
  ASSUME Basics, NEW g \in Goroutines, DeleteEmpty(g)
  PROVE  Basics'
<1> USE DEF Basics
<1>1. run[g] # <<>> /\ Now(g).do = "deleteEmpty" /\ Now(g).do # "end" /\ At(g, "deleteEmpty")
  BY DEF DeleteEmpty, At
<1>2. UNCHANGED <<perms, at, open, posted, cache, updates, events, sweepDue, hub, tracked,
                  occupants, lock, change, row, left, spoilt, missed, late, loose>>
  BY DEF DeleteEmpty, gateway, record, budget, own
<1>3. ~tracked' => occupants' = {} /\ lock' = NoLock
  BY <1>2 DEF Plans
<1>4. CASE exists' = FALSE /\ Becomes(g, <<Todo("forget", {})>> \o Tail(run[g]))
  <2> DEFINE f == Todo("forget", {})
             t == Tail(run[g])
  <2>1. Sectioned(f) /\ f.do = "forget"
    BY MadeTodo, MemberOrNoOne DEF Dos, Ones, LockDos
  <2>2. t = <<>> /\ ~Holds(g)
    BY <1>1, Heads DEF Ones
  <2> HIDE DEF f
  <2>3. Planned(<<f>>) /\ ~EndsOne(<<f>>) /\ <<f>>[1] = f
    BY <2>1, OnePlan DEF Ones
  <2>4. <<f>> \o <<>> = <<f>>
    BY <2>3, PlanParts, ConcatEmptySeq
  <2>5. Becomes(g, <<f>>)
    BY <1>4, <2>2, <2>4 DEF f
  <2>6. Plans' /\ run' \in [Goroutines -> Seq(Sections)]
    BY <1>2, <1>3, <2>1, <2>2, <2>3, <2>5, TakesPlan DEF Commands
  <2> QED BY <1>2, <1>4, <2>6 DEF AccessTypes
<1>5. CASE exists' = exists /\ Goes(g)
  BY <1>1, <1>2, <1>3, <1>5, GoesPlan DEF AccessTypes
<1> QED BY <1>4, <1>5 DEF DeleteEmpty

LEMMA ForgetBasics ==
  ASSUME Basics, NEW g \in Goroutines, Forget(g)
  PROVE  Basics'
<1> USE DEF Basics
<1>1. run[g] # <<>> /\ Now(g).do = "forget" /\ Now(g).do # "end" /\ Goes(g)
  BY DEF Forget, At
<1>2. UNCHANGED <<exists, perms, at, open, posted, cache, updates, events, sweepDue, hub,
                  change, left, spoilt, missed, late, loose>>
  BY DEF Forget, outside, gateway, budget, own
<1>3. ~tracked' /\ occupants' = {} /\ lock' = NoLock /\ tracked' \in BOOLEAN
  BY DEF Forget, Untracked
<1>4. Plans' /\ run' \in [Goroutines -> Seq(Sections)]
  BY <1>1, <1>2, <1>3, GoesPlan
<1>5. row' \in Locks \cup {NoLock, NoRow}
  BY DEF Forget
<1> QED BY <1>2, <1>3, <1>4, <1>5 DEF AccessTypes

LEMMA SweepStartBasics ==
  ASSUME Basics, SweepStart
  PROVE  /\ Basics' /\ run[Sweep] = <<>> /\ sweepDue
         /\ \E q : /\ Planned(q) /\ Becomes(Sweep, q) /\ q # <<>> /\ q[1].do = "rebuild"
                   /\ q[1].held = row /\ \A m : ~AddsIn(q, m)
<1> USE DEF Basics
<1> DEFINE s == Section("rebuild", NoOne, {}, row)
<1>1. run[Sweep] = <<>> /\ sweepDue /\ sweepDue' = FALSE /\ Becomes(Sweep, <<s>>)
  BY DEF SweepStart
<1>2. UNCHANGED <<exists, perms, at, open, posted, cache, updates, events, hub,
                  tracked, occupants, lock, change, row, left, spoilt, missed, late, loose>>
  BY DEF SweepStart, outside, record, budget, own
<1>3. Sectioned(s) /\ s.do = "rebuild" /\ s.held = row
  <2>1. "rebuild" \in Dos /\ "rebuild" \notin LockDos /\ "rebuild" \notin {"noticed", "writeLock"}
    BY DEF Dos, Ones, LockDos
  <2>2. NoOne \in Members \cup {NoOne} /\ {} \in SUBSET Members
    BY MemberOrNoOne
  <2>3. row \in Locks \cup {NoLock, NoRow}
    BY DEF AccessTypes
  <2> QED BY <2>1, <2>2, <2>3, Made
<1> HIDE DEF s
<1>4. Planned(<<s>>) /\ ~EndsOne(<<s>>) /\ <<s>>[1] = s /\ <<s>> # <<>>
  BY <1>3, OnePlan DEF Ones
<1>5. \A m : ~AddsIn(<<s>>, m)
  BY <1>3, AddsOne DEF AddsOf, Ones
<1>6. ~tracked' => occupants' = {} /\ lock' = NoLock
  BY <1>2 DEF Plans
<1>7. Sweep \in Goroutines /\ ~Holds(Sweep)
  BY <1>1, IdleHolds DEF Goroutines
<1>8. Plans' /\ run' \in [Goroutines -> Seq(Sections)]
  BY <1>1, <1>2, <1>3, <1>4, <1>6, <1>7, TakesPlan DEF Commands
<1>9. sweepDue' \in BOOLEAN
  BY <1>1
<1> QED BY <1>1, <1>2, <1>3, <1>4, <1>5, <1>8, <1>9 DEF AccessTypes

LEMMA RebuildBasics ==
  ASSUME Basics, Rebuild
  PROVE  /\ Basics' /\ At(Sweep, "rebuild") /\ ~Holds(Sweep)
         /\ \/ /\ ~exists \/ Now(Sweep).held = NoRow
            \/ \E q :
                 /\ Now(Sweep).held # NoRow /\ exists
                 /\ tracked' = TRUE /\ occupants' = at /\ lock' = Restored(Now(Sweep).held)
                 /\ missed' = {}
                 /\ Planned(q) /\ ~EndsOne(q) /\ Becomes(Sweep, q)
                 /\ q # <<>> => q[1].do \in {"add", "deleteEmpty"}
                 /\ IF change # NoChange THEN change' = change \cup at ELSE change' = change
                 /\ \A m : AddsIn(q, m) <=> change = NoChange /\ lock' # NoLock /\ m \in at
<1> USE DEF Basics
<1> DEFINE held == Now(Sweep).held
<1>1. At(Sweep, "rebuild") /\ run[Sweep] # <<>> /\ Now(Sweep).do = "rebuild"
      /\ Now(Sweep).do # "end" /\ Sweep \in Goroutines
  BY DEF Rebuild, At, Goroutines
<1>2. ~Holds(Sweep) /\ held \in Locks \cup {NoLock, NoRow}
  BY <1>1, Heads DEF Ones, Sections
<1>3. UNCHANGED <<exists, perms, at, open, posted, cache, updates, events, sweepDue, hub,
                  row, left, spoilt, late, loose>>
  BY DEF Rebuild, outside, gateway
<1>4. CASE held = NoRow /\ Untracked /\ Goes(Sweep) /\ UNCHANGED <<change, missed>>
  BY <1>1, <1>2, <1>3, <1>4, GoesPlan DEF Untracked, AccessTypes
<1>5. CASE /\ held # NoRow /\ ~exists /\ Untracked /\ UNCHANGED <<change, missed>>
           /\ Becomes(Sweep, <<Todo("forget", {})>>)
  <2> DEFINE f == Todo("forget", {})
  <2>1. ~tracked' /\ occupants' = {} /\ lock' = NoLock /\ tracked' \in BOOLEAN
    BY <1>5 DEF Untracked
  <2>2. Sectioned(f) /\ f.do = "forget"
    BY MadeTodo, MemberOrNoOne DEF Dos, Ones, LockDos
  <2>3. Becomes(Sweep, <<f>>)
    BY <1>5
  <2> HIDE DEF f
  <2>4. Planned(<<f>>) /\ ~EndsOne(<<f>>) /\ <<f>>[1] = f
    BY <2>2, OnePlan DEF Ones
  <2>5. Plans' /\ run' \in [Goroutines -> Seq(Sections)]
    BY <1>1, <1>2, <1>5, <2>1, <2>2, <2>3, <2>4, TakesPlan DEF Commands
  <2> QED BY <1>1, <1>2, <1>3, <1>5, <2>1, <2>5 DEF AccessTypes
<1>6. CASE /\ held # NoRow /\ exists
           /\ tracked' = TRUE /\ occupants' = at /\ lock' = Restored(held) /\ missed' = {}
           /\ Joins(Sweep, at, lock' # NoLock,
                    IF at = {} THEN <<Todo("deleteEmpty", {})>> ELSE <<>>)
  BY ZenonT(60), <1>1, <1>2, <1>3, <1>6, JoinsPlan, TakesPlan DEF AccessTypes, Restored, Commands
<1> QED BY <1>4, <1>5, <1>6 DEF Rebuild

(* The deliveries and disturbances that leave every plan alone.            *)
Aside == \/ ChannelUpdate \/ SaveHub \/ Reconnect \/ HandDelete
         \/ \E m \in Members : Move(m)

LEMMA AsideBasics ==
  ASSUME Basics, Aside
  PROVE  Basics' /\ run' = run
<1> USE DEF Basics
<1>1. CASE ChannelUpdate
  BY <1>1, HeadTailProperties, ElementOfSeq, PlansStay DEF ChannelUpdate, outside, record,
     budget, own, AccessTypes, Plans
<1>2. CASE SaveHub
  <2>1. UNCHANGED <<exists, perms, at, open, posted, cache, updates, events, sweepDue, tracked,
                    occupants, lock, change, row, run>> /\ Spend("save")
    BY <1>2 DEF SaveHub, outside, gateway
  <2>2. hub' \in [stands : BOOLEAN, locking : BOOLEAN]
    <3> DEFINE off == ~hub.locking
    <3>1. off \in BOOLEAN
      OBVIOUS
    <3>2. hub' \in {[stands |-> TRUE, locking |-> off], [stands |-> FALSE, locking |-> FALSE]}
      BY <1>2 DEF SaveHub
    <3> HIDE DEF off
    <3>3. [stands |-> TRUE, locking |-> off] \in [stands : BOOLEAN, locking : BOOLEAN]
      BY <3>1
    <3>4. [stands |-> FALSE, locking |-> FALSE] \in [stands : BOOLEAN, locking : BOOLEAN]
      OBVIOUS
    <3> QED BY <3>2, <3>3, <3>4
  <2>3. left' \in [AccessKinds -> Nat] /\ UNCHANGED <<spoilt, missed, late, loose>>
    BY <2>1, LeftInNat DEF Spend, own, AccessKinds
  <2>4. Plans'
    BY <2>1, PlansStay DEF Plans
  <2> QED BY <2>1, <2>2, <2>3, <2>4 DEF AccessTypes
<1>3. CASE Reconnect
  BY ZenonT(30), <1>3, EmptySeq, LeftInNat, PlansStay DEF Reconnect, outside, record, Spend, own,
     AccessKinds, Plans, AccessTypes
<1>4. CASE HandDelete
  <2>1. /\ exists' = FALSE /\ at' = {} /\ open' = {} /\ events' = events \cup at /\ Spend("handDelete")
        /\ UNCHANGED <<perms, posted, cache, updates, sweepDue, hub, tracked, occupants, lock,
                       change, row, run, spoilt, missed, late, loose>>
    BY <1>4 DEF HandDelete, record, Spend, own
  <2>2. left' \in [AccessKinds -> Nat]
    BY <2>1, LeftInNat DEF Spend, AccessKinds
  <2>3. Plans'
    BY <2>1, PlansStay DEF Plans
  <2> QED BY <2>1, <2>2, <2>3 DEF AccessTypes
<1>5. ASSUME NEW m \in Members, Move(m) PROVE Basics' /\ run' = run
  BY ZenonT(30), <1>5, LeftInNat, PlansStay DEF Move, record, Spend, own, AccessKinds, Plans,
     AccessTypes
<1>6. UNCHANGED run
  BY DEF Aside, ChannelUpdate, SaveHub, Reconnect, HandDelete, Move
<1> QED BY <1>1, <1>2, <1>3, <1>4, <1>5, <1>6 DEF Aside

(* A member asks for, or presses for, an access change.                    *)
LEMMA AskedBasics ==
  ASSUME Basics, NEW g \in Calls, NEW by \in Members,
         (\E do \in {"lock", "unlock"} : Asks(g, do, by)) \/ Presses(g, by)
  PROVE  /\ Basics' /\ run[g] = <<>>
         /\ UNCHANGED <<outside, gateway, record, row, own>>
         /\ \E q : /\ Planned(q) /\ Becomes(g, q) /\ q # <<>> /\ q[1].do \in Commands
                   /\ \A m : ~AddsIn(q, m)
<1> USE DEF Basics
<1>1. PICK do \in Commands, who \in SUBSET Members :
        Free(g) /\ Spend("command") /\ Becomes(g, <<Section(do, by, who, NoLock)>>)
        /\ UNCHANGED <<outside, gateway, record, row>>
  BY MemberOrNoOne, AccessConstants DEF Asks, Commands, Presses
<1> DEFINE s == Section(do, by, who, NoLock)
<1>2. Sectioned(s) /\ s.do = do
  BY Made DEF Dos, Ones, LockDos, Commands
<1>3. run[g] = <<>> /\ g \in Goroutines /\ ~Holds(g) /\ g # Sweep
  BY <1>1, IdleHolds, AccessConstants DEF Free, Goroutines
<1>4. Becomes(g, <<s>>)
  BY <1>1
<1> HIDE DEF s
<1>5. Planned(<<s>>) /\ ~EndsOne(<<s>>) /\ <<s>>[1] = s /\ <<s>> # <<>>
  BY <1>2, OnePlan DEF Ones, Commands
<1>6. \A m : ~AddsIn(<<s>>, m)
  BY <1>2, AddsOne DEF Ones, Commands, AddsOf
<1>7. left' \in [AccessKinds -> Nat] /\ UNCHANGED <<spoilt, missed, late, loose, own>>
  BY <1>1, LeftInNat DEF Spend, own, AccessKinds
<1>8. UNCHANGED <<exists, perms, at, open, posted, cache, updates, events, sweepDue, hub,
                  tracked, occupants, lock, change, row>>
  BY <1>1 DEF outside, gateway, record
<1>9. ~tracked' => occupants' = {} /\ lock' = NoLock
  BY <1>8 DEF Plans
<1>10. Plans' /\ run' \in [Goroutines -> Seq(Sections)]
  BY <1>3, <1>4, <1>5, <1>8, <1>9, PlansGo, RunsOn
<1>11. AccessTypes'
  BY <1>7, <1>8, <1>10 DEF AccessTypes
<1> QED BY <1>1, <1>2, <1>3, <1>4, <1>5, <1>6, <1>7, <1>10, <1>11

(* A channel that went is untracked.                                       *)
LEMMA ChannelDeleteBasics ==
  ASSUME Basics, NEW g \in Calls, ChannelDelete(g)
  PROVE  Basics'
<1> USE DEF Basics
<1> DEFINE s == Todo("forget", {})
<1>1. run[g] = <<>> /\ g \in Goroutines /\ ~Holds(g)
  BY IdleHolds DEF ChannelDelete, Free, Goroutines
<1>2. Becomes(g, <<s>>) /\ Untracked
  BY DEF ChannelDelete
<1>3. UNCHANGED <<exists, perms, at, open, posted, cache, updates, events, sweepDue, hub, change,
                  row, left, spoilt, missed, late, loose>>
  BY DEF ChannelDelete, outside, gateway, budget, own
<1>4. Sectioned(s) /\ s.do = "forget"
  BY MadeTodo, MemberOrNoOne DEF Dos, Ones, LockDos
<1> HIDE DEF s
<1>5. Planned(<<s>>) /\ ~EndsOne(<<s>>) /\ <<s>>[1] = s
  BY <1>4, OnePlan DEF Ones
<1>6. ~tracked' /\ occupants' = {} /\ lock' = NoLock /\ tracked' \in BOOLEAN
  BY <1>2 DEF Untracked
<1>7. Plans' /\ run' \in [Goroutines -> Seq(Sections)]
  BY <1>1, <1>2, <1>3, <1>4, <1>5, <1>6, TakesPlan DEF Commands
<1> QED BY <1>3, <1>6, <1>7 DEF AccessTypes

LEMMA RestartBasics ==
  ASSUME Basics, Restart
  PROVE  Basics' /\ \A g \in Goroutines : run'[g] = <<>>
<1> USE DEF Basics
<1>1. /\ Uses("restart") /\ spoilt' = (spoilt \ {"store"}) \cup {w \in {"row"} : Behind}
      /\ loose' = loose \cup (open \ Of(row)) /\ missed' = {} /\ late' = late
      /\ Untracked /\ change' = NoChange /\ events' = {} /\ sweepDue' = TRUE
      /\ cache' = perms /\ updates' = <<>> /\ run' = [g \in Goroutines |-> <<>>]
      /\ UNCHANGED <<exists, perms, at, open, posted, hub, row>>
  BY DEF Restart, outside
<1>2. \A g \in Goroutines : run'[g] = <<>>
  BY <1>1
<1>3. ~tracked' /\ occupants' = {} /\ lock' = NoLock /\ tracked' \in BOOLEAN
  BY <1>1 DEF Untracked
<1>4. updates' \in Seq(Lists) /\ <<>> \in Seq(Sections)
  BY <1>1, EmptySeq
<1>5. run' \in [Goroutines -> Seq(Sections)]
  BY <1>1, <1>4
<1>6. /\ left' \in [AccessKinds -> Nat] /\ spoilt' \subseteq Wrongs /\ missed' \subseteq Members
      /\ loose' \subseteq 1 .. posted'
  BY <1>1, LeftInNat DEF AccessKinds, Wrongs, AccessTypes
<1>7. AccessTypes'
  BY <1>1, <1>3, <1>4, <1>5, <1>6 DEF AccessTypes
<1>8. \A g \in Goroutines : Planned(run'[g]) /\ ~EndsOne(run'[g])
  BY <1>2, EmptyPlan
<1>9. Sweep \in Goroutines
  BY DEF Goroutines
<1> QED BY <1>1, <1>2, <1>3, <1>7, <1>8, <1>9 DEF Plans, Holds

-----------------------------------------------------------------------------
(* What a step may add or leave out of the guests on their way.            *)

(* The sections in the middle of a lock or an unlock.                      *)
Middle == {"lockEdit", "lockCommit", "postNotice", "noticed", "writeLock",
           "closeNotice", "unlockEdit", "unlockCommit"}
Plain(q) == q # <<>> => q[1].do \notin Middle

LEMMA AddsNext ==
  ASSUME AccessTypes, NEW g \in Goroutines, NEW q, Planned(q), Becomes(g, q), NEW m
  PROVE  /\ Adds(m)' <=> AddsIn(q, m) \/ \E h \in Goroutines : h # g /\ AddsIn(run[h], m)
         /\ Adds(m) <=> AddsIn(run[g], m) \/ \E h \in Goroutines : h # g /\ AddsIn(run[h], m)
         /\ (AddsIn(q, m) <=> AddsIn(run[g], m)) => (Adds(m)' <=> Adds(m))
         /\ (AddsIn(q, m) => AddsIn(run[g], m)) => (Adds(m)' => Adds(m))
<1>1. run'[g] = q /\ \A h \in Goroutines : h # g => run'[h] = run[h]
  BY RunsOn
<1>2. Adds(m)' <=> AddsIn(run'[g], m) \/ \E h \in Goroutines : h # g /\ AddsIn(run'[h], m)
  BY DEF Adds, AddsIn
<1>3. Adds(m) <=> AddsIn(run[g], m) \/ \E h \in Goroutines : h # g /\ AddsIn(run[h], m)
  BY DEF Adds
<1>4. AddsIn(run'[g], m) <=> AddsIn(q, m)
  BY <1>1
<1>5. \A h \in Goroutines : h # g => (AddsIn(run'[h], m) <=> AddsIn(run[h], m))
  BY <1>1
<1> QED BY <1>2, <1>3, <1>4, <1>5

(* The one who holds an access change is alone in the middle of it.        *)
LEMMA Alone ==
  ASSUME AccessTypes, Plans, NEW g \in Goroutines, Holds(g)
  PROVE  /\ change # NoChange
         /\ \A h \in Goroutines : h # g => Plain(run[h]) /\ ~Holds(h)
  BY Heads DEF Plans, ChangeDos, Middle, Now, Plain

LEMMA NobodyHolds ==
  ASSUME AccessTypes, Plans, change = NoChange
  PROVE  \A h \in Goroutines : Plain(run[h]) /\ ~Holds(h)
  BY Heads DEF Plans, ChangeDos, Middle, Now, Plain

(* The middle of a lock or unlock adds nobody.                             *)
LEMMA MiddleAdds ==
  ASSUME NEW q, Planned(q), q # <<>>, q[1].do \in Middle, NEW m
  PROVE  ~AddsIn(q, m)
<1> DEFINE Tells(p) == Planned(p) /\ p # <<>>
           n1 == {"end"}
           n2 == n1 \cup {"postNotice", "closeNotice", "unlockCommit"}
           n3 == n2 \cup {"lockCommit", "writeLock", "unlockEdit"}
<1>1. ASSUME NEW p, Tells(p)
      PROVE  /\ p[1].do \notin {"add", "addSend", "pick"} => (AddsIn(p, m) <=> AddsIn(Tail(p), m))
             /\ p[1].do = "end" => ~AddsIn(Tail(p), m)
             /\ p[1].do \in Middle => Tells(Tail(p)) /\ Follows(p[1], Tail(p)[1])
  BY <1>1, AddsTail, TailPlan, AddsNone DEF AddsOf, Middle, Ones, Commands
<1> HIDE DEF Tells
<1>2. ASSUME NEW p, Tells(p), p[1].do \in n1 PROVE ~AddsIn(p, m)
  BY <1>1, <1>2
<1>3. ASSUME NEW p, Tells(p), p[1].do \in n2 PROVE ~AddsIn(p, m)
  BY <1>1, <1>2, <1>3 DEF Middle, Follows
<1>4. ASSUME NEW p, Tells(p), p[1].do \in n3 PROVE ~AddsIn(p, m)
  BY <1>1, <1>3, <1>4 DEF Middle, Follows
<1>5. CASE q[1].do \in n3
  BY <1>4, <1>5 DEF Tells
<1>6. CASE q[1].do \in {"lockEdit", "noticed"}
  BY <1>1, <1>4, <1>6 DEF Tells, Middle, Follows
<1> QED BY <1>5, <1>6 DEF Middle

(* What is told of the lock where only g is in the middle of a change.     *)
RowAt(g) == tracked => row = lock \/ RowDue(g)
NoticeAt(g) ==
  /\ At(g, "noticed") \/ At(g, "closeNotice") => Bare \subseteq Of(Now(g).held)
  /\ At(g, "writeLock") /\ Now(g).held = NoLock => Bare \subseteq Of(run[g][2].held)
  /\ ~At(g, "noticed") /\ ~Closing(g) => Bare \subseteq Of(Stands)
ButtonsAt(g) ==
  /\ At(g, "noticed") => Of(Now(g).held) \subseteq open
  /\ ~At(g, "unlockCommit") => Of(Stands) \subseteq open

LEMMA Solo ==
  ASSUME NEW g \in Goroutines, \A h \in Goroutines : h # g => Plain(run[h])
  PROVE  /\ (\A h \in Goroutines : Phase(h)) <=> Phase(g)
         /\ RowRight <=> RowAt(g)
         /\ NoticeRight <=> NoticeAt(g)
         /\ ButtonsRight <=> ButtonsAt(g)
         /\ Committing <=> At(g, "lockCommit")
         /\ Opening <=> At(g, "unlockCommit")
         /\ \A h \in Goroutines : At(h, "lockEdit") => h = g
<1>1. \A h \in Goroutines : h # g => \A d \in Middle : ~At(h, d)
  BY DEF Plain, At, Now
<1>2. \A h \in Goroutines : h # g => Phase(h) /\ ~RowDue(h) /\ ~Closing(h)
  BY <1>1 DEF Middle, Phase, RowDue, Closing
<1>3. RowRight <=> RowAt(g)
  BY <1>2 DEF RowRight, RowAt
<1>4. NoticeRight <=> NoticeAt(g)
  BY <1>1, <1>2 DEF Middle, NoticeRight, NoticeAt
<1>5. Committing <=> At(g, "lockCommit")
  BY <1>1 DEF Committing, Middle
<1>6. Opening <=> At(g, "unlockCommit")
  BY <1>1 DEF Opening, Middle
<1>7. \A h \in Goroutines : At(h, "lockEdit") => h = g
  BY <1>1 DEF Middle
<1>8. ButtonsRight <=> ButtonsAt(g)
  BY <1>1, <1>6 DEF Middle, ButtonsRight, ButtonsAt
<1> QED BY <1>2, <1>3, <1>4, <1>5, <1>6, <1>7, <1>8

(* The same, after a step.                                                 *)
LEMMA SoloNext ==
  ASSUME NEW g \in Goroutines, \A h \in Goroutines : h # g => Plain(run'[h])
  PROVE  /\ (\A h \in Goroutines : Phase(h)') <=> Phase(g)'
         /\ RowRight' <=> RowAt(g)'
         /\ NoticeRight' <=> NoticeAt(g)'
         /\ ButtonsRight' <=> ButtonsAt(g)'
         /\ Committing' <=> At(g, "lockCommit")'
         /\ Opening' <=> At(g, "unlockCommit")'
         /\ \A h \in Goroutines : At(h, "lockEdit")' => h = g
<1>1. \A h \in Goroutines : h # g => \A d \in Middle : ~At(h, d)'
  BY DEF Plain, At, Now
<1>2. \A h \in Goroutines : h # g => Phase(h)' /\ ~RowDue(h)' /\ ~Closing(h)'
  BY <1>1 DEF Middle, Phase, RowDue, Closing
<1>3. RowRight' <=> RowAt(g)'
  BY <1>2 DEF RowRight, RowAt
<1>4. NoticeRight' <=> NoticeAt(g)'
  BY <1>1, <1>2 DEF Middle, NoticeRight, NoticeAt
<1>5. Committing' <=> At(g, "lockCommit")'
  BY <1>1 DEF Committing, Middle
<1>6. Opening' <=> At(g, "unlockCommit")'
  BY <1>1 DEF Opening, Middle
<1>7. \A h \in Goroutines : At(h, "lockEdit")' => h = g
  BY <1>1 DEF Middle
<1>8. ButtonsRight' <=> ButtonsAt(g)'
  BY <1>1, <1>6 DEF Middle, ButtonsRight, ButtonsAt
<1> QED BY <1>2, <1>3, <1>4, <1>5, <1>6, <1>7, <1>8

(* A step of nobody in the middle of a change, that moves neither lock,    *)
(* row nor notice.                                                         *)
SameMiddle == \A h \in Goroutines : run'[h] = run[h] \/ (Plain(run[h]) /\ Plain(run'[h]))
LEMMA Keeps ==
  ASSUME SameMiddle, UNCHANGED <<tracked, lock, row, open, loose>>
  PROVE  /\ (\A h \in Goroutines : Phase(h)) => \A h \in Goroutines : Phase(h)'
         /\ RowRight => RowRight'
         /\ NoticeRight => NoticeRight'
         /\ ButtonsRight => ButtonsRight'
         /\ Shut' <=> Shut
         /\ \A h \in Goroutines : At(h, "lockEdit")' <=> At(h, "lockEdit")
         /\ \A h \in Goroutines : At(h, "lockEdit") => Now(h)' = Now(h)
<1>1. \A h \in Goroutines, d \in Middle :
        (At(h, d)' <=> At(h, d)) /\ (At(h, d) => run'[h] = run[h] /\ Now(h)' = Now(h))
  BY DEF SameMiddle, Plain, At, Now
<1>2. ASSUME NEW h \in Goroutines, Phase(h) PROVE Phase(h)'
  BY <1>1, <1>2 DEF Phase, Middle
<1>3. \A h \in Goroutines : RowDue(h)' <=> RowDue(h)
  BY <1>1 DEF RowDue, Middle
<1>4. RowRight => RowRight'
  BY <1>3 DEF RowRight
<1>5. \A h \in Goroutines : Closing(h)' <=> Closing(h)
  BY <1>1 DEF Closing, Middle
<1>6. Stands' = Stands /\ (\A l : Of(l)' = Of(l)) /\ Bare' = Bare
  BY DEF Stands, Of, Bare
<1>7. NoticeRight => NoticeRight'
  BY <1>1, <1>5, <1>6 DEF Middle, NoticeRight, Stands, Of
<1>8. (Committing' <=> Committing) /\ (Opening' <=> Opening)
  BY <1>1 DEF Committing, Opening, Middle
<1>9. Shut' <=> Shut
  BY <1>6, <1>8 DEF Shut
<1>10. \A h \in Goroutines : (At(h, "lockEdit")' <=> At(h, "lockEdit"))
                             /\ (At(h, "lockEdit") => Now(h)' = Now(h))
  BY <1>1 DEF Middle
<1>11. ButtonsRight => ButtonsRight'
  BY <1>1, <1>6, <1>8 DEF Middle, ButtonsRight, Stands, Of
<1> QED BY <1>2, <1>4, <1>7, <1>9, <1>10, <1>11

(* A step of g that leaves locked what others hold.                        *)
LEMMA HoldersStay ==
  ASSUME AccessTypes, Plans, HoldersAdd, NEW g \in Goroutines, NEW q, Planned(q), Becomes(g, q),
         (lock # NoLock => lock' # NoLock) \/ Holds(g),
         \A m \in Members \cup {NoOne} : EndsOne(q) /\ AddsIn(q, m) => lock' # NoLock
  PROVE  HoldersAdd'
<1>1. run'[g] = q /\ \A h \in Goroutines : h # g => run'[h] = run[h]
  BY RunsOn
<1>2. ASSUME NEW h \in Goroutines, NEW m \in Members \cup {NoOne}, EndsOne(run'[h]), AddsIn(run'[h], m)
      PROVE  lock' # NoLock
  <2>1. CASE h = g
    BY <1>1, <1>2, <2>1
  <2>2. CASE h # g
    <3>1. Holds(h) /\ AddsIn(run[h], m)
      BY <1>1, <1>2, <2>2 DEF Holds
    <3>2. ~Holds(g)
      BY <2>2, <3>1 DEF Plans
    <3> QED BY <3>1, <3>2 DEF HoldersAdd
  <2> QED BY <2>1, <2>2
<1>3. \A h \in Goroutines : Holds(h)' <=> EndsOne(run'[h])
  BY DEF Holds, EndsOne
<1>4. \A h \in Goroutines : \A m : AddsIn(run[h], m)' <=> AddsIn(run'[h], m)
  BY DEF AddsIn, AddsOf
<1> QED BY <1>2, <1>3, <1>4 DEF HoldersAdd

(* Whoever comes while a lock's edit is on its way is held.                *)
LEMMA EditStays ==
  ASSUME AccessTypes, Plans, EditFull, SameMiddle, UNCHANGED <<tracked, lock, row, open, loose>>,
         change # NoChange => change \subseteq change' /\ occupants' \subseteq occupants \cup change'
  PROVE  EditFull'
<1>1. \A h \in Goroutines : /\ At(h, "lockEdit")' <=> At(h, "lockEdit")
                            /\ At(h, "lockEdit") => Now(h)' = Now(h)
  BY Keeps
<1>2. ASSUME NEW h \in Goroutines, At(h, "lockEdit") PROVE change # NoChange
  BY <1>2, Heads DEF At, ChangeDos, Plans
<1> QED BY <1>1, <1>2 DEF EditFull

-----------------------------------------------------------------------------
(* What each step keeps of what is told of the lock.                       *)

LEMMA GoneTold == ASSUME ~exists' PROVE Told'
BY DEF Told

(* One step of a goroutine that is not about to run a command or the       *)
(* sweep's rebuild.                                                        *)
LEMMA WholeStep ==
  ASSUME Basics, Whole, NEW g \in Goroutines, NEW q, Planned(q), Becomes(g, q), run[g] # <<>>,
         Now(g).do \notin Commands \cup {"rebuild"},
         q # <<>> => q[1].do \notin {"forget", "rebuild"},
         tracked' = tracked, row' # NoRow, sweepDue' = sweepDue,
         ~tracked => change' = change /\ row' = row
  PROVE  Whole' /\ (~tracked => g = Sweep)
<1> USE DEF Basics
<1>1. run'[g] = q /\ \A h \in Goroutines : h # g => run'[h] = run[h]
  BY RunsOn
<1>2. \A h \in Goroutines : ~At(h, "forget")'
  BY <1>1 DEF Whole, At, Now
<1>3. Sweep \in Goroutines /\ Calls \subseteq Goroutines /\ Sweep \notin Calls
  BY AccessConstants DEF Goroutines
<1>4. At(Sweep, "rebuild")' => g # Sweep /\ At(Sweep, "rebuild") /\ Now(Sweep)' = Now(Sweep)
  BY <1>1, <1>3 DEF At, Now
<1>5. ~tracked => g = Sweep
  BY DEF Whole, Goroutines
<1>6. ASSUME ~tracked
      PROVE  /\ Rebuilding' /\ change' = NoChange
             /\ \A c \in Calls : run'[c] # <<>> => Now(c)'.do \in Commands
             /\ At(Sweep, "rebuild")' => Now(Sweep)'.held = row'
  BY <1>1, <1>3, <1>4, <1>5, <1>6 DEF At, Whole, Rebuilding, Now
<1>7. At(Sweep, "rebuild")' => Now(Sweep)'.held # NoRow
  BY <1>4 DEF Whole
<1> QED BY <1>2, <1>5, <1>6, <1>7 DEF Whole

(* A step that leaves lock, row and notice alone and nobody in the middle  *)
(* of a change moves.                                                      *)
LEMMA KeepsTold ==
  ASSUME Told, exists' => exists, SameMiddle, UNCHANGED <<tracked, lock, row, open, loose, spoilt>>,
         exists /\ Lasting => Whole' /\ Heard' /\ HoldersAdd' /\ EditFull',
         exists /\ Lasting /\ ListRight /\ GuestsCovered => ListRight' /\ GuestsCovered'
  PROVE  Told'
<1> SUFFICES ASSUME exists', exists PROVE Told'
  BY GoneTold
<1>1. Lasting
  BY DEF Told
<1>2. /\ \A h \in Goroutines : Phase(h)'
      /\ RowRight => RowRight'
      /\ NoticeRight'
      /\ ButtonsRight => ButtonsRight'
  BY <1>1, Keeps DEF Lasting
<1>3. \A wrongs : Sound(wrongs)' <=> Sound(wrongs)
  BY DEF Sound
<1>4. Lasting'
  BY <1>1, <1>2 DEF Lasting
<1> QED BY <1>1, <1>2, <1>3, <1>4 DEF Told

(* A step that takes nobody's cover.                                       *)
LEMMA GuestsStay ==
  ASSUME GuestsCovered, occupants \subseteq Members,
         \A m \in Members : Adds(m) => Adds(m)', perms.guests \subseteq perms'.guests,
         change # NoChange => change' = change,
         occupants' \ missed' \subseteq occupants \ missed, Rebuilding => Rebuilding'
  PROVE  Shut => \A m \in occupants' \ missed' : Covered(m)'
  BY DEF GuestsCovered, Covered

(* A step that leaves the channel's list as it is.                         *)
LEMMA GuestsMove ==
  ASSUME ListRight, Shut' <=> Shut, UNCHANGED <<perms, late>>,
         Shut => \A m \in occupants' \ missed' : Covered(m)'
  PROVE  ListRight' /\ GuestsCovered'
  BY DEF ListRight, GuestsCovered

LEMMA SameRun ==
  ASSUME run' = run
  PROVE  /\ SameMiddle /\ \A m : Adds(m)' <=> Adds(m)
         /\ \A h, d : At(h, d)' <=> At(h, d)
         /\ \A h : Now(h)' = Now(h)
         /\ lock' = lock /\ HoldersAdd => HoldersAdd'
BY DEF SameMiddle, Adds, AddsIn, AddsOf, At, Now, HoldersAdd, Holds, EndsOne

LEMMA AsideTold ==
  ASSUME Basics, Told, Aside
  PROVE  Told'
<1> USE DEF Basics
<1>1. CASE HandDelete
  BY <1>1, GoneTold DEF HandDelete
<1>2. CASE ~HandDelete
  <2>0. run' = run /\ SameMiddle /\ (\A m : Adds(m)' <=> Adds(m))
        /\ (\A h, d : At(h, d)' <=> At(h, d)) /\ (\A h : Now(h)' = Now(h))
        /\ (lock' = lock /\ HoldersAdd => HoldersAdd')
    BY AsideBasics, SameRun
  <2>1. UNCHANGED <<exists, perms, open, tracked, occupants, lock, change, row, spoilt, missed, late, loose>>
    BY <1>2 DEF Aside, ChannelUpdate, SaveHub, Reconnect, Move, outside, record, budget, own, gateway,
                Spend, Uses
  <2>2. Rebuilding => Rebuilding'
    BY <1>2, <2>0 DEF Rebuilding, Aside, ChannelUpdate, SaveHub, Reconnect, Move, gateway
  <2>3. Whole => Whole'
    BY <2>0, <2>1, <2>2 DEF Whole
  <2>4. Heard => Heard'
    BY <1>2, <2>1, <2>2 DEF Aside, ChannelUpdate, SaveHub, Reconnect, Move, gateway,
       outside, Heard
  <2>5. EditFull => EditFull'
    BY <2>0, <2>1, EditStays
  <2>6. ListRight /\ GuestsCovered => ListRight' /\ GuestsCovered'
    BY <2>0, <2>1, <2>2, Keeps, GuestsStay, GuestsMove DEF AccessTypes
  <2> QED BY <2>0, <2>1, <2>3, <2>4, <2>5, <2>6, KeepsTold DEF Lasting
<1> QED BY <1>1, <1>2

(* A step of goroutine g alone that adds nobody and starts no middle.      *)
LEMMA StepKeeps ==
  ASSUME Basics, NEW g \in Goroutines, NEW q, Planned(q), Becomes(g, q),
         Plain(run[g]), Plain(q)
  PROVE  /\ SameMiddle /\ run'[g] = q
         /\ \A h \in Goroutines : h # g => run'[h] = run[h] /\ Now(h)' = Now(h)
                                           /\ \A d : At(h, d)' <=> At(h, d)
         /\ (\A m : AddsIn(q, m) <=> AddsIn(run[g], m)) => \A m : Adds(m)' <=> Adds(m)
         /\ (At(Sweep, "rebuild") => g # Sweep) => (At(Sweep, "rebuild") => At(Sweep, "rebuild")')
         /\ \A m : Adds(m)' => AddsIn(q, m) \/ Adds(m)
         /\ \A m : Adds(m) => AddsIn(run[g], m) \/ Adds(m)'
         /\ \A m : AddsIn(q, m) => Adds(m)'
         /\ (/\ HoldersAdd /\ (lock # NoLock => lock' # NoLock)
             /\ (\A m \in Members \cup {NoOne} : EndsOne(q) /\ AddsIn(q, m) => lock' # NoLock))
            => HoldersAdd'
<1>1. run'[g] = q /\ \A h \in Goroutines : h # g => run'[h] = run[h]
  BY RunsOn DEF Basics
<1>2. SameMiddle
  BY <1>1 DEF SameMiddle
<1>3. \A h \in Goroutines : h # g => Now(h)' = Now(h) /\ \A d : At(h, d)' <=> At(h, d)
  BY <1>1 DEF Now, At
<1>4. \A m : /\ Adds(m)' <=> AddsIn(q, m) \/ \E h \in Goroutines : h # g /\ AddsIn(run[h], m)
             /\ Adds(m) <=> AddsIn(run[g], m) \/ \E h \in Goroutines : h # g /\ AddsIn(run[h], m)
  BY AddsNext DEF Basics
<1>5. Sweep \in Goroutines
  BY DEF Goroutines
<1>6. (/\ HoldersAdd /\ (lock # NoLock => lock' # NoLock)
       /\ (\A m \in Members \cup {NoOne} : EndsOne(q) /\ AddsIn(q, m) => lock' # NoLock))
      => HoldersAdd'
  BY HoldersStay DEF Basics
<1> QED BY <1>1, <1>2, <1>3, <1>4, <1>5, <1>6

LEMMA AskedTold ==
  ASSUME Basics, Told, NEW g \in Calls, NEW by \in Members,
         (\E do \in {"lock", "unlock"} : Asks(g, do, by)) \/ Presses(g, by)
  PROVE  Told'
<1> USE DEF Basics
<1>1. PICK q : /\ Planned(q) /\ Becomes(g, q) /\ q # <<>> /\ q[1].do \in Commands
               /\ \A m : ~AddsIn(q, m)
  BY AskedBasics
<1>2. /\ UNCHANGED <<exists, perms, at, open, posted, cache, updates, events, sweepDue, hub,
                     tracked, occupants, lock, change, row, spoilt, missed, late, loose>>
      /\ run[g] = <<>>
  BY AskedBasics DEF outside, gateway, record, own
<1>3. g \in Goroutines /\ g # Sweep /\ Plain(run[g]) /\ Plain(q)
  BY <1>1, <1>2, AccessConstants DEF Goroutines, Plain, Middle, Commands
<1>4. /\ SameMiddle /\ run'[g] = q
      /\ \A h \in Goroutines : h # g => run'[h] = run[h] /\ Now(h)' = Now(h)
                                        /\ \A d : At(h, d)' <=> At(h, d)
      /\ \A m : Adds(m)' <=> Adds(m)
      /\ HoldersAdd => HoldersAdd'
  BY <1>1, <1>2, <1>3, AddsNone, StepKeeps
<1>5. Sweep \in Goroutines /\ Rebuilding' = Rebuilding /\ Calls \subseteq Goroutines
  BY <1>2, <1>3, <1>4 DEF Rebuilding, Goroutines
<1>6. Whole => Whole'
  BY <1>1, <1>2, <1>3, <1>4, <1>5 DEF At, Now, Commands, Whole
<1>7. Heard => Heard'
  BY <1>2, <1>5 DEF Heard
<1>8. ListRight /\ GuestsCovered => ListRight' /\ GuestsCovered'
  BY <1>2, <1>4, <1>5, Keeps, GuestsStay, GuestsMove DEF AccessTypes
<1>9. EditFull => EditFull'
  BY <1>2, <1>4, EditStays
<1> QED BY <1>2, <1>4, <1>6, <1>7, <1>8, <1>9, KeepsTold DEF Lasting

LEMMA SweepStartTold ==
  ASSUME Basics, Told, SweepStart
  PROVE  Told'
<1> USE DEF Basics
<1>1. PICK q : /\ Planned(q) /\ Becomes(Sweep, q) /\ q # <<>> /\ q[1].do = "rebuild"
               /\ q[1].held = row /\ \A m : ~AddsIn(q, m)
  BY SweepStartBasics
<1>2. /\ UNCHANGED <<exists, perms, at, open, posted, cache, updates, events, hub,
                     tracked, occupants, lock, change, row, left, spoilt, missed, late, loose>>
      /\ run[Sweep] = <<>>
  BY DEF SweepStart, outside, record, budget, own
<1>3. Sweep \in Goroutines /\ Plain(run[Sweep]) /\ Plain(q)
  BY <1>1, <1>2 DEF Goroutines, Plain, Middle
<1>4. /\ SameMiddle /\ run'[Sweep] = q
      /\ \A h \in Goroutines : h # Sweep => run'[h] = run[h] /\ Now(h)' = Now(h)
                                            /\ \A d : At(h, d)' <=> At(h, d)
      /\ \A m : Adds(m)' <=> Adds(m)
      /\ HoldersAdd => HoldersAdd'
  BY <1>1, <1>2, <1>3, AddsNone, StepKeeps
<1>5. Now(Sweep)' = q[1] /\ At(Sweep, "rebuild")' /\ Rebuilding'
  BY <1>1, <1>4 DEF Now, At, Rebuilding
<1>6. Whole => Whole'
  BY <1>1, <1>2, <1>4, <1>5, AccessConstants DEF At, Goroutines, Whole
<1>7. Heard => Heard'
  BY <1>5 DEF Heard
<1>8. ListRight /\ GuestsCovered => ListRight' /\ GuestsCovered'
  BY <1>2, <1>4, <1>5, Keeps, GuestsStay, GuestsMove DEF AccessTypes
<1>9. EditFull => EditFull'
  BY <1>2, <1>4, EditStays
<1> QED BY <1>2, <1>4, <1>6, <1>7, <1>8, <1>9, KeepsTold DEF Lasting

LEMMA DeleteForgetTold ==
  ASSUME Basics, Told, NEW g \in Goroutines, DeleteEmpty(g) \/ Forget(g)
  PROVE  Told'
<1> USE DEF Basics
<1> SUFFICES ASSUME exists' PROVE Told'
  BY GoneTold
<1>1. CASE Forget(g)
  BY <1>1 DEF Forget, outside, Told, Lasting, Whole
<1>2. CASE DeleteEmpty(g)
  <2>1. /\ UNCHANGED <<exists, perms, at, open, posted, cache, updates, events, sweepDue, hub,
                       tracked, occupants, lock, change, row, left, spoilt, missed, late, loose>>
        /\ Goes(g) /\ run[g] # <<>> /\ Now(g).do = "deleteEmpty"
    BY <1>2 DEF DeleteEmpty, gateway, record, budget, own, At
  <2>2. Tail(run[g]) = <<>> /\ Planned(run[g]) /\ run[g][1] = Now(g)
    BY <2>1, Heads DEF Ones, Now
  <2>3. Becomes(g, <<>>) /\ Planned(<<>>) /\ Plain(<<>>) /\ Plain(run[g])
    BY <2>1, <2>2, EmptyPlan DEF Goes, Plain, Middle
  <2>4. \A m : AddsIn(<<>>, m) <=> AddsIn(run[g], m)
    BY <2>1, <2>2, AddsNone, AddsTail DEF AddsOf
  <2>5. /\ SameMiddle /\ run'[g] = <<>>
        /\ \A h \in Goroutines : h # g => run'[h] = run[h] /\ Now(h)' = Now(h)
                                          /\ \A d : At(h, d)' <=> At(h, d)
        /\ \A m : Adds(m)' <=> Adds(m)
        /\ HoldersAdd => HoldersAdd'
    BY <2>1, <2>3, <2>4, AddsNone, StepKeeps
  <2>6. Whole => Whole'
    BY <2>1, <2>3, WholeStep DEF Whole, Commands
  <2>7. Rebuilding' <=> Rebuilding
    BY <2>1, <2>5 DEF At, Goroutines, Rebuilding
  <2>8. Heard => Heard'
    BY <2>1, <2>7 DEF Heard
  <2>9. ListRight /\ GuestsCovered => ListRight' /\ GuestsCovered'
    BY <2>1, <2>5, <2>7, Keeps, GuestsStay, GuestsMove DEF AccessTypes
  <2>10. EditFull => EditFull'
    BY <2>1, <2>5, EditStays
  <2> QED BY <2>1, <2>5, <2>6, <2>8, <2>9, <2>10, KeepsTold DEF Lasting
<1> QED BY <1>1, <1>2

LEMMA RebuildStays ==
  ASSUME Basics, NEW g \in Goroutines, NEW q, Planned(q), Becomes(g, q), sweepDue' = sweepDue,
         run[g] # <<>>, Now(g).do # "rebuild", q # <<>> => q[1].do # "rebuild"
  PROVE  Rebuilding' <=> Rebuilding
  BY RunsOn DEF Basics, At, Now, Goroutines, Rebuilding

LEMMA NextGuestTold ==
  ASSUME Basics, Told, NEW g \in Goroutines, NextGuest(g)
  PROVE  Told'
<1> USE DEF Basics
<1> SUFFICES ASSUME exists' PROVE Told'
  BY GoneTold
<1>1. /\ UNCHANGED <<exists, perms, at, open, posted, cache, updates, events, sweepDue, hub,
                     tracked, occupants, lock, change, row, left, spoilt, late, loose>>
      /\ run[g] # <<>> /\ Now(g).do \in {"add", "pick"}
  BY DEF NextGuest, outside, gateway, record
<1>2. /\ Planned(run[g]) /\ run[g][1] = Now(g) /\ Plain(run[g]) /\ Now(g).who \subseteq Members
      /\ EndsOne(Tail(run[g])) <=> Holds(g)
  BY <1>1, Heads DEF Plain, Middle, Now
<1>3. ASSUME NEW m PROVE AddsIn(run[g], m) <=> m \in AddsOf(Now(g)) \/ AddsIn(Tail(run[g]), m)
  BY <1>1, <1>2, AddsTail
<1>4. exists
  BY <1>1
<1> DEFINE Goes1(q) ==
             /\ Planned(q) /\ Becomes(g, q)
             /\ q # <<>> => q[1].do \in {"add", "pick", "addSend", "end"}
             /\ EndsOne(q) <=> Holds(g)
             /\ \A n : AddsIn(q, n) => AddsIn(run[g], n) \/ Now(g).do = "pick"
             /\ \A n \in occupants \ missed' : AddsIn(run[g], n) => AddsIn(q, n) \/ n \in perms.guests
             /\ missed \subseteq missed'
<1>5. \E q : Goes1(q)
  <2>1. CASE Now(g).who = {} /\ Goes(g) /\ missed' = missed
    <3>1. Planned(Tail(run[g])) /\ (Tail(run[g]) # <<>> => Tail(run[g])[1].do = "end")
      BY <1>1, Heads DEF Follows
    <3>2. \A n \in Members : n \notin AddsOf(Now(g))
      BY <1>1, <2>1, AccessConstants DEF AddsOf
    <3>3. Goes1(Tail(run[g]))
      BY <1>2, <1>3, <2>1, <3>1, <3>2 DEF Goes, AccessTypes
    <3> QED BY <3>3
  <2>2. ASSUME NEW m \in Now(g).who, NEW q,
               Becomes(g, q), Planned(q), q # <<>>,
               q[1].do \in {"add", "pick", "addSend"}, EndsOne(q) <=> Holds(g),
               \A n : AddsIn(run[g], n) => AddsIn(q, n) \/
                        (n = m /\ Now(g).do = "add" /\ ~(exists /\ Wanted("add", m))),
               \A n : AddsIn(q, n) => AddsIn(run[g], n) \/ Now(g).do = "pick",
               missed' = missed \cup
                 {n \in (occupants \ at) \cup (cache.guests \ perms.guests) :
                    n = m /\ Now(g).do = "add"},
               exists
        PROVE  Goes1(q)
    BY <2>2 DEF Wanted
  <2> QED BY <1>4, <2>1, <2>2, NextGuestBasics
<1>6. PICK q : Goes1(q)
  BY <1>5
<1>7. Plain(q)
  BY <1>6 DEF Plain, Middle
<1>8. /\ SameMiddle /\ run'[g] = q
      /\ \A m : Adds(m) => AddsIn(run[g], m) \/ Adds(m)'
      /\ \A m : AddsIn(q, m) => Adds(m)'
  BY <1>2, <1>6, <1>7, StepKeeps
<1>9. Rebuilding' <=> Rebuilding
  BY <1>1, <1>6, RebuildStays
<1>10. Whole => Whole'
  BY <1>1, <1>6, WholeStep DEF Whole, Commands
<1>11. Heard => Heard'
  BY <1>1, <1>9 DEF Heard
<1>12. HoldersAdd => HoldersAdd'
  <2>1. Now(g).do = "pick" => AddsIn(run[g], NoOne)
    BY <1>1, <1>3 DEF AddsOf
  <2> QED BY <1>1, <1>6, <2>1, HoldersStay DEF HoldersAdd
<1>13. EditFull => EditFull'
  BY <1>1, <1>8, EditStays
<1>14. ListRight /\ GuestsCovered => ListRight' /\ GuestsCovered'
  <2>1. ASSUME GuestsCovered, Shut, NEW m \in occupants' \ missed' PROVE Covered(m)'
    BY <1>1, <1>6, <1>8, <1>9, <2>1 DEF GuestsCovered, Covered
  <2> QED BY <1>1, <1>8, <2>1, Keeps, GuestsMove
<1> QED BY <1>1, <1>8, <1>10, <1>11, <1>12, <1>13, <1>14, KeepsTold DEF Lasting

(* With no one in the middle of a change, an unlocked channel is not shut. *)
LEMMA NotShut ==
  ASSUME tracked, lock = NoLock, \A h \in Goroutines : Plain(run[h])
  PROVE  ~Shut
  BY DEF Plain, At, Now, Shut, Stands, Committing, Middle

LEMMA EndChangeTold ==
  ASSUME Basics, Told, NEW g \in Goroutines, EndChange(g)
  PROVE  Told'
<1> USE DEF Basics
<1> SUFFICES ASSUME exists' PROVE Told'
  BY GoneTold
<1>1. /\ UNCHANGED <<exists, perms, at, open, posted, cache, updates, events, sweepDue, hub,
                     tracked, occupants, lock, row, left, spoilt, missed, late, loose>>
      /\ run[g] # <<>> /\ Now(g).do = "end"
  BY DEF EndChange, outside, gateway, budget, own, At
<1>2. exists /\ Lasting
  BY <1>1 DEF Told
<1>3. /\ Holds(g) /\ Tail(run[g]) = <<>>
      /\ \/ Held = {} /\ change' = NoChange /\ Becomes(g, <<>>)
         \/ /\ Held # {} /\ change' = {} /\ lock # NoLock /\ Held = change
            /\ \E q : /\ Planned(q) /\ Becomes(g, q) /\ q # <<>> /\ q[1].do = "add"
                      /\ \A m : AddsIn(q, m) <=> m \in Held
  BY EndChangeBasics DEF EndsOne
<1>4. PICK q : /\ Planned(q) /\ Becomes(g, q) /\ (q # <<>> => q[1].do = "add")
               /\ \A m : AddsIn(q, m) <=> m \in Held
               /\ Held # {} => Held = change /\ lock # NoLock
  BY <1>3, EmptyPlan, AddsNone
<1>5. Plain(run[g]) /\ Plain(q)
  BY <1>1, <1>4 DEF Plain, Middle, Now
<1>6. /\ SameMiddle /\ run'[g] = q
      /\ \A m : Adds(m) => AddsIn(run[g], m) \/ Adds(m)'
      /\ \A m : AddsIn(q, m) => Adds(m)'
      /\ HoldersAdd'
  BY <1>1, <1>2, <1>4, <1>5, StepKeeps DEF Lasting
<1>7. Rebuilding' <=> Rebuilding
  BY <1>1, <1>4, RebuildStays
<1>8. change # NoChange /\ tracked /\ \A h \in Goroutines : Plain(run[h])
  BY <1>2, <1>3, <1>5, Alone DEF Lasting, Whole
<1>9. Whole'
  BY <1>1, <1>2, <1>4, <1>8, WholeStep DEF Lasting, Whole, Commands
<1>10. Heard'
  BY <1>1, <1>2, <1>7 DEF Lasting, Heard
<1>11. EditFull'
  <2>1. \A h \in Goroutines : ~At(h, "lockEdit")
    BY <1>8 DEF Plain, At, Now, Middle
  <2> QED BY <1>1, <1>6, <2>1, Keeps DEF EditFull
<1>12. ListRight /\ GuestsCovered => ListRight' /\ GuestsCovered'
  <2>1. ASSUME NEW m PROVE ~AddsIn(run[g], m)
    BY ZenonT(30), <1>1, <1>3, AddsTail, AddsNone DEF Now, Plans, AddsOf
  <2>2. ASSUME GuestsCovered, Shut, NEW m \in occupants' \ missed' PROVE Covered(m)'
    <3>1. Covered(m) /\ lock # NoLock
      BY <1>1, <1>8, <2>2, NotShut DEF GuestsCovered
    <3> QED BY <1>1, <1>4, <1>6, <1>7, <2>1, <3>1 DEF Covered, Held
  <2> QED BY <1>1, <1>6, <2>2, Keeps, GuestsMove
<1> QED BY <1>1, <1>6, <1>9, <1>10, <1>11, <1>12, KeepsTold

LEMMA AddSendTold ==
  ASSUME Basics, Told, NEW g \in Goroutines, AddSend(g)
  PROVE  Told'
<1> USE DEF Basics
<1> SUFFICES ASSUME exists' PROVE Told'
  BY GoneTold
<1>1. /\ UNCHANGED <<exists, at, open, posted, cache, events, sweepDue, hub, change>>
      /\ run[g] # <<>> /\ Now(g).do = "addSend"
  BY DEF AddSend, At
<1>2. /\ exists /\ Goes(g) /\ UNCHANGED <<tracked, occupants, lock, row, spoilt, loose>>
      /\ \/ /\ perms' = [perms EXCEPT !.guests = @ \cup Now(g).who]
            /\ missed' = missed \ Now(g).who
            /\ late' = IF Direct(g) /\ ~perms.denied THEN late \cup Now(g).who ELSE late
         \/ perms' = perms /\ late' = late /\ missed' = missed \cup Now(g).who
  BY <1>1 DEF AddSend, Uses
<1>3. Lasting
  BY <1>2 DEF Told
<1> DEFINE q == Tail(run[g])
<1>4. /\ Planned(q) /\ q # <<>> /\ q[1].do \in {"add", "pick"} /\ Becomes(g, q)
      /\ Planned(run[g]) /\ run[g][1] = Now(g) /\ Now(g).who \subseteq Members
      /\ EndsOne(q) <=> Holds(g)
  BY <1>1, <1>2, Heads DEF Follows, Ones, Commands, Goes, Now
<1>5. Plain(run[g]) /\ Plain(q)
  BY <1>1, <1>4 DEF Plain, Middle
<1>6. ASSUME NEW m PROVE AddsIn(run[g], m) <=> m \in Now(g).who \/ AddsIn(q, m)
  BY <1>1, <1>4, AddsTail DEF AddsOf
<1> HIDE DEF q
<1>7. /\ SameMiddle /\ run'[g] = q
      /\ \A m : Adds(m) => AddsIn(run[g], m) \/ Adds(m)'
      /\ \A m : AddsIn(q, m) => Adds(m)'
  BY <1>4, <1>5, StepKeeps
<1>8. Rebuilding' <=> Rebuilding
  BY <1>1, <1>4, RebuildStays
<1>9. Whole'
  BY <1>1, <1>2, <1>3, <1>4, WholeStep DEF Lasting, Whole, Commands
<1>10. Heard'
  BY <1>1, <1>2, <1>3, <1>8 DEF Lasting, Heard
<1>11. HoldersAdd'
  BY <1>2, <1>3, <1>4, <1>6, HoldersStay DEF Lasting, HoldersAdd
<1>12. EditFull'
  BY <1>1, <1>2, <1>3, <1>7, EditStays DEF Lasting
<1>13. ASSUME ListRight, GuestsCovered PROVE ListRight' /\ GuestsCovered'
  <2>1. perms \in Lists /\ perms.guests \subseteq Members /\ perms.denied \in BOOLEAN
    BY DEF AccessTypes, Lists
  <2>2. /\ perms'.denied = perms.denied /\ perms.guests \subseteq perms'.guests
        /\ perms'.guests \subseteq perms.guests \cup Now(g).who
        /\ \A m \in Now(g).who : m \in perms'.guests \/ m \in missed'
        /\ missed \ Now(g).who \subseteq missed'
    BY <1>2, <2>1 DEF Lists
  <2>3. Shut' <=> Shut
    BY <1>1, <1>2, <1>7, Keeps
  <2>4. ListRight'
    <3>1. CASE Shut
      BY <1>13, <2>2, <2>3, <3>1 DEF ListRight
    <3>2. CASE ~Shut
      <4>1. ~perms.denied /\ perms.guests \subseteq late
        BY <1>13, <3>2 DEF ListRight
      <4>2. CASE perms'.guests = perms.guests
        BY <1>2, <2>2, <2>3, <3>2, <4>1, <4>2 DEF ListRight
      <4>3. CASE Holds(g)
        <5>1. Now(g).who # {} => lock # NoLock
          BY <1>3, <1>4, <1>6, <4>3 DEF Lasting, HoldersAdd
        <5>2. tracked /\ \A h \in Goroutines : Plain(run[h])
          BY <1>2, <1>3, <1>5, <4>3, Alone DEF Lasting, Whole
        <5>3. Now(g).who # {} => Shut
          BY <5>1, <5>2 DEF Plain, At, Now, Shut, Stands, Opening, Middle
        <5> QED BY <2>2, <3>2, <4>2, <5>3
      <4>4. CASE ~Holds(g)
        <5>1. Direct(g)
          BY <4>4, Direction
        <5>2. perms'.guests \subseteq late'
          BY <1>2, <2>1, <2>2, <4>1, <5>1 DEF Lists
        <5> QED BY <2>2, <2>3, <3>2, <4>1, <5>2 DEF ListRight
      <4> QED BY <4>3, <4>4
    <3> QED BY <3>1, <3>2
  <2>5. ASSUME Shut, NEW m \in occupants' \ missed' PROVE Covered(m)'
    <3>1. CASE m \in Now(g).who
      BY <2>2, <2>5, <3>1 DEF Covered
    <3>2. CASE m \notin Now(g).who
      <4>1. Covered(m)
        BY <1>2, <1>13, <2>2, <2>5, <3>2 DEF GuestsCovered
      <4> QED BY <1>1, <1>6, <1>7, <1>8, <2>2, <3>2, <4>1 DEF Covered
    <3> QED BY <3>1, <3>2
  <2> QED BY <2>3, <2>4, <2>5 DEF GuestsCovered
<1> QED BY <1>1, <1>2, <1>7, <1>9, <1>10, <1>11, <1>12, <1>13, KeepsTold

LEMMA VoiceUpdateTold ==
  ASSUME Basics, Told, NEW g \in Calls, NEW m \in Members, VoiceUpdate(g, m)
  PROVE  Told'
<1> USE DEF Basics
<1> SUFFICES ASSUME exists' PROVE Told'
  BY GoneTold
<1>1. /\ UNCHANGED <<exists, perms, at, open, posted, cache, updates, sweepDue, hub,
                     tracked, lock, row, left, spoilt, late, loose>>
      /\ events' = events \ {m} /\ run[g] = <<>>
  BY DEF VoiceUpdate, outside, Free
<1>2. exists /\ Lasting
  BY <1>1 DEF Told
<1>3. g \in Goroutines /\ g # Sweep /\ Sweep \in Goroutines /\ Calls \subseteq Goroutines
  BY AccessConstants DEF Goroutines
<1>4. \/ \E q :
           /\ tracked /\ m \in at /\ occupants' = occupants \cup {m} /\ missed' = missed \ {m}
           /\ Planned(q) /\ Becomes(g, q) /\ (q # <<>> => q[1].do = "add")
           /\ IF change # NoChange THEN change' = change \cup {m} ELSE change' = change
           /\ \A n : AddsIn(q, n) <=> change = NoChange /\ lock # NoLock /\ n = m
      \/ \E q :
           /\ tracked /\ m \notin at /\ occupants' = occupants \ {m} /\ missed' = missed \ {m}
           /\ change' = change /\ Planned(q) /\ Becomes(g, q)
           /\ (q # <<>> => q[1].do = "deleteEmpty")
           /\ \A n : ~AddsIn(q, n)
      \/ /\ ~tracked \/ (m \in at <=> m \in occupants)
         /\ UNCHANGED <<occupants, change, run, missed>>
  BY SMTT(30), VoiceUpdateBasics
<1>5. CASE /\ ~tracked \/ (m \in at <=> m \in occupants)
           /\ UNCHANGED <<occupants, change, run, missed>>
  <2>1. /\ SameMiddle /\ (\A n : Adds(n)' <=> Adds(n)) /\ (\A h, d : At(h, d)' <=> At(h, d))
        /\ (\A h : Now(h)' = Now(h)) /\ HoldersAdd'
    BY <1>1, <1>2, <1>5, SameRun DEF Lasting
  <2>2. Rebuilding' <=> Rebuilding
    BY <1>1, <2>1 DEF Rebuilding
  <2>3. Whole' /\ Heard'
    BY <1>1, <1>2, <1>5, <2>1, <2>2 DEF Lasting, Whole, Heard, Basics, Plans
  <2>4. EditFull'
    BY <1>1, <1>2, <1>5, <2>1, EditStays DEF Lasting
  <2>5. ListRight /\ GuestsCovered => ListRight' /\ GuestsCovered'
    BY <1>1, <1>5, <2>1, <2>2, Keeps, GuestsStay, GuestsMove DEF AccessTypes
  <2> QED BY <1>1, <2>1, <2>3, <2>4, <2>5, KeepsTold
<1>6. ASSUME NEW q, tracked, Planned(q), Becomes(g, q), q # <<>> => q[1].do \in {"add", "deleteEmpty"},
             \A n : AddsIn(q, n) => change = NoChange /\ lock # NoLock /\ n = m,
             missed' = missed \ {m},
             \/ /\ m \in at /\ occupants' = occupants \cup {m}
                /\ IF change # NoChange THEN change' = change \cup {m} ELSE change' = change
                /\ change = NoChange /\ lock # NoLock => AddsIn(q, m)
             \/ m \notin at /\ occupants' = occupants \ {m} /\ change' = change
      PROVE  Told'
  <2>1. Plain(run[g]) /\ Plain(q)
    BY <1>1, <1>6 DEF Plain, Middle
  <2>2. /\ SameMiddle /\ run'[g] = q
        /\ \A h \in Goroutines : h # g => run'[h] = run[h] /\ Now(h)' = Now(h)
                                          /\ \A d : At(h, d)' <=> At(h, d)
        /\ \A n : Adds(n) => AddsIn(run[g], n) \/ Adds(n)'
        /\ \A n : AddsIn(q, n) => Adds(n)'
        /\ HoldersAdd'
    BY <1>1, <1>2, <1>3, <1>6, <2>1, StepKeeps DEF Lasting
  <2>3. Rebuilding' <=> Rebuilding
    BY <1>1, <1>3, <2>2 DEF Rebuilding
  <2>4. Whole'
    BY <1>1, <1>2, <1>3, <1>6, <2>2 DEF Lasting, Whole, At, Now
  <2>5. Heard'
    BY <1>1, <1>2, <1>6, <2>3 DEF Lasting, Heard
  <2>6. change = NoChange => \A h \in Goroutines : Plain(run[h])
    BY NobodyHolds
  <2>7. change' = NoChange <=> change = NoChange
    BY <1>6, VoiceUpdateBasics, NotAChange DEF AccessTypes
  <2>8. EditFull'
    BY <1>1, <1>2, <1>6, <2>2, EditStays DEF Lasting
  <2>9. ASSUME GuestsCovered, Shut, NEW n \in occupants' \ missed' PROVE Covered(n)'
    <3>1. change = NoChange => lock # NoLock
      BY <1>6, <2>6, <2>9, NotShut
    <3>2. CASE n = m
      BY <1>1, <1>6, <2>2, <2>7, <2>9, <3>1, <3>2 DEF Covered
    <3>3. CASE n # m
      <4>1. Covered(n)
        BY <1>6, <2>9, <3>3 DEF GuestsCovered
      <4> QED BY <1>1, <1>6, <2>2, <2>3, <2>7, <4>1, AddsNone DEF Covered
    <3> QED BY <3>2, <3>3
  <2>10. ListRight /\ GuestsCovered => ListRight' /\ GuestsCovered'
    BY <1>1, <2>2, <2>9, Keeps, GuestsMove
  <2> QED BY <1>1, <2>2, <2>4, <2>5, <2>8, <2>10, KeepsTold
<1>7. CASE ~(/\ ~tracked \/ (m \in at <=> m \in occupants)
             /\ UNCHANGED <<occupants, change, run, missed>>)
  BY <1>4, <1>6, <1>7
<1> QED BY <1>5, <1>7

(* A step in the middle of a change, where only g is.                      *)
LEMMA MiddleTold ==
  ASSUME Basics, Told, exists' => exists, NEW g \in Goroutines,
         \A h \in Goroutines : h # g => Plain(run[h]),
         NEW q, Planned(q), Becomes(g, q), q # <<>>,
         UNCHANGED <<at, occupants, events>>, Rebuilding => Rebuilding',
         Holds(g) \/ lock' = lock,
         \A m \in Members \cup {NoOne} : EndsOne(q) /\ AddsIn(q, m) => lock' # NoLock,
         q[1].do # "lockEdit" \/ EditFull',
         exists /\ Whole /\ Phase(g) => Whole' /\ Phase(g)',
         exists /\ Whole /\ Phase(g) /\ NoticeAt(g) => NoticeAt(g)',
         exists /\ Whole /\ Phase(g) /\ (Sound({"store"}) => RowAt(g)) /\ Sound({"store"})' => RowAt(g)',
         exists /\ Whole /\ Phase(g) /\ (Sound({"row"}) => ButtonsAt(g)) /\ Sound({"row"})'
           => ButtonsAt(g)',
         exists /\ Lasting /\ Phase(g) /\ (Sound({"edit", "row"}) => ListRight /\ GuestsCovered)
           /\ Sound({"edit", "row"})' => ListRight' /\ GuestsCovered'
  PROVE  Told'
<1> SUFFICES ASSUME exists', exists PROVE Told'
  BY GoneTold
<1>1. run'[g] = q /\ \A h \in Goroutines : h # g => run'[h] = run[h]
  BY RunsOn DEF Basics
<1>2. \A h \in Goroutines : h # g => Plain(run'[h])
  BY <1>1
<1>3. /\ (\A h \in Goroutines : Phase(h)) <=> Phase(g)
      /\ RowRight <=> RowAt(g)
      /\ NoticeRight <=> NoticeAt(g)
      /\ ButtonsRight <=> ButtonsAt(g)
  BY Solo
<1>4. /\ (\A h \in Goroutines : Phase(h)') <=> Phase(g)'
      /\ RowRight' <=> RowAt(g)'
      /\ NoticeRight' <=> NoticeAt(g)'
      /\ ButtonsRight' <=> ButtonsAt(g)'
      /\ \A h \in Goroutines : At(h, "lockEdit")' => h = g
  BY <1>2, SoloNext
<1>5. Lasting /\ Whole /\ Heard /\ Phase(g) /\ HoldersAdd /\ NoticeAt(g)
  BY <1>3 DEF Told, Lasting
<1>6. Whole' /\ Phase(g)' /\ NoticeAt(g)'
  BY <1>5
<1>7. Heard'
  BY <1>5 DEF Heard
<1>8. HoldersAdd'
  BY <1>5, HoldersStay DEF Basics
<1>9. EditFull'
  <2>1. CASE q[1].do # "lockEdit"
    BY <1>1, <1>4, <2>1 DEF EditFull, At, Now
  <2> QED BY <2>1
<1>10. Lasting'
  BY <1>4, <1>6, <1>7, <1>8, <1>9 DEF Lasting
<1>11. Sound({"row"})' => ButtonsRight'
  BY <1>3, <1>4, <1>5 DEF Told
<1>12. Sound({"store"})' => RowRight'
  BY <1>3, <1>4, <1>5 DEF Told
<1>13. Sound({"edit", "row"})' => ListRight' /\ GuestsCovered'
  BY <1>5 DEF Told
<1> QED BY <1>10, <1>11, <1>12, <1>13 DEF Told

LEMMA EndAdds ==
  ASSUME NEW q, Planned(q), q = <<>> \/ q[1].do = "end" \/ q[1].do \in Middle \cup Commands, NEW m
  PROVE  ~AddsIn(q, m)
  BY AddsNone, MiddleAdds, TailPlan, AddsTail DEF Ones, AddsOf, Commands

LEMMA MiddleGuests ==
  ASSUME Basics, NEW g \in Goroutines, NEW q, Planned(q), Becomes(g, q),
         \A m : ~AddsIn(run[g], m), \A m : ~AddsIn(q, m),
         UNCHANGED <<perms, occupants, missed, late, change>>, Rebuilding => Rebuilding',
         Shut' <=> Shut
  PROVE  ListRight /\ GuestsCovered => ListRight' /\ GuestsCovered'
<1>1. ASSUME NEW m PROVE Adds(m)' <=> Adds(m)
  BY AddsNext DEF Basics
<1> QED BY <1>1, GuestsStay, GuestsMove DEF Basics, AccessTypes

(* What holds of a goroutine g in the middle of a change.                  *)
LEMMA MiddleHeld ==
  ASSUME Basics, NEW g \in Goroutines, run[g] # <<>>, Now(g).do \in Middle
  PROVE  /\ Holds(g) /\ change # NoChange /\ g \in Calls
         /\ \A h \in Goroutines : h # g => Plain(run[h])
         /\ \A m : ~AddsIn(run[g], m)
         /\ exists /\ Whole => tracked
         /\ Planned(run[g]) /\ run[g][1] = Now(g)
         /\ Planned(Tail(run[g])) /\ Tail(run[g]) # <<>> /\ Follows(Now(g), Tail(run[g])[1])
<1> USE DEF Basics
<1>1. Holds(g)
  BY Heads DEF Middle, ChangeDos
<1>2. change # NoChange /\ \A h \in Goroutines : h # g => Plain(run[h])
  BY <1>1, Alone
<1>3. g \in Calls
  BY <1>1 DEF Plans, Goroutines
<1>4. Planned(run[g]) /\ run[g][1] = Now(g)
  BY DEF Plans, Now
<1>5. \A m : ~AddsIn(run[g], m)
  BY <1>4, MiddleAdds
<1>6. Planned(Tail(run[g])) /\ Tail(run[g]) # <<>> /\ Follows(Now(g), Tail(run[g])[1])
  BY Heads DEF Middle, Ones, Commands
<1> QED BY <1>1, <1>2, <1>3, <1>4, <1>5, <1>6 DEF Whole

(* The end alone is left of a change that cannot go on.                    *)
LEMMA EndLeft ==
  ASSUME Basics, NEW g \in Goroutines, Holds(g), ToTheEnd(g)
  PROVE  \E q : /\ Planned(q) /\ Becomes(g, q) /\ q # <<>> /\ q[1].do = "end"
                /\ \A m : ~AddsIn(q, m)
<1> DEFINE q == <<run[g][Len(run[g])]>>
<1>1. Planned(q) /\ EndsOne(q) /\ q[1].do = "end"
  BY LastPlan DEF Basics
<1>2. Becomes(g, q)
  BY DEF ToTheEnd
<1> HIDE DEF q
<1>3. \A m : ~AddsIn(q, m)
  BY <1>1, EndAdds
<1> QED BY <1>1, <1>2, <1>3 DEF EndsOne

(* Where g stands after it takes up plan q.                                *)
LEMMA TakenUp ==
  ASSUME Basics, NEW g \in Goroutines, NEW q, Planned(q), Becomes(g, q), q # <<>>
  PROVE  /\ run'[g] = q /\ Now(g)' = q[1]
         /\ \A d : At(g, d)' <=> q[1].do = d
         /\ Phase(g)' <=>
              /\ q[1].do \in {"lockEdit", "lockCommit"} => lock' = NoLock
              /\ q[1].do = "postNotice" => lock' = [locker |-> q[1].by, notice |-> NoNotice]
              /\ q[1].do = "noticed" => lock' # NoLock
              /\ q[1].do = "writeLock" => lock' = q[1].held
              /\ q[1].do \in {"unlockEdit", "unlockCommit"} => lock' # NoLock
              /\ q[1].do = "closeNotice" => lock' = NoLock
         /\ RowAt(g)' <=> (tracked' => row' = lock' \/ q[1].do \in {"postNotice", "noticed", "writeLock"})
         /\ NoticeAt(g)' <=>
              /\ q[1].do \in {"noticed", "closeNotice"} => Bare' \subseteq Of(q[1].held)
              /\ q[1].do = "writeLock" /\ q[1].held = NoLock => Bare' \subseteq Of(q[2].held)
              /\ q[1].do \notin {"noticed", "closeNotice"} /\ ~(q[1].do = "writeLock" /\ q[1].held = NoLock)
                   => Bare' \subseteq Of(Stands')
         /\ ButtonsAt(g)' <=>
              /\ q[1].do = "noticed" => Of(q[1].held) \subseteq open'
              /\ q[1].do # "unlockCommit" => Of(Stands') \subseteq open'
<1>1. run'[g] = q /\ Now(g)' = q[1]
  BY RunsOn DEF Basics, Now
<1>2. \A d : At(g, d)' <=> q[1].do = d
  BY <1>1 DEF At
<1>3. Phase(g)' <=>
        /\ q[1].do \in {"lockEdit", "lockCommit"} => lock' = NoLock
        /\ q[1].do = "postNotice" => lock' = [locker |-> q[1].by, notice |-> NoNotice]
        /\ q[1].do = "noticed" => lock' # NoLock
        /\ q[1].do = "writeLock" => lock' = q[1].held
        /\ q[1].do \in {"unlockEdit", "unlockCommit"} => lock' # NoLock
        /\ q[1].do = "closeNotice" => lock' = NoLock
  BY <1>1, <1>2 DEF Phase
<1>4. RowAt(g)' <=> (tracked' => row' = lock' \/ q[1].do \in {"postNotice", "noticed", "writeLock"})
  BY <1>2 DEF RowAt, RowDue
<1>5. NoticeAt(g)' <=>
        /\ q[1].do \in {"noticed", "closeNotice"} => Bare' \subseteq Of(q[1].held)
        /\ q[1].do = "writeLock" /\ q[1].held = NoLock => Bare' \subseteq Of(q[2].held)
        /\ q[1].do \notin {"noticed", "closeNotice"} /\ ~(q[1].do = "writeLock" /\ q[1].held = NoLock)
             => Bare' \subseteq Of(Stands')
  BY <1>1, <1>2 DEF NoticeAt, Closing, Of
<1>6. ButtonsAt(g)' <=>
        /\ q[1].do = "noticed" => Of(q[1].held) \subseteq open'
        /\ q[1].do # "unlockCommit" => Of(Stands') \subseteq open'
  BY <1>1, <1>2 DEF ButtonsAt, Of
<1> QED BY <1>1, <1>2, <1>3, <1>4, <1>5, <1>6

(* Where g stands in the middle of a change.                               *)
LEMMA MiddleAt ==
  ASSUME NEW g, run[g] # <<>>
  PROVE  /\ \A d : At(g, d) <=> Now(g).do = d
         /\ Phase(g) <=>
              /\ Now(g).do \in {"lockEdit", "lockCommit"} => lock = NoLock
              /\ Now(g).do = "postNotice" => lock = [locker |-> Now(g).by, notice |-> NoNotice]
              /\ Now(g).do = "noticed" => lock # NoLock
              /\ Now(g).do = "writeLock" => lock = Now(g).held
              /\ Now(g).do \in {"unlockEdit", "unlockCommit"} => lock # NoLock
              /\ Now(g).do = "closeNotice" => lock = NoLock
         /\ RowAt(g) <=> (tracked => row = lock \/ Now(g).do \in {"postNotice", "noticed", "writeLock"})
         /\ NoticeAt(g) <=>
              /\ Now(g).do \in {"noticed", "closeNotice"} => Bare \subseteq Of(Now(g).held)
              /\ Now(g).do = "writeLock" /\ Now(g).held = NoLock => Bare \subseteq Of(run[g][2].held)
              /\ Now(g).do \notin {"noticed", "closeNotice"} /\ ~(Now(g).do = "writeLock" /\ Now(g).held = NoLock)
                   => Bare \subseteq Of(Stands)
         /\ ButtonsAt(g) <=>
              /\ Now(g).do = "noticed" => Of(Now(g).held) \subseteq open
              /\ Now(g).do # "unlockCommit" => Of(Stands) \subseteq open
<1>1. \A d : At(g, d) <=> Now(g).do = d
  BY DEF At
<1>2. Phase(g) <=>
        /\ Now(g).do \in {"lockEdit", "lockCommit"} => lock = NoLock
        /\ Now(g).do = "postNotice" => lock = [locker |-> Now(g).by, notice |-> NoNotice]
        /\ Now(g).do = "noticed" => lock # NoLock
        /\ Now(g).do = "writeLock" => lock = Now(g).held
        /\ Now(g).do \in {"unlockEdit", "unlockCommit"} => lock # NoLock
        /\ Now(g).do = "closeNotice" => lock = NoLock
  BY <1>1 DEF Phase
<1>3. RowAt(g) <=> (tracked => row = lock \/ Now(g).do \in {"postNotice", "noticed", "writeLock"})
  BY <1>1 DEF RowAt, RowDue
<1>4. NoticeAt(g) <=>
        /\ Now(g).do \in {"noticed", "closeNotice"} => Bare \subseteq Of(Now(g).held)
        /\ Now(g).do = "writeLock" /\ Now(g).held = NoLock => Bare \subseteq Of(run[g][2].held)
        /\ Now(g).do \notin {"noticed", "closeNotice"} /\ ~(Now(g).do = "writeLock" /\ Now(g).held = NoLock)
             => Bare \subseteq Of(Stands)
  BY <1>1 DEF NoticeAt, Closing
<1>5. ButtonsAt(g) <=>
        /\ Now(g).do = "noticed" => Of(Now(g).held) \subseteq open
        /\ Now(g).do # "unlockCommit" => Of(Stands) \subseteq open
  BY <1>1 DEF ButtonsAt
<1> QED BY <1>1, <1>2, <1>3, <1>4, <1>5

(* Shut where only g is in the middle of a change, before a step and after.*)
LEMMA ShutSolo ==
  ASSUME Basics, NEW g \in Goroutines, \A h \in Goroutines : h # g => Plain(run[h]),
         NEW q, Planned(q), Becomes(g, q), q # <<>>, run[g] # <<>>
  PROVE  /\ Shut <=> Now(g).do = "lockCommit" \/ (Stands # NoLock /\ Now(g).do # "unlockCommit")
         /\ Shut' <=> q[1].do = "lockCommit" \/ (Stands' # NoLock /\ q[1].do # "unlockCommit")
<1>1. /\ Committing <=> At(g, "lockCommit")
      /\ Opening <=> At(g, "unlockCommit")
  BY Solo
<1>2. run'[g] = q /\ \A h \in Goroutines : h # g => run'[h] = run[h]
  BY RunsOn DEF Basics
<1>3. \A h \in Goroutines : h # g => Plain(run'[h])
  BY <1>2
<1>4. /\ Committing' <=> At(g, "lockCommit")'
      /\ Opening' <=> At(g, "unlockCommit")'
  BY <1>3, SoloNext
<1>5. \A d : At(g, d)' <=> q[1].do = d
  BY TakenUp
<1>6. \A d : At(g, d) <=> Now(g).do = d
  BY MiddleAt
<1> QED BY <1>1, <1>4, <1>5, <1>6 DEF Shut

(* A step that leaves the wrongs alone.                                    *)
LEMMA SoundStays == ASSUME spoilt' = spoilt PROVE \A wrongs : Sound(wrongs)' <=> Sound(wrongs)
BY DEF Sound

LEMMA LockCommitTold ==
  ASSUME Basics, Told, NEW g \in Goroutines, LockCommit(g)
  PROVE  Told'
<1> USE DEF Basics
<1> SUFFICES ASSUME exists' PROVE Told'
  BY GoneTold
<1>1. /\ UNCHANGED <<exists, perms, at, open, posted, cache, updates, events, sweepDue, hub,
                     tracked, occupants, change, row, left, spoilt, missed, late, loose>>
      /\ run[g] # <<>> /\ Now(g).do = "lockCommit" /\ Now(g).do \in Middle
  BY DEF LockCommit, outside, gateway, budget, own, At, Middle
<1>2. /\ \A h \in Goroutines : h # g => Plain(run[h])
      /\ \A m : ~AddsIn(run[g], m)
      /\ exists /\ Whole => tracked
      /\ Planned(Tail(run[g])) /\ Tail(run[g]) # <<>> /\ Follows(Now(g), Tail(run[g])[1])
      /\ Holds(g)
  BY <1>1, MiddleHeld
<1>3. exists /\ Whole /\ tracked
  BY <1>1, <1>2 DEF Told, Lasting
<1> DEFINE q == Tail(run[g])
<1>4. lock' = [locker |-> Now(g).by, notice |-> NoNotice] /\ Becomes(g, q)
  BY <1>3 DEF LockCommit, Goes
<1>5. Planned(q) /\ q # <<>> /\ q[1].do = "postNotice" /\ q[1].by = Now(g).by
  BY <1>1, <1>2 DEF Follows
<1> HIDE DEF q
<1>6. Phase(g)' /\ RowAt(g)' /\ (NoticeAt(g)' <=> Bare' \subseteq Of(Stands'))
      /\ (ButtonsAt(g)' <=> Of(Stands') \subseteq open')
  BY <1>4, <1>5, TakenUp
<1>7. /\ Phase(g) => lock = NoLock
      /\ NoticeAt(g) => Bare \subseteq Of(Stands)
  BY <1>1, MiddleAt
<1>8. lock' # NoLock /\ lock' # NoRow /\ lock'.notice = NoNotice
  BY <1>1, <1>4, Heads, NoValues DEF Sectioned, LockDos, Locks
<1>9. Whole'
  BY <1>1, <1>3, <1>4, <1>5, WholeStep DEF Whole, Commands
<1>10. Rebuilding' <=> Rebuilding
  BY <1>1, <1>4, <1>5, RebuildStays
<1>11. Stands' = lock' /\ Of(lock') = {} /\ (Phase(g) => Stands = NoLock) /\ Bare' = Bare
  BY <1>1, <1>3, <1>7, <1>8 DEF Stands, Of, Bare
<1>12. Phase(g) /\ NoticeAt(g) => NoticeAt(g)'
  BY <1>6, <1>7, <1>11 DEF Of
<1>13. \A m : ~AddsIn(q, m)
  BY <1>5, EndAdds DEF Middle
<1>14. Shut' <=> Shut
  BY <1>1, <1>2, <1>3, <1>4, <1>5, <1>8, <1>11, ShutSolo
<1>15. ListRight /\ GuestsCovered => ListRight' /\ GuestsCovered'
  BY <1>1, <1>2, <1>4, <1>5, <1>10, <1>13, <1>14, MiddleGuests
<1> QED BY <1>1, <1>2, <1>4, <1>5, <1>6, <1>9, <1>10, <1>11, <1>12, <1>13, <1>15, SoundStays, MiddleTold

LEMMA UnlockCommitTold ==
  ASSUME Basics, Told, NEW g \in Goroutines, UnlockCommit(g)
  PROVE  Told'
<1> USE DEF Basics
<1> SUFFICES ASSUME exists' PROVE Told'
  BY GoneTold
<1>1. /\ UNCHANGED <<exists, perms, at, open, posted, cache, updates, events, sweepDue, hub,
                     tracked, occupants, change, row, left, spoilt, missed, late, loose>>
      /\ At(g, "unlockCommit") /\ run[g] # <<>> /\ Now(g).do = "unlockCommit" /\ Now(g).do \in Middle
  BY DEF UnlockCommit, outside, gateway, budget, own, At, Middle
<1>2. /\ \A h \in Goroutines : h # g => Plain(run[h])
      /\ \A m : ~AddsIn(run[g], m)
      /\ exists /\ Whole => tracked
      /\ Holds(g)
  BY <1>1, MiddleHeld
<1>3. exists /\ Whole /\ tracked
  BY <1>1, <1>2 DEF Told, Lasting
<1> DEFINE q == <<Section("writeLock", NoOne, {}, NoLock),
                  Section("closeNotice", NoOne, {}, lock)>> \o Tail(run[g])
<1>4. lock' = NoLock /\ Becomes(g, q)
  BY <1>3 DEF UnlockCommit
<1>5. /\ Planned(q) /\ q # <<>> /\ q[1].do = "writeLock" /\ q[1].held = NoLock
      /\ q[2].held = lock
  BY <1>1, UnlockPlan
<1> HIDE DEF q
<1>6. Phase(g)' /\ RowAt(g)' /\ (NoticeAt(g)' <=> Bare' \subseteq Of(lock))
      /\ (ButtonsAt(g)' <=> Of(Stands') \subseteq open')
  BY <1>4, <1>5, TakenUp
<1>7. NoticeAt(g) => Bare \subseteq Of(Stands)
  BY <1>1, MiddleAt
<1>8. Whole'
  BY <1>1, <1>3, <1>4, <1>5, WholeStep DEF Whole, Commands
<1>9. Rebuilding' <=> Rebuilding
  BY <1>1, <1>4, <1>5, RebuildStays
<1>10. Stands = lock /\ Bare' = Bare /\ Of(Stands') = {}
  BY <1>1, <1>3, <1>4 DEF Stands, Bare, Of
<1>11. \A m : ~AddsIn(q, m)
  BY <1>5, EndAdds DEF Middle
<1>12. Shut' <=> Shut
  BY <1>1, <1>2, <1>3, <1>4, <1>5, ShutSolo DEF Stands
<1>13. ListRight /\ GuestsCovered => ListRight' /\ GuestsCovered'
  BY <1>1, <1>2, <1>4, <1>5, <1>9, <1>11, <1>12, MiddleGuests
<1> QED BY <1>1, <1>2, <1>4, <1>5, <1>6, <1>7, <1>8, <1>9, <1>10, <1>11, <1>13, SoundStays, MiddleTold

LEMMA PostNoticeTold ==
  ASSUME Basics, Told, NEW g \in Goroutines, PostNotice(g)
  PROVE  Told'
<1> USE DEF Basics
<1> SUFFICES ASSUME exists' PROVE Told'
  BY GoneTold
<1>1. /\ UNCHANGED <<exists, perms, at, cache, updates, events, sweepDue, hub,
                     tracked, occupants, lock, change, row, spoilt, missed, late>>
      /\ At(g, "postNotice") /\ run[g] # <<>> /\ Now(g).do = "postNotice" /\ Now(g).do \in Middle
  BY DEF PostNotice, gateway, record, budget, own, At, Middle, Spend, Uses
<1>2. /\ \A h \in Goroutines : h # g => Plain(run[h])
      /\ \A m : ~AddsIn(run[g], m)
      /\ exists /\ Whole => tracked
      /\ Holds(g)
  BY <1>1, MiddleHeld
<1>3. exists /\ Whole /\ tracked
  BY <1>1, <1>2 DEF Told, Lasting
<1> DEFINE Then(n) ==
      Becomes(g, <<Section("noticed", NoOne, {}, [locker |-> Now(g).by, notice |-> n]),
                   Section("writeLock", NoOne, {}, [locker |-> Now(g).by, notice |-> n])>>
                 \o Tail(run[g]))
<1>4. \/ open' = open \cup {posted + 1} /\ loose' = loose /\ Then(posted + 1)
      \/ open' = open \cup {posted + 1} /\ loose' = loose \cup {posted + 1} /\ Then(NoNotice)
      \/ UNCHANGED <<open, loose>> /\ Then(NoNotice)
  BY DEF PostNotice, Spend, budget, own
<1>5. PICK n \in Nat \cup {NoNotice} :
        /\ Then(n) /\ Bare' \subseteq Bare \cup ({n} \ {NoNotice})
        /\ {n} \ {NoNotice} \subseteq open'
  <2> HIDE DEF Then
  <2>1. posted + 1 \in Nat
    BY DEF AccessTypes
  <2>2. CASE open' = open \cup {posted + 1} /\ loose' = loose /\ Then(posted + 1)
    BY <2>1, <2>2, NoValues DEF Bare, Notices
  <2>3. CASE open' = open \cup {posted + 1} /\ loose' = loose \cup {posted + 1} /\ Then(NoNotice)
    BY <2>3 DEF Bare
  <2>4. CASE UNCHANGED <<open, loose>> /\ Then(NoNotice)
    BY <2>4 DEF Bare
  <2> QED BY <1>4, <2>2, <2>3, <2>4
<1> DEFINE held == [locker |-> Now(g).by, notice |-> n]
           q == <<Section("noticed", NoOne, {}, held), Section("writeLock", NoOne, {}, held)>>
                \o Tail(run[g])
<1>6. /\ Planned(q) /\ q # <<>> /\ q[1].do = "noticed" /\ q[1].held = held
      /\ held \in Locks /\ held.notice = n
  BY <1>1, PostedPlan
<1>7. Becomes(g, q)
  BY <1>5
<1> HIDE DEF q, held
<1>8. /\ Phase(g)' <=> lock' # NoLock
      /\ RowAt(g)'
      /\ NoticeAt(g)' <=> Bare' \subseteq Of(held)
      /\ ButtonsAt(g)' <=> Of(held) \subseteq open' /\ Of(Stands') \subseteq open'
  BY <1>6, <1>7, TakenUp
<1>9. /\ NoticeAt(g) => Bare \subseteq Of(Stands)
      /\ Phase(g) => lock = [locker |-> Now(g).by, notice |-> NoNotice]
  BY <1>1, MiddleAt
<1>10. Phase(g) => lock # NoLock /\ lock.notice = NoNotice
  BY <1>1, <1>9, Heads, NoValues DEF Sectioned, LockDos, Locks
<1>11. Whole'
  BY <1>1, <1>3, <1>6, <1>7, WholeStep DEF Whole, Commands
<1>12. Rebuilding' <=> Rebuilding
  BY <1>1, <1>6, <1>7, RebuildStays
<1>13. Of(held) = {n} \ {NoNotice} /\ Stands = lock /\ Stands' = lock
       /\ (Phase(g) => Of(lock) = {})
  BY <1>1, <1>3, <1>6, <1>10, NoValues DEF Stands, Of
<1>14. \A m : ~AddsIn(q, m)
  BY <1>6, EndAdds DEF Middle
<1>15. Phase(g) => (Shut' <=> Shut)
  BY <1>1, <1>2, <1>6, <1>7, <1>10, <1>13, ShutSolo
<1>16. Phase(g) /\ ListRight /\ GuestsCovered => ListRight' /\ GuestsCovered'
  BY <1>1, <1>2, <1>6, <1>7, <1>12, <1>14, <1>15, MiddleGuests
<1>17. Phase(g) /\ NoticeAt(g) => NoticeAt(g)'
  BY <1>5, <1>8, <1>9, <1>13
<1>18. Phase(g) => Phase(g)' /\ ButtonsAt(g)'
  BY <1>1, <1>5, <1>8, <1>10, <1>13
<1> QED BY <1>1, <1>2, <1>6, <1>7, <1>8, <1>11, <1>12, <1>14, <1>16, <1>17, <1>18, SoundStays, MiddleTold

LEMMA NoticedTold ==
  ASSUME Basics, Told, NEW g \in Goroutines, Noticed(g)
  PROVE  Told'
<1> USE DEF Basics
<1> SUFFICES ASSUME exists' PROVE Told'
  BY GoneTold
<1>1. /\ UNCHANGED <<exists, perms, at, open, posted, cache, updates, events, sweepDue, hub,
                     tracked, occupants, change, row, left, spoilt, missed, late, loose>>
      /\ run[g] # <<>> /\ Now(g).do = "noticed" /\ Now(g).do \in Middle
  BY DEF Noticed, outside, gateway, budget, own, At, Middle
<1>2. /\ \A h \in Goroutines : h # g => Plain(run[h])
      /\ \A m : ~AddsIn(run[g], m)
      /\ exists /\ Whole => tracked
      /\ Planned(Tail(run[g])) /\ Tail(run[g]) # <<>> /\ Follows(Now(g), Tail(run[g])[1])
      /\ Holds(g)
  BY <1>1, MiddleHeld
<1>3. exists /\ Whole /\ tracked
  BY <1>1, <1>2 DEF Told, Lasting
<1> DEFINE q == Tail(run[g])
<1>4. (lock # NoLock => lock' = Now(g).held) /\ Becomes(g, q)
  BY DEF Noticed, Goes
<1>5. Planned(q) /\ q # <<>> /\ q[1].do = "writeLock" /\ q[1].held = Now(g).held
  BY <1>1, <1>2 DEF Follows
<1> HIDE DEF q
<1>6. Now(g).held \in Locks /\ Now(g).held # NoLock
  BY <1>1, Heads, NoValues DEF Sectioned
<1>7. /\ Phase(g)' <=> lock' = Now(g).held
      /\ RowAt(g)'
      /\ NoticeAt(g)' <=> Bare' \subseteq Of(Stands')
      /\ ButtonsAt(g)' <=> Of(Stands') \subseteq open'
  BY <1>4, <1>5, <1>6, TakenUp
<1>8. /\ Phase(g) => lock # NoLock
      /\ NoticeAt(g) => Bare \subseteq Of(Now(g).held)
      /\ ButtonsAt(g) => Of(Now(g).held) \subseteq open
  BY <1>1, MiddleAt
<1>9. Whole'
  BY <1>1, <1>3, <1>4, <1>5, WholeStep DEF Whole, Commands
<1>10. Rebuilding' <=> Rebuilding
  BY <1>1, <1>4, <1>5, RebuildStays
<1>11. Phase(g) => lock # NoLock /\ lock' = Now(g).held /\ Stands' = Now(g).held /\ Stands = lock
  BY <1>1, <1>3, <1>4, <1>8 DEF Stands
<1>12. Bare' = Bare
  BY <1>1 DEF Bare
<1>13. \A m : ~AddsIn(q, m)
  BY <1>5, EndAdds DEF Middle
<1>14. Phase(g) => (Shut' <=> Shut)
  BY <1>1, <1>2, <1>4, <1>5, <1>6, <1>11, ShutSolo
<1>15. Phase(g) /\ ListRight /\ GuestsCovered => ListRight' /\ GuestsCovered'
  BY <1>1, <1>2, <1>4, <1>5, <1>10, <1>13, <1>14, MiddleGuests
<1>16. Phase(g) /\ NoticeAt(g) => NoticeAt(g)'
  BY <1>7, <1>8, <1>11, <1>12
<1>17. Phase(g) => Phase(g)' /\ (ButtonsAt(g) => ButtonsAt(g)')
  BY <1>1, <1>7, <1>8, <1>11
<1> QED BY <1>1, <1>2, <1>4, <1>5, <1>7, <1>9, <1>10, <1>13, <1>15, <1>16, <1>17, SoundStays, MiddleTold

LEMMA WriteLockTold ==
  ASSUME Basics, Told, NEW g \in Goroutines, WriteLock(g)
  PROVE  Told'
<1> USE DEF Basics
<1> SUFFICES ASSUME exists' PROVE Told'
  BY GoneTold
<1>1. /\ UNCHANGED <<exists, perms, at, open, posted, cache, updates, events, sweepDue, hub,
                     tracked, occupants, lock, change, missed, late, loose>>
      /\ run[g] # <<>> /\ Now(g).do = "writeLock" /\ Now(g).do \in Middle
  BY DEF WriteLock, outside, gateway, record, At, Middle
<1>2. /\ \A h \in Goroutines : h # g => Plain(run[h])
      /\ \A m : ~AddsIn(run[g], m)
      /\ exists /\ Whole => tracked
      /\ Planned(Tail(run[g])) /\ Tail(run[g]) # <<>> /\ Follows(Now(g), Tail(run[g])[1])
      /\ Planned(run[g])
  BY <1>1, MiddleHeld
<1>3. exists /\ Whole /\ tracked /\ row # NoRow
  BY <1>1, <1>2 DEF Told, Lasting, Whole
<1> DEFINE q == Tail(run[g])
<1>4. /\ Becomes(g, q)
      /\ \/ row' = Now(g).held /\ spoilt' = spoilt \ {"store"}
         \/ row' = row /\ spoilt' = spoilt \cup {"store"}
  BY <1>3 DEF WriteLock, Goes, Written, Uses
<1>5. /\ Planned(q) /\ q # <<>> /\ q[1] = run[g][2]
      /\ q[1].do = IF Now(g).held = NoLock THEN "closeNotice" ELSE "end"
  BY <1>1, <1>2, TailPlan DEF Follows
<1> HIDE DEF q
<1>6. /\ Now(g).held # NoLock \/ lock' = NoLock => Phase(g)'
      /\ row' = lock' => RowAt(g)'
      /\ NoticeAt(g)' <=> Bare' \subseteq IF Now(g).held = NoLock THEN Of(q[1].held) ELSE Of(Stands')
      /\ ButtonsAt(g)' <=> Of(Stands') \subseteq open'
  BY <1>4, <1>5, TakenUp
<1>7. /\ Phase(g) => lock = Now(g).held
      /\ NoticeAt(g) => Bare \subseteq IF Now(g).held = NoLock THEN Of(run[g][2].held) ELSE Of(Stands)
      /\ ButtonsAt(g) => Of(Stands) \subseteq open
  BY <1>1, MiddleAt
<1>8. Now(g).held \in Locks \cup {NoLock} /\ Now(g).held # NoRow
  BY <1>1, Heads, NoValues DEF Sectioned
<1>9. Whole'
  BY <1>1, <1>3, <1>4, <1>5, <1>8, WholeStep DEF Commands
<1>10. Rebuilding' <=> Rebuilding
  BY <1>1, <1>4, <1>5, RebuildStays
<1>11. Stands = lock /\ Stands' = lock /\ Bare' = Bare
  BY <1>1, <1>3 DEF Stands, Bare
<1>12. Phase(g) => Phase(g)'
  BY <1>1, <1>6, <1>7
<1>13. ASSUME Phase(g), Sound({"store"})' PROVE RowAt(g)'
  BY <1>1, <1>4, <1>6, <1>7, <1>13 DEF Sound
<1>14. (NoticeAt(g) => NoticeAt(g)') /\ (ButtonsAt(g) => ButtonsAt(g)')
  BY <1>1, <1>5, <1>6, <1>7, <1>11
<1>15. \A m : ~AddsIn(q, m)
  BY <1>5, EndAdds DEF Middle
<1>16. Shut' <=> Shut
  BY <1>1, <1>2, <1>4, <1>5, <1>11, ShutSolo
<1>17. ListRight /\ GuestsCovered => ListRight' /\ GuestsCovered'
  BY <1>1, <1>2, <1>4, <1>5, <1>10, <1>15, <1>16, MiddleGuests
<1>18. (Sound({"row"})' <=> Sound({"row"})) /\ (Sound({"edit", "row"})' <=> Sound({"edit", "row"}))
  BY <1>4 DEF Sound
<1> QED BY <1>1, <1>2, <1>4, <1>5, <1>9, <1>10, <1>12, <1>13, <1>14, <1>15, <1>17, <1>18, MiddleTold

LEMMA CloseNoticeTold ==
  ASSUME Basics, Told, NEW g \in Goroutines, CloseNotice(g)
  PROVE  Told'
<1> USE DEF Basics
<1> SUFFICES ASSUME exists' PROVE Told'
  BY GoneTold
<1>1. /\ UNCHANGED <<exists, perms, at, posted, cache, updates, events, sweepDue, hub,
                     tracked, occupants, lock, change, row, spoilt, missed, late>>
      /\ run[g] # <<>> /\ Now(g).do = "closeNotice" /\ Now(g).do \in Middle
  BY DEF CloseNotice, gateway, record, At, Middle, budget, own
<1>2. /\ \A h \in Goroutines : h # g => Plain(run[h])
      /\ \A m : ~AddsIn(run[g], m)
      /\ exists /\ Whole => tracked
      /\ Planned(Tail(run[g])) /\ Tail(run[g]) # <<>> /\ Follows(Now(g), Tail(run[g])[1])
  BY <1>1, MiddleHeld
<1>3. exists /\ Whole /\ tracked
  BY <1>1, <1>2 DEF Told, Lasting
<1> DEFINE q == Tail(run[g])
<1>4. /\ Becomes(g, q)
      /\ \/ open' = open \ {Now(g).held.notice} /\ loose' = loose
         \/ open' = open /\ loose' = loose \cup (open \cap {Now(g).held.notice})
  BY DEF CloseNotice, Goes, Uses, budget, own
<1>5. Planned(q) /\ q # <<>> /\ q[1].do = "end"
  BY <1>1, <1>2 DEF Follows
<1> HIDE DEF q
<1>6. Phase(g)' /\ (NoticeAt(g)' <=> Bare' \subseteq Of(Stands'))
      /\ (RowAt(g)' <=> (tracked' => row' = lock')) /\ (ButtonsAt(g)' <=> Of(Stands') \subseteq open')
  BY <1>4, <1>5, TakenUp
<1>7. /\ Phase(g) => lock = NoLock
      /\ NoticeAt(g) => Bare \subseteq Of(Now(g).held)
      /\ RowAt(g) <=> (tracked => row = lock)
  BY <1>1, MiddleAt
<1>8. Whole'
  BY <1>1, <1>3, <1>4, <1>5, WholeStep DEF Whole, Commands
<1>9. Rebuilding' <=> Rebuilding
  BY <1>1, <1>4, <1>5, RebuildStays
<1>10. Stands = lock /\ Stands' = lock /\ (lock = NoLock => Of(lock) = {})
  BY <1>1, <1>3 DEF Stands, Of
<1>11. Bare \subseteq Of(Now(g).held) => Bare' = {}
  <2>1. Bare' \subseteq Bare \ {Now(g).held.notice}
    BY <1>4 DEF Bare
  <2> QED BY <2>1 DEF Of
<1>12. Phase(g) => ButtonsAt(g)'
  BY <1>6, <1>7, <1>10
<1>13. \A m : ~AddsIn(q, m)
  BY <1>5, EndAdds DEF Middle
<1>14. Shut' <=> Shut
  BY <1>1, <1>2, <1>4, <1>5, <1>10, ShutSolo
<1>15. ListRight /\ GuestsCovered => ListRight' /\ GuestsCovered'
  BY <1>1, <1>2, <1>4, <1>5, <1>9, <1>13, <1>14, MiddleGuests
<1> QED BY <1>1, <1>2, <1>4, <1>5, <1>6, <1>7, <1>8, <1>9, <1>11, <1>12, <1>13, <1>15, SoundStays, MiddleTold

(* An edit of the channel's list: the lock's, or the unlock's.             *)
LEMMA EditTold ==
  ASSUME Basics, Told, NEW g \in Goroutines, Edit(g)
  PROVE  Told'
<1> USE DEF Basics
<1> SUFFICES ASSUME exists' PROVE Told'
  BY GoneTold
<1>1. /\ UNCHANGED <<exists, at, open, posted, events, sweepDue, hub, change>>
      /\ run[g] # <<>> /\ Now(g).do \in {"lockEdit", "unlockEdit"} /\ Now(g).do \in Middle
  BY DEF Edit, Middle
<1>2. /\ \A h \in Goroutines : h # g => Plain(run[h])
      /\ \A m : ~AddsIn(run[g], m)
      /\ exists /\ Whole => tracked
      /\ Planned(Tail(run[g])) /\ Tail(run[g]) # <<>> /\ Follows(Now(g), Tail(run[g])[1])
      /\ Holds(g)
  BY <1>1, MiddleHeld
<1>3. exists /\ Whole /\ tracked
  BY <1>1, <1>2 DEF Told, Lasting
<1> DEFINE list == IF Now(g).do = "lockEdit"
                   THEN [denied |-> TRUE, guests |-> Now(g).who] ELSE Source
           Taken == /\ perms' = list /\ spoilt' = spoilt \ {"edit", "row"} /\ late' = {}
                    /\ missed' = missed \ list.guests
           Refused == UNCHANGED <<perms, spoilt, late, missed>>
           Lost == spoilt' = spoilt \cup {"edit"}
<1>4. UNCHANGED <<tracked, occupants, lock, row, loose>>
  BY <1>3 DEF Edit, Spend, Uses, own
<1>5. (Taken /\ Goes(g)) \/ (Refused /\ ToTheEnd(g)) \/ (Lost /\ ToTheEnd(g))
  BY <1>3 DEF Edit, Spend, own
<1> HIDE DEF Taken, Refused, Lost
<1>6. \E q : /\ Planned(q) /\ Becomes(g, q) /\ q # <<>> /\ \A m : ~AddsIn(q, m)
             /\ \/ Taken /\ q[1].do = IF Now(g).do = "lockEdit" THEN "lockCommit" ELSE "unlockCommit"
                \/ q[1].do = "end" /\ (Refused \/ Lost)
  BY <1>1, <1>2, <1>5, EndAdds, EndLeft DEF Goes, Follows, Middle
<1>7. PICK q : /\ Planned(q) /\ Becomes(g, q) /\ q # <<>> /\ \A m : ~AddsIn(q, m)
               /\ \/ Taken /\ q[1].do = IF Now(g).do = "lockEdit" THEN "lockCommit" ELSE "unlockCommit"
                  \/ q[1].do = "end" /\ (Refused \/ Lost)
  BY <1>6
<1>8. /\ q[1].do \in {"lockCommit", "unlockCommit", "end"}
      /\ q[1].do = "lockCommit" => Now(g).do = "lockEdit"
      /\ q[1].do = "unlockCommit" => Now(g).do = "unlockEdit"
  BY <1>1, <1>7
<1>9. /\ (q[1].do = "lockCommit" => lock' = NoLock) /\ (q[1].do = "unlockCommit" => lock' # NoLock)
           => Phase(g)'
      /\ NoticeAt(g)' <=> Bare' \subseteq Of(Stands')
      /\ RowAt(g)' <=> (tracked' => row' = lock')
      /\ ButtonsAt(g)' <=> (q[1].do # "unlockCommit" => Of(Stands') \subseteq open')
  BY <1>7, <1>8, TakenUp
<1>10. /\ Phase(g) => (Now(g).do = "lockEdit" => lock = NoLock) /\ (Now(g).do = "unlockEdit" => lock # NoLock)
       /\ NoticeAt(g) => Bare \subseteq Of(Stands)
       /\ RowAt(g) <=> (tracked => row = lock)
       /\ ButtonsAt(g) => Of(Stands) \subseteq open
       /\ At(g, "lockEdit") <=> Now(g).do = "lockEdit"
  BY <1>1, MiddleAt
<1>11. Whole'
  BY <1>1, <1>3, <1>4, <1>7, <1>8, WholeStep DEF Whole, Commands
<1>12. Rebuilding' <=> Rebuilding
  BY <1>1, <1>7, <1>8, RebuildStays
<1>13. Phase(g) => Phase(g)'
  BY <1>4, <1>8, <1>9, <1>10
<1>14. Stands' = Stands /\ Stands = lock /\ Bare' = Bare /\ Of(NoLock) = {}
  BY <1>1, <1>3, <1>4 DEF Stands, Bare, Of
<1>15. (NoticeAt(g) => NoticeAt(g)') /\ (RowAt(g) => RowAt(g)')
  BY <1>4, <1>9, <1>10, <1>14
<1>16. Sound({"store"})' => Sound({"store"})
  BY <1>7 DEF Taken, Refused, Lost, Sound
<1>17. ASSUME Phase(g), Sound({"row"}) => ButtonsAt(g), Sound({"row"})' PROVE ButtonsAt(g)'
  <2>1. CASE q[1].do = "lockCommit"
    BY <1>8, <1>9, <1>10, <1>14, <1>17, <2>1
  <2>2. CASE q[1].do = "unlockCommit"
    BY <1>9, <2>2
  <2>3. CASE q[1].do = "end"
    <3>1. Sound({"row"})
      BY <1>7, <1>17, <2>3 DEF Refused, Lost, Sound
    <3> QED BY <1>1, <1>9, <1>10, <1>14, <1>17, <2>3, <3>1
  <2> QED BY <1>8, <2>1, <2>2, <2>3
<1>18. /\ Shut <=> Stands # NoLock
       /\ Shut' <=> q[1].do = "lockCommit" \/ (Stands' # NoLock /\ q[1].do # "unlockCommit")
  BY <1>1, <1>2, <1>7, ShutSolo
<1>19. ASSUME Lasting, Phase(g), Sound({"edit", "row"}) => ListRight /\ GuestsCovered,
              Sound({"edit", "row"})'
       PROVE  ListRight' /\ GuestsCovered'
  <2>1. CASE q[1].do = "end"
    <3>1. Refused
      BY <1>7, <1>19, <2>1 DEF Lost, Sound
    <3>2. Sound({"edit", "row"}) /\ (Shut' <=> Shut)
      BY <1>14, <1>18, <1>19, <2>1, <3>1 DEF Refused, Sound
    <3>3. UNCHANGED <<perms, missed, late>>
      BY <3>1 DEF Refused
    <3> QED BY <1>1, <1>2, <1>4, <1>7, <1>12, <1>19, <3>2, <3>3, MiddleGuests
  <2>2. CASE q[1].do = "lockCommit"
    <3>1. /\ perms' = [denied |-> TRUE, guests |-> Now(g).who] /\ missed' = missed \ Now(g).who
          /\ Now(g).do = "lockEdit"
      BY <1>7, <1>8, <2>2 DEF Taken
    <3>2. Shut' /\ perms'.denied /\ perms'.guests = Now(g).who
      BY <1>18, <2>2, <3>1
    <3>3. occupants \subseteq Now(g).who \cup change /\ change # NoChange
      BY <1>2, <1>10, <1>19, <3>1, MiddleHeld DEF Lasting, EditFull, Plans
    <3> QED BY <1>1, <1>4, <3>2, <3>3 DEF ListRight, GuestsCovered, Covered
  <2>3. CASE q[1].do = "unlockCommit"
    <3>1. perms' = Source /\ ~Shut'
      BY <1>7, <1>8, <1>18, <2>3 DEF Taken
    <3> QED BY <3>1 DEF ListRight, GuestsCovered, Source
  <2> QED BY <1>8, <2>1, <2>2, <2>3
<1> QED BY <1>1, <1>2, <1>4, <1>7, <1>8, <1>11, <1>12, <1>13, <1>15, <1>16, <1>17, <1>19, MiddleTold

LEMMA AccessTold ==
  ASSUME Basics, Told, NEW g \in Goroutines, Access(g)
  PROVE  Told'
<1> USE DEF Basics
<1> SUFFICES ASSUME exists' PROVE Told'
  BY GoneTold
<1>1. /\ UNCHANGED <<exists, perms, at, open, posted, cache, updates, events, sweepDue, hub,
                     tracked, occupants, lock, row, left, spoilt, missed, late, loose>>
      /\ run[g] # <<>> /\ Now(g).do \in Commands
  BY DEF Access, outside, gateway, budget, own
<1>2. /\ g \in Calls /\ ~Holds(g) /\ Tail(run[g]) = <<>> /\ Planned(run[g]) /\ run[g][1] = Now(g)
  BY <1>1, Heads DEF Plans, Goroutines, Ones, Now
<1>3. exists /\ Lasting
  BY <1>1 DEF Told
<1>4. \A m : ~AddsIn(run[g], m)
  BY <1>1, <1>2, EndAdds
<1>5. Plain(run[g])
  BY <1>1, <1>2 DEF Plain, Middle, Commands
<1>6. Sweep \in Goroutines /\ g # Sweep /\ Calls \subseteq Goroutines
  BY <1>2, AccessConstants DEF Goroutines
<1>7. ASSUME NEW q, Planned(q), Becomes(g, q), q # <<>> => q[1].do \notin {"forget"},
             ~tracked => q = <<>> /\ change' = change
      PROVE  Whole' /\ (Rebuilding' <=> Rebuilding) /\ Heard'
  <2>1. Whole /\ Heard
    BY <1>3 DEF Lasting
  <2> QED BY ZenonT(60), <1>1, <1>6, <1>7, <2>1, RunsOn DEF At, Now, Rebuilding, Whole, Heard
<1>8. CASE Goes(g) /\ UNCHANGED change
  <2>1. Becomes(g, <<>>) /\ Planned(<<>>) /\ Plain(<<>>)
    BY <1>2, <1>8, EmptyPlan DEF Goes, Plain
  <2>2. SameMiddle /\ (\A m : Adds(m)' <=> Adds(m)) /\ HoldersAdd'
    BY <1>1, <1>3, <1>4, <1>5, <2>1, AddsNone, StepKeeps DEF Lasting
  <2>3. Whole' /\ (Rebuilding' <=> Rebuilding) /\ Heard'
    BY <1>7, <1>8, <2>1
  <2>4. ListRight /\ GuestsCovered => ListRight' /\ GuestsCovered'
    BY <1>1, <1>8, <2>2, <2>3, Keeps, GuestsStay, GuestsMove DEF AccessTypes
  <2>5. EditFull'
    BY <1>1, <1>3, <1>8, <2>2, EditStays DEF Lasting
  <2> QED BY <1>1, <2>2, <2>3, <2>4, <2>5, KeepsTold
<1>9. CASE /\ May(Now(g).do, Now(g).by) /\ Idle /\ change' = {} /\ ~Declined(Now(g).do)
           /\ \/ Now(g).do = "lock" /\ BeginLock(g, Now(g))
              \/ Now(g).do = "letIn" /\ BeginLetIn(g, Now(g))
              \/ Now(g).do \in {"unlock", "button"} /\ BeginUnlock(g, Now(g))
  <2>1. /\ tracked
        /\ Now(g).do = "lock" => Now(g).by \in Members /\ lock = NoLock
        /\ Now(g).do # "lock" => lock # NoLock
    BY <1>1, <1>9 DEF May, Pressable, Declined, AccessTypes, Commands, Plans
  <2>2. PICK q : /\ Planned(q) /\ EndsOne(q) /\ q # <<>> /\ Becomes(g, q)
                 /\ \/ Now(g).do = "lock" /\ q[1] = Section("lockEdit", Now(g).by, LockedList(Inside).guests, NoLock)
                    \/ Now(g).do = "letIn" /\ q[1].do = "pick"
                    \/ Now(g).do \in {"unlock", "button"} /\ q[1].do = "unlockEdit"
    BY <1>1, <1>2, <1>9, <2>1, BegunPlan
  <2>3. /\ q[1].do \in {"lockEdit", "pick", "unlockEdit"}
        /\ q[1].do = "lockEdit" => Now(g).do = "lock" /\ q[1].who = LockedList(Inside).guests
        /\ q[1].do # "lockEdit" => Now(g).do # "lock"
    BY <2>2 DEF Section
  <2>4. Whole' /\ (Rebuilding' <=> Rebuilding) /\ Heard'
    BY <1>7, <2>1, <2>2, <2>3
  <2>5. change = NoChange /\ \A h \in Goroutines : Plain(run[h])
    BY <1>9, NobodyHolds DEF Idle
  <2>6. /\ (q[1].do = "lockEdit" => lock' = NoLock) /\ (q[1].do = "unlockEdit" => lock' # NoLock)
             => Phase(g)'
        /\ NoticeAt(g)' <=> Bare' \subseteq Of(Stands')
        /\ RowAt(g)' <=> (tracked' => row' = lock')
        /\ ButtonsAt(g)' <=> Of(Stands') \subseteq open'
    BY <2>2, <2>3, TakenUp
  <2>7. /\ NoticeAt(g) <=> Bare \subseteq Of(Stands)
        /\ RowAt(g) <=> (tracked => row = lock)
        /\ ButtonsAt(g) <=> Of(Stands) \subseteq open
    BY <1>1, MiddleAt DEF Commands
  <2>8. Stands' = Stands /\ Stands = lock /\ Bare' = Bare
    BY <1>1, <2>1 DEF Stands, Bare
  <2>9. Phase(g)'
    BY <1>1, <2>1, <2>3, <2>6
  <2>10. (NoticeAt(g) => NoticeAt(g)') /\ (RowAt(g) => RowAt(g)') /\ (ButtonsAt(g) => ButtonsAt(g)')
    BY <1>1, <2>6, <2>7, <2>8
  <2>11. Shut' <=> Shut
    BY <1>1, <2>2, <2>3, <2>5, <2>8, ShutSolo DEF Commands
  <2>12. ASSUME ListRight, GuestsCovered PROVE ListRight' /\ GuestsCovered'
    <3>1. \A m : Adds(m) => Adds(m)'
      BY <1>4, <2>2, AddsNext
    <3> QED BY <1>1, <2>4, <2>5, <2>11, <2>12, <3>1, GuestsStay, GuestsMove DEF AccessTypes
  <2>13. q[1].do # "lockEdit" \/ EditFull'
    <3>1. ASSUME q[1].do = "lockEdit" PROVE EditFull'
      <4>1. run'[g] = q /\ \A h \in Goroutines : h # g => run'[h] = run[h]
        BY <2>2, RunsOn
      <4>2. \A h \in Goroutines : At(h, "lockEdit")' => h = g
        BY <2>5, <4>1, SoloNext
      <4>3. occupants \subseteq q[1].who /\ Now(g)' = q[1]
        BY <2>3, <3>1, <4>1 DEF LockedList, Inside, Now
      <4> QED BY <1>1, <4>2, <4>3 DEF EditFull
    <3> QED BY <3>1
  <2>14. \A m \in Members \cup {NoOne} : EndsOne(q) /\ AddsIn(q, m) => lock' # NoLock
    BY <1>1, <2>1, <2>2, <2>3, EndAdds DEF Middle
  <2> QED BY <1>1, <2>2, <2>4, <2>5, <2>9, <2>10, <2>12, <2>13, <2>14, SoundStays, MiddleTold
<1> QED BY <1>1, <1>8, <1>9 DEF Access, Commands

(* Nobody is in the middle of a change.                                    *)
LEMMA AllPlain ==
  ASSUME \A h \in Goroutines : Plain(run[h])
  PROVE  /\ RowRight <=> (tracked => row = lock)
         /\ NoticeRight <=> Bare \subseteq Of(Stands)
         /\ ButtonsRight <=> Of(Stands) \subseteq open
         /\ Shut <=> Stands # NoLock
         /\ \A h \in Goroutines : ~At(h, "lockEdit")
<1>1. \A h \in Goroutines : \A d \in Middle : ~At(h, d)
  BY DEF Plain, At, Now
<1>2. \A h \in Goroutines : ~RowDue(h) /\ ~Closing(h) /\ ~At(h, "noticed") /\ ~At(h, "closeNotice")
                            /\ ~At(h, "writeLock")
  BY <1>1 DEF Middle, RowDue, Closing
<1>3. ~Committing /\ ~Opening /\ \A h \in Goroutines : ~At(h, "lockEdit")
  BY <1>1 DEF Middle, Committing, Opening
<1>4. NoticeRight <=> Bare \subseteq Of(Stands)
  BY <1>2 DEF NoticeRight
<1>5. ButtonsRight <=> Of(Stands) \subseteq open
  BY <1>2, <1>3 DEF ButtonsRight
<1> QED BY <1>2, <1>3, <1>4, <1>5 DEF RowRight, Shut

LEMMA AllPlainNext ==
  ASSUME \A h \in Goroutines : Plain(run'[h])
  PROVE  /\ \A h \in Goroutines : Phase(h)'
         /\ RowRight' <=> (tracked' => row' = lock')
         /\ NoticeRight' <=> Bare' \subseteq Of(Stands')
         /\ ButtonsRight' <=> Of(Stands') \subseteq open'
         /\ Shut' <=> Stands' # NoLock
         /\ \A h \in Goroutines : ~At(h, "lockEdit")'
<1>1. \A h \in Goroutines : \A d \in Middle : ~At(h, d)'
  BY DEF Plain, At, Now
<1>2. \A h \in Goroutines : ~RowDue(h)' /\ ~Closing(h)' /\ ~At(h, "noticed")' /\ ~At(h, "closeNotice")'
                            /\ ~At(h, "writeLock")' /\ Phase(h)'
  BY <1>1 DEF Middle, RowDue, Closing, Phase
<1>3. ~Committing' /\ ~Opening' /\ \A h \in Goroutines : ~At(h, "lockEdit")'
  BY <1>1 DEF Middle, Committing, Opening
<1>4. NoticeRight' <=> Bare' \subseteq Of(Stands')
  BY <1>2 DEF NoticeRight, Of
<1>5. ButtonsRight' <=> Of(Stands') \subseteq open'
  BY <1>2, <1>3 DEF ButtonsRight, Of
<1>6. RowRight' <=> (tracked' => row' = lock')
  BY <1>2 DEF RowRight
<1> QED BY <1>2, <1>3, <1>4, <1>5, <1>6 DEF Shut

LEMMA RebuildTold ==
  ASSUME Basics, Told, Rebuild
  PROVE  Told'
<1> USE DEF Basics
<1> SUFFICES ASSUME exists' PROVE Told'
  BY GoneTold
<1>1. /\ UNCHANGED <<exists, perms, at, open, posted, cache, updates, events, sweepDue, hub,
                     row, left, spoilt, late, loose>>
      /\ run[Sweep] # <<>> /\ Now(Sweep).do = "rebuild" /\ At(Sweep, "rebuild") /\ Sweep \in Goroutines
  BY DEF Rebuild, outside, gateway, At, Goroutines
<1>2. exists /\ Lasting /\ Whole
  BY <1>1 DEF Told, Lasting
<1>3. PICK q : /\ tracked' = TRUE /\ occupants' = at /\ lock' = Restored(Now(Sweep).held)
               /\ missed' = {}
               /\ Planned(q) /\ ~EndsOne(q) /\ Becomes(Sweep, q)
               /\ q # <<>> => q[1].do \in {"add", "deleteEmpty"}
               /\ IF change # NoChange THEN change' = change \cup at ELSE change' = change
               /\ \A m : AddsIn(q, m) <=> change = NoChange /\ lock' # NoLock /\ m \in at
  BY <1>1, <1>2, RebuildBasics DEF Whole
<1>4. Plain(run[Sweep]) /\ Plain(q)
  BY <1>1, <1>3 DEF Plain, Middle, Now
<1>5. Stands' = Stands /\ lock' = Stands /\ (tracked => lock' = lock) /\ Bare' = Bare
  BY <1>1, <1>2, <1>3 DEF Whole, Stands, Restored, Bare
<1>6. /\ SameMiddle /\ run'[Sweep] = q
      /\ \A h \in Goroutines : h # Sweep => run'[h] = run[h]
      /\ \A n : AddsIn(q, n) => Adds(n)'
      /\ HoldersAdd'
  <2>1. lock # NoLock => lock' # NoLock
    BY <1>5 DEF Plans
  <2> QED BY <1>1, <1>2, <1>3, <1>4, <2>1, StepKeeps DEF Lasting
<1>7. Whole'
  BY <1>1, <1>2, <1>3, <1>6 DEF Whole, At, Now
<1>8. Heard'
  BY <1>1, <1>3 DEF Heard
<1>9. /\ ~tracked => change = NoChange
      /\ change = NoChange => \A h \in Goroutines : Plain(run[h]) /\ Plain(run'[h])
  BY <1>2, <1>4, <1>6, NobodyHolds DEF Whole
<1>10. /\ Shut' <=> Shut
       /\ \A h \in Goroutines : Phase(h)'
       /\ RowRight => RowRight'
       /\ NoticeRight => NoticeRight'
       /\ ButtonsRight => ButtonsRight'
       /\ EditFull => EditFull'
  <2>1. CASE tracked
    <3>1. UNCHANGED <<tracked, lock, row, open, loose>>
      BY <1>1, <1>3, <1>5, <2>1 DEF Basics, AccessTypes
    <3>2. EditFull => EditFull'
      BY <1>3, <1>6, <3>1, EditStays
    <3> QED BY <1>2, <1>6, <3>1, <3>2, Keeps DEF Lasting
  <2>2. CASE ~tracked
    <3>1. RowRight => RowRight'
      BY <1>1, <1>2, <1>3, <1>5, <1>9, <2>2, AllPlainNext DEF Stands
    <3> QED BY <1>1, <1>5, <1>9, <2>2, <3>1, AllPlain, AllPlainNext DEF EditFull
  <2> QED BY <2>1, <2>2
<1>11. ASSUME Shut, NEW m \in occupants' \ missed' PROVE Covered(m)'
  <2>1. CASE change = NoChange
    <3>1. lock' # NoLock
      BY <1>5, <1>9, <1>11, <2>1, AllPlain
    <3> QED BY <1>3, <1>6, <2>1, <3>1 DEF Covered
  <2>2. CASE change # NoChange
    BY <1>3, <2>2, NotAChange DEF AccessTypes, Covered
  <2> QED BY <2>1, <2>2
<1>12. ListRight /\ GuestsCovered => ListRight' /\ GuestsCovered'
  BY <1>1, <1>10, <1>11, GuestsMove
<1> QED BY <1>1, <1>2, <1>6, <1>7, <1>8, <1>10, <1>12, SoundStays DEF Told, Lasting

LEMMA RestartTold ==
  ASSUME Basics, Told, Restart
  PROVE  Told'
<1> USE DEF Basics
<1> SUFFICES ASSUME exists' PROVE Told'
  BY GoneTold
<1>1. /\ spoilt' = (spoilt \ {"store"}) \cup {w \in {"row"} : Behind}
      /\ loose' = loose \cup (open \ Of(row)) /\ late' = late
      /\ ~tracked' /\ occupants' = {} /\ lock' = NoLock /\ change' = NoChange
      /\ events' = {} /\ sweepDue' = TRUE
      /\ UNCHANGED <<exists, perms, at, open, posted, hub, row>>
  BY DEF Restart, outside, Untracked
<1>2. \A h \in Goroutines : run'[h] = <<>>
  BY RestartBasics
<1>3. exists /\ Whole
  BY <1>1 DEF Told, Lasting
<1>4. Sweep \in Goroutines /\ Calls \subseteq Goroutines
  BY DEF Goroutines
<1>5. \A h \in Goroutines : Plain(run'[h])
  BY <1>2 DEF Plain
<1>6. Whole' /\ Heard' /\ Rebuilding'
  BY <1>1, <1>2, <1>3, <1>4 DEF Whole, Heard, Rebuilding, At
<1>7. /\ \A h \in Goroutines : Phase(h)'
      /\ RowRight' <=> (tracked' => row' = lock')
      /\ NoticeRight' <=> Bare' \subseteq Of(Stands')
      /\ ButtonsRight' <=> Of(Stands') \subseteq open'
      /\ Shut' <=> Stands' # NoLock
      /\ \A h \in Goroutines : ~At(h, "lockEdit")'
  BY <1>5, AllPlainNext
<1>8. Stands' = row /\ Bare' \subseteq Of(row)
  BY <1>1 DEF Stands, Bare
<1>9. HoldersAdd' /\ EditFull'
  BY <1>2, <1>7 DEF HoldersAdd, EditFull, Holds, EndsOne
<1>10. Lasting'
  BY <1>6, <1>7, <1>8, <1>9 DEF Lasting
<1>11. Sound({"row"})' => ~Behind
  BY <1>1 DEF Sound
<1>12. Sound({"row"})' => ButtonsRight'
  BY <1>1, <1>7, <1>8, <1>11 DEF Behind
<1>13. ASSUME Sound({"edit", "row"})' PROVE ListRight' /\ GuestsCovered'
  <2>1. Sound({"edit", "row"}) /\ ~Behind
    BY <1>1, <1>13 DEF Sound
  <2>2. ListRight
    BY <1>3, <2>1 DEF Told
  <2>3. row # NoLock <=> perms.denied
    BY <1>3, <2>1, NoValues DEF Behind, Whole, AccessTypes, Lists
  <2>4. ListRight'
    BY <1>1, <1>7, <1>8, <2>2, <2>3 DEF ListRight
  <2> QED BY <1>6, <2>4 DEF GuestsCovered, Covered
<1> QED BY <1>1, <1>7, <1>10, <1>12, <1>13 DEF Told

LEMMA ChannelDeleteTold ==
  ASSUME Told, NEW g \in Calls, ChannelDelete(g)
  PROVE  Told'
  BY GoneTold DEF ChannelDelete, outside

-----------------------------------------------------------------------------
(* The invariant and the theorems.                                         *)

LEMMA AccessInvInit ==
  ASSUME AccessConstants, NoValues, AccessInit
  PROVE  AccessInv
<1>1. /\ exists = TRUE /\ perms = Source /\ open = {} /\ posted = 0
      /\ at = {Owner} /\ occupants = {Owner} /\ tracked = TRUE
      /\ cache = Source /\ updates = <<>> /\ events = {} /\ sweepDue = FALSE
      /\ hub = [stands |-> TRUE, locking |-> TRUE]
      /\ lock = NoLock /\ change = NoChange /\ row = NoLock
      /\ run = [g \in Goroutines |-> <<>>]
      /\ left \in AccessSets /\ spoilt = {} /\ missed = {} /\ late = {} /\ loose = {}
  BY DEF AccessInit
<1>2. \A g \in Goroutines : run[g] = <<>>
  BY <1>1
<1>3. AccessTypes
  <2>1. Source \in Lists
    BY DEF Source, Lists
  <2>2. updates \in Seq(Lists) /\ run \in [Goroutines -> Seq(Sections)]
    BY <1>1
  <2>3. left \in [AccessKinds -> Nat] /\ at \subseteq Members /\ occupants \subseteq Members
    BY <1>1 DEF AccessConstants
  <2>4. hub \in [stands : BOOLEAN, locking : BOOLEAN]
    BY <1>1
  <2> QED BY <1>1, <2>1, <2>2, <2>3, <2>4 DEF AccessTypes
<1>4. Plans
  <2>1. \A g \in Goroutines : Planned(run[g]) /\ ~Holds(g)
    <3>1. Planned(<<>>)
      BY EmptyLen DEF Planned
    <3> QED BY <1>2, <3>1 DEF Holds, EndsOne
  <2>2. Sweep \in Goroutines
    BY DEF Goroutines
  <2> QED BY <1>1, <1>2, <2>1, <2>2 DEF Plans
<1>5. \A g \in Goroutines : Plain(run[g])
  BY <1>2 DEF Plain
<1>6. \A g \in Goroutines : Phase(g)
  BY <1>2 DEF Phase, At
<1>7. Whole
  BY <1>1, <1>2, NoValues DEF NoValues, Goroutines, Whole, At
<1>8. Stands = NoLock /\ Bare = {} /\ Of(Stands) = {}
  BY <1>1 DEF Stands, Bare, Of
<1>9. RowRight /\ NoticeRight /\ ButtonsRight /\ ~Shut /\ \A g \in Goroutines : ~At(g, "lockEdit")
  BY <1>1, <1>5, <1>8, AllPlain
<1>10. HoldersAdd /\ EditFull
  BY <1>2, <1>9 DEF HoldersAdd, EditFull, Holds, EndsOne
<1>11. ListRight /\ GuestsCovered
  BY <1>1, <1>9 DEF ListRight, GuestsCovered, Source
<1>12. Lasting
  BY <1>1, <1>6, <1>7, <1>9, <1>10 DEF Lasting, Heard
<1> QED BY <1>3, <1>4, <1>9, <1>11, <1>12 DEF AccessInv, Told

(* A step that leaves the lock's variables as they are.                    *)
LEMMA AccessInvStays ==
  ASSUME AccessInv, UNCHANGED accessVars
  PROVE  AccessInv'
<1>1. /\ UNCHANGED <<exists, perms, at, open, posted, cache, updates, events, sweepDue>>
      /\ UNCHANGED <<hub, tracked, occupants, lock, change, row, run, left, spoilt, missed, late, loose>>
  BY DEF accessVars, outside, gateway, record, budget, own
<1>2. run' = run
  BY <1>1
<1>3. /\ \A h, d : At(h, d)' <=> At(h, d)
      /\ \A h : Now(h)' = Now(h)
      /\ \A h : Holds(h)' <=> Holds(h)
      /\ \A m : Adds(m)' <=> Adds(m)
  BY <1>2 DEF At, Now, Holds, Adds
<1>4. AccessTypes'
  BY <1>1, <1>2 DEF AccessInv, AccessTypes
<1>5. Plans'
  BY <1>1, <1>2, <1>3 DEF AccessInv, Plans
<1>6. SameMiddle /\ (HoldersAdd => HoldersAdd') /\ (Rebuilding' <=> Rebuilding)
  BY <1>1, <1>2, <1>3, SameRun DEF Rebuilding
<1>7. /\ (\A g \in Goroutines : Phase(g)) => \A g \in Goroutines : Phase(g)'
      /\ RowRight => RowRight'
      /\ NoticeRight => NoticeRight'
      /\ ButtonsRight => ButtonsRight'
      /\ Shut' <=> Shut
  BY <1>1, <1>6, Keeps
<1>8. (Whole => Whole') /\ (Heard => Heard')
  BY <1>1, <1>2, <1>3, <1>6 DEF Whole, Heard
<1>9. EditFull => EditFull'
  BY <1>1, <1>3 DEF EditFull
<1>10. ListRight /\ GuestsCovered => ListRight' /\ GuestsCovered'
  BY <1>1, <1>3, <1>6, <1>7, GuestsStay, GuestsMove DEF AccessInv, AccessTypes
<1>11. \A wrongs : Sound(wrongs)' <=> Sound(wrongs)
  BY <1>1 DEF Sound
<1>12. Lasting => Lasting'
  BY <1>6, <1>7, <1>8, <1>9 DEF Lasting
<1>13. Told'
  BY <1>1, <1>7, <1>10, <1>11, <1>12 DEF AccessInv, Told
<1> QED BY <1>4, <1>5, <1>13 DEF AccessInv

LEMMA BasicsStep ==
  ASSUME Basics, AccessNext
  PROVE  Basics'
<1>1. ASSUME NEW g \in Goroutines, Step(g) PROVE Basics'
  BY <1>1, AccessBasics, EditBasics, CommitBasics, UnlockCommitBasics, PostNoticeBasics,
     NoticedBasics, WriteLockBasics, EndChangeBasics, NextGuestBasics, AddSendBasics,
     DeleteEmptyBasics, ForgetBasics DEF Step
<1>2. ASSUME Handles PROVE Basics'
  BY <1>2, VoiceUpdateBasics, ChannelDeleteBasics DEF Handles
<1>3. ASSUME Disturbs PROVE Basics'
  BY <1>3, AsideBasics, AskedBasics, RestartBasics DEF Disturbs, Aside
<1>4. ASSUME ChannelUpdate PROVE Basics'
  BY <1>4, AsideBasics DEF Aside
<1> QED BY <1>1, <1>2, <1>3, <1>4, SweepStartBasics, RebuildBasics DEF AccessNext

LEMMA ToldStep ==
  ASSUME Basics, Told, AccessNext
  PROVE  Told'
<1>1. ASSUME NEW g \in Goroutines, Step(g) PROVE Told'
  BY <1>1, AccessTold, EditTold, LockCommitTold, UnlockCommitTold, PostNoticeTold,
     NoticedTold, WriteLockTold, CloseNoticeTold, EndChangeTold, NextGuestTold, AddSendTold,
     DeleteForgetTold DEF Step
<1>2. ASSUME Handles PROVE Told'
  BY <1>2, VoiceUpdateTold, ChannelDeleteTold DEF Handles
<1>3. ASSUME Disturbs PROVE Told'
  BY <1>3, AsideTold, AskedTold, RestartTold DEF Disturbs, Aside
<1>4. ASSUME ChannelUpdate PROVE Told'
  BY <1>4, AsideTold DEF Aside
<1> QED BY <1>1, <1>2, <1>3, <1>4, SweepStartTold, RebuildTold DEF AccessNext

LEMMA AccessInvStep ==
  ASSUME AccessInv, [Next]_all
  PROVE  AccessInv'
  BY BasicsStep, ToldStep, AccessInvStays DEF OfLock, AccessInv, Basics, Next, OfDelay,
     all

(* At rest no section is left to speak of.                                 *)
LEMMA CalmTold ==
  ASSUME AccessInv, Calm
  PROVE  LockTold
<1>1. /\ \A g \in Goroutines : run[g] = <<>>
      /\ events = {} /\ ~sweepDue /\ updates = <<>> /\ exists /\ tracked
  BY DEF Calm
<1>2. \A g \in Goroutines : Plain(run[g]) /\ ~Holds(g) /\ \A d : ~At(g, d)
  BY <1>1 DEF Plain, Holds, EndsOne, At
<1>3. change = NoChange /\ ~Rebuilding
  BY <1>1, <1>2 DEF Goroutines, AccessInv, Plans, Rebuilding
<1>4. \A m : ~Adds(m)
  BY <1>1, EmptyLen DEF Adds, AddsIn
<1>5. Stands = lock
  BY <1>1 DEF Stands
<1>6. RowTellsLock
  BY <1>1, <1>2, AllPlain DEF RowTellsLock, AccessInv, Told
<1>7. OneNotice
  BY <1>1, <1>2, <1>5, AllPlain DEF OneNotice, AccessInv, Told, Lasting, Bare
<1>8. Shut <=> lock # NoLock
  BY <1>2, <1>5, AllPlain
<1>9. ASSUME Sound({"edit", "row"})
      PROVE  IF lock = NoLock THEN ~perms.denied /\ perms.guests \subseteq late
                              ELSE perms.denied /\ at \ missed \subseteq perms.guests
  <2>1. ListRight /\ GuestsCovered /\ at \subseteq occupants
    BY <1>1, <1>3, <1>9 DEF AccessInv, Told, Lasting, Heard
  <2> QED BY <1>3, <1>4, <1>8, <2>1 DEF ListRight, GuestsCovered, Covered
<1> QED BY <1>6, <1>7, <1>9 DEF LockTold, ListTellsLock

LEMMA AccessInvTells ==
  ASSUME AccessInv
  PROVE  LockTold
  BY CalmTold DEF LockTold, ListTellsLock, RowTellsLock, OneNotice

LEMMA TypesHold ==
  ASSUME TimeConstants, AccessInv, WaitInv, SlotInv
  PROVE  TypesOK
  BY TimeConstants DEF WaitInv, WaitTypes, Waits, TimeConstants, SlotInv, Slots, TypesOK,
     AccessInv, AccessTypes, Plans, Notices

(* At rest the channel's overwrite list, its row and its lock notice say   *)
(* what the record says of the lock, and everyone inside a locked channel  *)
(* is its guest, whatever commands, presses, joins, sweeps, refusals and   *)
(* restarts came before.  What the code leaves open is excepted by name:   *)
(* the list after an edit whose answer was lost or a restart whose row was *)
(* behind Discord, until the next edit is in; the row while its last write *)
(* failed; the members missed, who are no guests; the late guests, added   *)
(* after an unlock; and the loose notices, whose post's answer or close    *)
(* was lost (temp_vc_lock.go, temp_vc_guest.go, temp_vc_let_in.go,         *)
(* temp_vc_lock_notice.go).                                                *)
THEOREM LockAlwaysTold == Spec => []LockTold
<1>1. Init => AccessInv
  BY AccessInvInit, AccessConstants, NoValues DEF Init
<1>2. AccessInv /\ [Next]_all => AccessInv'
  BY AccessInvStep
<1>3. AccessInv => LockTold
  BY AccessInvTells
<1> QED BY <1>1, <1>2, <1>3, PTL DEF Spec

(* The types, the lock told alike everywhere but for what LockAlwaysTold   *)
(* excepts, every delete wait as the delay stands, and no more renames     *)
(* told of in a window than Discord allows.                                *)
THEOREM AccessAlwaysHolds == Spec => []AccessHolds
<1>1. Init => AccessInv /\ WaitInv /\ SlotInv
  BY AccessInvInit, WaitInvInit, SlotInvInit, AccessConstants, NoValues, TimeConstants DEF Init
<1>2. AccessInv /\ WaitInv /\ SlotInv /\ [Next]_all => AccessInv' /\ WaitInv' /\ SlotInv'
  BY AccessInvStep, WaitInvStep, SlotInvStep, TimeConstants
<1>3. AccessInv /\ WaitInv /\ SlotInv => TypesOK
  BY TypesHold, TimeConstants
<1>4. Spec => [](AccessInv /\ WaitInv /\ SlotInv)
  BY <1>1, <1>2, PTL DEF Spec
<1>5. Spec => []TypesOK
  BY <1>3, <1>4, PTL
<1> QED BY <1>5, LockAlwaysTold, WaitsAlwaysRight, SlotsAlwaysTell, PTL DEF AccessHolds
=============================================================================
