--------------------------- MODULE MCTempVCAccess ---------------------------
(***************************************************************************)
(* TLC instance of one spawned channel's lock and guest list, of its       *)
(* delete delay and of its renames.  They share no state that matters to   *)
(* the properties, so one run checks whichever WHICH names.                *)
(***************************************************************************)
EXTENDS TempVCAccess, TempVCTimes, TLC

VARIABLE which

(* At most this many of each kind and none of the others.                  *)
AtMost(kinds, f) == [k \in kinds |-> IF k \in DOMAIN f THEN f[k] ELSE 0]
AccessAllowances == {AtMost(AccessKinds, f) : f \in
  {[command |-> 2, move |-> 2], [command |-> 2, lost |-> 1, move |-> 1],
   [command |-> 2, storeFault |-> 1, restart |-> 1],
   [command |-> 2, lost |-> 1, restart |-> 1],
   [command |-> 2, storeFault |-> 1, reconnect |-> 1],
   [command |-> 2, move |-> 1, reconnect |-> 1],
   [command |-> 3, move |-> 1], [command |-> 1, move |-> 2, restart |-> 1],
   [command |-> 2, refuse |-> 1, save |-> 1],
   [command |-> 1, move |-> 2, refuse |-> 1],
   [command |-> 2, handDelete |-> 1, move |-> 1]}}
(* A lock, somebody who comes in, and an unlock: nothing goes wrong.       *)
OneJoin == {AtMost(AccessKinds, [command |-> 2, move |-> 1])}
TimeAllowances == {AtMost(TimeKinds, f) : f \in
  {[move |-> 3, save |-> 1], [move |-> 1, save |-> 2], [move |-> 2, reconnect |-> 2],
   [move |-> 2, restart |-> 1, save |-> 1], [move |-> 3, deleteFault |-> 1],
   [restart |-> 1, lost |-> 1],
   [move |-> 1, reconnect |-> 1, save |-> 1]}}

all == <<which, accessVars, timeVars>>
AtRest(f, S) == f = CHOOSE g \in S : TRUE
Init ==
  /\ AccessInit /\ TimeInit /\ which \in {"lock", "delay", "rename"}
  /\ which # "lock" => AtRest(left, AccessSets)
  /\ which # "delay" => AtRest(delay, Delays)
  /\ which = "lock" => AtRest(timeLeft, TimeSets)
  /\ which = "rename" => AtRest(timeLeft, {f \in TimeSets : f["lost"] > 0})
OfLock(A) == which = "lock" /\ A /\ UNCHANGED <<which, timeVars>>
OfDelay(A) == which = "delay" /\ A /\ UNCHANGED <<which, accessVars>>
Next ==
  \/ OfLock(AccessNext) \/ OfDelay(DelayNext)
  \/ which = "rename" /\ RenameNext /\ UNCHANGED <<which, accessVars>>

(* Goroutines run, the gateway delivers and the clock goes on.  Members    *)
(* and moderators need do nothing.                                         *)
Spec ==
  /\ Init /\ [][Next]_all
  /\ \A g \in Goroutines : WF_all(OfLock(Step(g)))
  /\ WF_all(OfLock(Handles)) /\ WF_all(OfLock(SweepStart \/ Rebuild))
  /\ WF_all(OfLock(ChannelUpdate))
  /\ WF_all(OfDelay(DelaySteps)) /\ WF_all(OfDelay(Ticks))

-----------------------------------------------------------------------------
(* The types of the variables, and a channel not tracked has no record.    *)
TypesOK ==
  /\ exists \in BOOLEAN /\ perms \in Lists /\ cache \in Lists
  /\ at \subseteq Members /\ occupants \subseteq Members /\ events \subseteq Members
  /\ open \subseteq 1 .. posted /\ posted \in Notices
  /\ updates \in Seq(Lists) /\ sweepDue \in BOOLEAN
  /\ hub \in [stands : BOOLEAN, locking : BOOLEAN] /\ tracked \in BOOLEAN
  /\ lock \in Locks \cup {NoLock} /\ row \in Locks \cup {NoLock, NoRow}
  /\ change = NoChange \/ change \subseteq Members
  /\ ~tracked => occupants = {} /\ lock = NoLock
  /\ left \in [AccessKinds -> Nat] /\ spoilt \subseteq Wrongs /\ missed \subseteq Members
  /\ late \subseteq Members /\ loose \subseteq 1 .. posted
  /\ clock \in 0 .. MaxClock /\ made \in 0 .. MaxWaits /\ delay \in Delays
  /\ wait = NoWait \/ wait \in [since : 0 .. MaxClock, due : Nat, number : 1 .. made]
  /\ renames \cup asked \cup accepted \cup unheard \subseteq
       [at : 0 .. clock, number : 1 .. MaxRenames]

(* No goroutine, event or update is on its way.                            *)
Calm == /\ \A g \in Goroutines : run[g] = <<>>
        /\ events = {} /\ ~sweepDue /\ updates = <<>> /\ exists /\ tracked
Sound(wrongs) == spoilt \cap wrongs = {}

(* Once everything has come to rest, a locked channel denies Connect to    *)
(* everyone and everyone inside is on its guest list, however they got in, *)
(* and an unlocked one has its permission source back with no guest left:  *)
(* the held joins of accessChange, insideLocked and endAccessChange.  The  *)
(* exceptions: an edit whose answer was lost and a row behind Discord at a *)
(* restart, until the next edit; the members missed; and late guests, none *)
(* of whom an access change added.                                         *)
ListTellsLock ==
  Calm /\ Sound({"edit", "row"}) =>
    IF lock = NoLock THEN ~perms.denied /\ perms.guests \subseteq late
                     ELSE perms.denied /\ at \ missed \subseteq perms.guests

(* At rest the row says what the record says of the lock, notice included, *)
(* across waits, refusals, sweeps and restarts, unless its last write      *)
(* failed: writeLock follows every change, and restoreLockLocked takes the *)
(* newer of the two.                                                       *)
RowTellsLock == Calm /\ Sound({"store"}) => row = lock

(* At rest the only notice with buttons is the lock's own: each unlock     *)
(* closes the notice its lock posted, and a channel never keeps two, but   *)
(* for those whose own post or close failed and those a restart's row does *)
(* not name.  The lock's own has its buttons, unless a restart restored an *)
(* older lock.                                                             *)
OneNotice ==
  Calm => open \ loose \subseteq Of(lock) /\ (Sound({"row"}) => Of(lock) \subseteq open)

(* The lock, told alike by Discord, the record, the row and the notice.    *)
LockTold == ListTellsLock /\ RowTellsLock /\ OneNotice

(* A wait belongs to a channel the record has empty, counts from when it   *)
(* emptied through saves and reconnects, ends when the hub's delay as it   *)
(* stands is over, and its timer runs or has just fired; a channel left    *)
(* empty by everyone waits, is being checked, or its delete was refused.   *)
WaitsRight ==
  /\ wait # NoWait =>
       /\ known /\ ~heard /\ wait.since = emptied /\ wait.due = wait.since + delay
       /\ wait.number \in fired \cup {t.number : t \in timers}
  /\ \A t \in timers : wait # NoWait /\ wait.number = t.number
  /\ known /\ ~heard => wait # NoWait \/ checks > 0 \/ kept

(* A channel the record has empty goes, unless somebody comes in, its      *)
(* delete was refused, or its delay ends after the clock of this instance. *)
EmptyGoes ==
  which = "delay" /\ known /\ ~heard ~>
    ~lives \/ inside \/ kept \/ (wait # NoWait /\ wait.due > MaxClock)

(* Every command, press, join and sweep ends: no change waits for another  *)
(* for ever; and an empty channel goes.                                    *)
CallsEnd == (\A g \in Goroutines : []<>(run[g] = <<>>)) /\ EmptyGoes

(* Of the renames Discord told this process it accepted no more than       *)
(* RenamesPerWindow took a slot within one window, and every one of them   *)
(* in the last window and every one in flight holds a slot: one refused,   *)
(* one whose answer was lost and one before a restart hold none.           *)
SlotsTell ==
  /\ \A t \in 0 .. MaxClock :
       Cardinality({a \in accepted : a.at >= t /\ a.at < t + RenameWindow}) <= RenamesPerWindow
  /\ \A t \in 0 .. MaxClock : Recent(t) =>
       {s \in renames : s.at = t} = {s \in accepted \cup asked : s.at = t}

(* No guest add comes to the channel once its unlock's edit is in: an      *)
(* unlock's edit never lands before a guest add that started first         *)
(* (temp_vc_lock.go:35).                                                   *)
NoneAfterUnlock == late = {}

(* A channel's lock, its delete wait and its rename slots.                 *)
AccessHolds == TypesOK /\ LockTold /\ WaitsRight /\ SlotsTell
=============================================================================
