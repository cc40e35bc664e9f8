---------------------------- MODULE TempVCAccess ----------------------------
(***************************************************************************)
(* The lock of one spawned channel: /voice-lock, /voice-unlock, the lock   *)
(* notice and its two buttons, the guest list and the restart sweep's part *)
(* in it (commands/temp_vc_lock.go, temp_vc_guest.go, temp_vc_let_in.go,   *)
(* temp_vc_lock_notice.go).                                                *)
(*                                                                         *)
(* A lock, an unlock and a let-in are access changes: one at a time, and   *)
(* one that arrives during another waits.  An action is one critical       *)
(* section of TempVC.mu, one store call or one Discord call.               *)
(*                                                                         *)
(* The overwrite list is what it does: whether Connect is denied to        *)
(* everyone, and the members it is allowed to one by one.  The moderator   *)
(* roles, which keep their allow, are left out of it; so is ownership, of  *)
(* which TempVC says more: the owner is fixed here.                        *)
(***************************************************************************)
EXTENDS Naturals, Sequences, FiniteSets

CONSTANTS
  Members,     \* the members of the guild
  Owner,       \* the channel's owner
  Moderators,  \* the holders of one of the hub's moderator roles
  Hidden,      \* the members and bots who cannot see the channel
  Picks,       \* the members a submission of the member picker may carry
  Calls,       \* the goroutines of events, commands and presses
  Sweep,       \* the goroutine of the restart sweep
  NoOne, NoLock, NoChange, NoRow,
  NoNotice,    \* the empty message ID
  AccessSets   \* how often each kind of disturbance may happen: bounds

AccessKinds == {"move", "command", "save", "refuse", "lost", "storeFault",
                "reconnect", "restart", "handDelete"}
Wrongs == {"edit", "store", "row"}
Commands == {"lock", "unlock", "button", "letIn"}

ASSUME AccessConstants ==
  /\ IsFiniteSet(Members) /\ Owner \in Members
  /\ Moderators \subseteq Members /\ Hidden \subseteq Members
  /\ Picks \subseteq SUBSET Members
  /\ Sweep \notin Calls /\ NoOne \notin Members
  /\ AccessSets \subseteq [AccessKinds -> Nat] /\ AccessSets # {}

Notices == Nat
Locks == [locker : Members, notice : Notices \cup {NoNotice}]
Lists == [denied : BOOLEAN, guests : SUBSET Members]
Source == [denied |-> FALSE, guests |-> {}]

ASSUME NoValues ==
  /\ NoNotice \notin Notices /\ NoLock \notin Locks
  /\ NoRow \notin Locks \cup {NoLock}
  /\ \A who \in SUBSET Members : who # NoChange

VARIABLES
  \* Discord
  exists,     \* the channel exists
  perms,      \* its overwrite list
  at,         \* who is inside: the cache's voice states tell the same
  open,       \* the lock notices that still have their buttons
  posted,     \* how many lock notices were ever posted
  \* the gateway
  cache,      \* the overwrite list in the state cache
  updates,    \* CHANNEL_UPDATE events on their way, each with its list
  events,     \* members with a voice state event whose handler has not run
  sweepDue,   \* a GUILD_CREATE whose handler has not run
  \* the runtime's record, guarded by mu
  hub,        \* the hub's row: stands, and its "Locking allowed"
  tracked, occupants,
  lock,       \* the lockRecord, NoLock while unlocked
  change,     \* accessChange.joins while one is in flight
  \* the store
  row,        \* the lock on the channel's row
  \* goroutines
  run,        \* the sections each goroutine has still to run, in order
  left,       \* disturbances still to come, by kind
  \* own records, for the properties: what the code leaves open
  spoilt,     \* "edit": the last edit took effect, its answer was lost; "store":
              \* the last write of the row failed; "row": a restart found the
              \* row behind Discord
  missed,     \* members inside who are no guests: NextGuest and AddSend say why
  late,       \* guests added to the open list by an add of no access change
  loose       \* notices with buttons that no lock has

outside == <<exists, perms, at, open, posted>>
gateway == <<cache, updates, events, sweepDue>>
record  == <<hub, tracked, occupants, lock, change>>
own == <<spoilt, missed, late, loose>>
budget == <<left, own>>
accessVars == <<outside, gateway, record, row, run, budget>>

Goroutines == Calls \cup {Sweep}

Uses(kind) == left[kind] > 0 /\ left' = [left EXCEPT ![kind] = @ - 1]
Spend(kind) == Uses(kind) /\ UNCHANGED own

(* The notice a lock has: it is to have buttons.                           *)
Of(l) == IF l \in {NoLock, NoRow} THEN {} ELSE {l.notice} \ {NoNotice}

(* A goroutine for the next event or command: they are all alike.          *)
Free(g) == g \in Calls /\ run[g] = <<>> /\ g = CHOOSE c \in Calls : run[c] = <<>>

(* One section of a goroutine.                                             *)
Section(do, by, who, held) == [do |-> do, by |-> by, who |-> who, held |-> held]
Todo(do, who) == Section(do, NoOne, who, NoLock)
Now(g) == run[g][1]
At(g, do) == run[g] # <<>> /\ Now(g).do = do
Becomes(g, sections) == run' = [run EXCEPT ![g] = sections]
Goes(g) == Becomes(g, Tail(run[g]))

(* Wrong on purpose, to test CallsEnd: a refused change never ends.        *)
Abandoned(g) == Becomes(g, <<>>)
(* A change that cannot go on still ends: endAccessChange is deferred.     *)
ToTheEnd(g) == Becomes(g, <<run[g][Len(run[g])]>>)

(* isModeratorLocked, authorizeLocked: the rule of the commands.           *)
Authorized(by) == by \in Moderators \/ by = Owner

(* lockNoticeAuthorityLocked: the rule of the buttons.                     *)
Pressable(by) == lock # NoLock /\ (by \in Moderators \/ lock.locker = by)

(* What the call resolves to when it may go on, read afresh after a wait.  *)
May(do, by) ==
  CASE do = "lock" -> /\ tracked /\ by \in occupants
                      /\ hub.stands /\ hub.locking /\ Authorized(by)
    [] do = "unlock" -> tracked /\ by \in occupants /\ Authorized(by)
    [] OTHER -> Pressable(by)

(* Nothing to do for a call that may: already locked or its channel not    *)
(* cached, not locked or its hub's permission source unreadable.           *)
Declined(do) ==
  CASE do = "lock" -> lock # NoLock \/ ~exists
    [] do = "letIn" -> FALSE
    [] OTHER -> lock = NoLock \/ ~hub.stands

(* idleChannelLocked: no access change is in flight on the channel.        *)
Idle == change = NoChange

(* insideLocked: the record's occupants and whom the cache shows inside.   *)
Inside == occupants \cup at

(* lockOverwrites: the channel's list as the cache holds it, closed to     *)
(* everyone but its member allows and the guests.                          *)
LockedList(who) == [denied |-> TRUE, guests |-> cache.guests \cup who]

(* A lock begins: the list it sends is made of the cache's and of who is   *)
(* inside at this check.                                                   *)
BeginLock(g, s) ==
  Becomes(g, <<Section("lockEdit", s.by, LockedList(Inside).guests, NoLock),
               Section("lockCommit", s.by, {}, NoLock),
               Section("postNotice", s.by, {}, NoLock), Todo("end", {})>>)

BeginUnlock(g, s) ==
  Becomes(g, <<Todo("unlockEdit", {}), Todo("unlockCommit", {}), Todo("end", {})>>)

BeginLetIn(g, s) == Becomes(g, <<Todo("pick", s.who), Todo("end", {})>>)

(* Lock, unlock and letIn up to their first call: refused, or an access    *)
(* change begun.                                                           *)
Access(g) ==
  /\ run[g] # <<>> /\ Now(g).do \in Commands
  /\ LET s == Now(g)
     IN \/ /\ ~May(s.do, s.by) /\ Goes(g) /\ UNCHANGED change
        \/ /\ May(s.do, s.by) /\ Idle
           /\ \/ Declined(s.do) /\ Goes(g) /\ UNCHANGED change
              \/ /\ ~Declined(s.do) /\ change' = {}
                 /\ CASE s.do = "lock" -> BeginLock(g, s)
                      [] s.do = "letIn" -> BeginLetIn(g, s)
                      [] OTHER -> BeginUnlock(g, s)
  /\ UNCHANGED <<outside, gateway, hub, tracked, occupants, lock, row, budget>>

(* Wrong on purpose, to test AccessHolds: the lock of an untracked channel *)
(* stays.                                                                  *)
UntrackedButLocked == tracked' = FALSE /\ occupants' = {} /\ UNCHANGED lock
(* untrackLocked, as this module keeps it.                                 *)
Untracked == tracked' = FALSE /\ occupants' = {} /\ lock' = NoLock

(* A join's or the sweep's guest add, which no access change holds.        *)
Direct(g) == g = Sweep \/ \A i \in DOMAIN run[g] : run[g][i].do # "end"

(* ChannelOverwritesReplace: Discord takes the whole list and the reply    *)
(* goes into the state cache; it refuses; or it takes the list and the     *)
(* answer is lost, which the code takes for a refusal.                     *)
Edit(g) ==
  /\ run[g] # <<>> /\ Now(g).do \in {"lockEdit", "unlockEdit"}
  /\ LET list == IF Now(g).do = "lockEdit"
                 THEN [denied |-> TRUE, guests |-> Now(g).who] ELSE Source
     IN \/ /\ exists /\ perms' = list /\ cache' = list
           /\ updates' = Append(updates, list)
           /\ spoilt' = spoilt \ {"edit", "row"} /\ late' = {}
           /\ missed' = missed \ list.guests
           /\ Goes(g) /\ UNCHANGED <<tracked, occupants, lock, row, left, loose>>
        \/ /\ exists /\ Spend("refuse") /\ ToTheEnd(g)
           /\ UNCHANGED <<perms, cache, updates, tracked, occupants, lock, row>>
        \/ /\ exists /\ Uses("lost") /\ ToTheEnd(g)
           /\ perms' = list /\ updates' = Append(updates, list)
           /\ spoilt' = spoilt \cup {"edit"} /\ late' = {}
           /\ UNCHANGED <<cache, tracked, occupants, lock, row, missed, loose>>
        \/ /\ ~exists /\ Untracked /\ row' = NoRow /\ ToTheEnd(g)
           /\ UNCHANGED <<perms, cache, updates, budget>>
  /\ UNCHANGED <<exists, at, open, posted, events, sweepDue, hub, change>>

(* sendLockEdit's commit, unless the channel went meanwhile.               *)
LockCommit(g) ==
  /\ At(g, "lockCommit")
  /\ IF tracked THEN /\ lock' = [locker |-> Now(g).by, notice |-> NoNotice]
                     /\ Goes(g)
                ELSE ToTheEnd(g) /\ UNCHANGED lock
  /\ UNCHANGED <<outside, gateway, hub, tracked, occupants, change, row, budget>>

UnlockCommit(g) ==
  /\ At(g, "unlockCommit")
  /\ IF tracked
     THEN /\ lock' = NoLock
          /\ Becomes(g, <<Section("writeLock", NoOne, {}, NoLock),
                          Section("closeNotice", NoOne, {}, lock)>> \o Tail(run[g]))
     ELSE ToTheEnd(g) /\ UNCHANGED lock
  /\ UNCHANGED <<outside, gateway, hub, tracked, occupants, change, row, budget>>

(* postLockNotice; the lock stands when it fails, or when the answer of a  *)
(* notice that posted is lost.                                             *)
PostNotice(g) ==
  /\ At(g, "postNotice")
  /\ LET held(n) == [locker |-> Now(g).by, notice |-> n]
         then(n) == Becomes(g, <<Section("noticed", NoOne, {}, held(n)),
                                 Section("writeLock", NoOne, {}, held(n))>> \o Tail(run[g]))
     IN \/ /\ exists /\ posted' = posted + 1 /\ open' = open \cup {posted'}
           /\ then(posted') /\ UNCHANGED budget
        \/ /\ exists /\ posted' = posted + 1 /\ open' = open \cup {posted'}
           /\ then(NoNotice) /\ Uses("lost")
           /\ loose' = loose \cup {posted'} /\ UNCHANGED <<spoilt, missed, late>>
        \/ /\ exists => left["refuse"] > 0
           /\ IF exists THEN Spend("refuse") ELSE UNCHANGED budget
           /\ then(NoNotice)
           /\ UNCHANGED <<posted, open>>
  /\ UNCHANGED <<exists, perms, at, gateway, record, row>>

(* Lock records the notice's message ID with the lock, if it still stands. *)
Noticed(g) ==
  /\ At(g, "noticed")
  /\ lock' = IF lock # NoLock THEN Now(g).held ELSE NoLock
  /\ Goes(g)
  /\ UNCHANGED <<outside, gateway, hub, tracked, occupants, change, row, budget>>

(* Wrong on purpose, to test AccessHolds: an unlock writes no row.         *)
WrittenAtLock(held) == held # NoLock
(* Lock and unlock both write the row.                                     *)
Written(held) == TRUE

(* writeLock: the row takes the lock; a failed write is captured alone.    *)
WriteLock(g) ==
  /\ At(g, "writeLock") /\ Goes(g)
  /\ \/ /\ row' = IF row # NoRow /\ Written(Now(g).held) THEN Now(g).held ELSE row
        /\ spoilt' = spoilt \ {"store"} /\ UNCHANGED left
     \/ row' = row /\ spoilt' = spoilt \cup {"store"} /\ Uses("storeFault")
  /\ UNCHANGED <<outside, gateway, record, missed, late, loose>>

(* closeLockNotice: the notice loses its buttons, unless the edit fails.   *)
CloseNotice(g) ==
  /\ At(g, "closeNotice") /\ Goes(g)
  /\ \/ open' = open \ {Now(g).held.notice} /\ UNCHANGED budget
     \/ /\ open' = open /\ Uses("lost")
        /\ loose' = loose \cup (open \cap {Now(g).held.notice})
        /\ UNCHANGED <<spoilt, missed, late>>
  /\ UNCHANGED <<exists, perms, at, posted, gateway, record, row>>

(* Wrong on purpose, to test AccessHolds: the joins held during a change   *)
(* are dropped at its end.                                                 *)
HeldNone == {}
(* The members held while the change was in flight, if the channel is      *)
(* locked now.                                                             *)
Held == IF lock # NoLock THEN change ELSE {}

(* endAccessChange: held members first, while the change holds on.         *)
EndChange(g) ==
  /\ At(g, "end")
  /\ IF Held = {} THEN change' = NoChange /\ Goes(g)
     ELSE /\ change' = {}
          /\ Becomes(g, <<Todo("add", Held)>> \o run[g])
  /\ UNCHANGED <<outside, gateway, hub, tracked, occupants, lock, row, budget>>

(* addGuests skips whom the cache no longer shows inside, letInOne whom it *)
(* may not let in, and addGuest whom the cached list already allows.       *)
Wanted(do, m) ==
  /\ m \notin cache.guests
  /\ IF do = "add" THEN m \in at ELSE m \notin Hidden

(* addGuests and letInEach, one member on: the guest add it sends, if any. *)
(* A member is missed who is skipped for being out and comes back before   *)
(* the leave is heard of, or for being a guest of a cached list that is    *)
(* behind Discord's.                                                       *)
NextGuest(g) ==
  /\ run[g] # <<>> /\ Now(g).do \in {"add", "pick"}
  /\ IF Now(g).who = {} THEN Goes(g) /\ UNCHANGED missed
     ELSE LET m == CHOOSE m \in Now(g).who : TRUE
              rest == <<Todo(Now(g).do, Now(g).who \ {m})>> \o Tail(run[g])
          IN /\ Becomes(g, IF exists /\ Wanted(Now(g).do, m)
                           THEN <<Todo("addSend", {m})>> \o rest ELSE rest)
             /\ missed' = missed \cup
                  {n \in (occupants \ at) \cup (cache.guests \ perms.guests) :
                     n = m /\ Now(g).do = "add"}
  /\ UNCHANGED <<outside, gateway, record, row, left, spoilt, late, loose>>

(* ChannelPermissionSet: one member's overwrite, however long a rate limit *)
(* holds it back.  The cache hears of it by the gateway alone.  A refusal  *)
(* leaves the member out, and Discord saying the channel is gone ends the  *)
(* adds; a lost answer changes nothing that follows.                       *)
AddSend(g) ==
  /\ At(g, "addSend")
  /\ \/ /\ exists
        /\ perms' = [perms EXCEPT !.guests = @ \cup Now(g).who]
        /\ updates' = Append(updates, perms') /\ Goes(g)
        /\ missed' = missed \ Now(g).who
        /\ late' = IF Direct(g) /\ ~perms.denied THEN late \cup Now(g).who ELSE late
        /\ UNCHANGED <<tracked, occupants, lock, row, left, spoilt, loose>>
     \/ /\ exists /\ Uses("refuse") /\ Goes(g)
        /\ missed' = missed \cup Now(g).who
        /\ UNCHANGED <<perms, updates, tracked, occupants, lock, row, spoilt, late, loose>>
     \/ /\ ~exists /\ Untracked /\ row' = NoRow
        /\ IF Direct(g) THEN Becomes(g, <<>>) ELSE ToTheEnd(g)
        /\ UNCHANGED <<perms, updates, budget>>
  /\ UNCHANGED <<exists, at, open, posted, cache, events, sweepDue, hub, change>>

(* Wrong on purpose, to test AccessHolds: a join is added at once, a       *)
(* change in flight or not.                                                *)
JoinsAtOnce(g, who, locked, after) ==
  /\ UNCHANGED change
  /\ Becomes(g, after \o IF locked /\ who # {} THEN <<Todo("add", who)>> ELSE <<>>)
(* joinGuestsLocked: a change in flight holds the join, a locked channel   *)
(* adds it, and an unlocked one does nothing.                              *)
Joins(g, who, locked, after) ==
  IF change # NoChange
  THEN change' = change \cup who /\ Becomes(g, after)
  ELSE /\ UNCHANGED change
       /\ Becomes(g, after \o IF locked /\ who # {} THEN <<Todo("add", who)>> ELSE <<>>)

(* HandleVoiceStateUpdate on this channel, as the cache has the member now:*)
(* an event the cache shows superseded is dropped there.                   *)
VoiceUpdate(g, m) ==
  /\ Free(g) /\ m \in events /\ events' = events \ {m}
  /\ \/ /\ tracked /\ m \in at /\ m \notin occupants
        /\ occupants' = occupants \cup {m}
        /\ Joins(g, {m}, lock # NoLock, <<>>) /\ missed' = missed \ {m}
     \/ /\ tracked /\ m \notin at /\ m \in occupants
        /\ occupants' = occupants \ {m} /\ UNCHANGED change
        /\ Becomes(g, IF occupants' = {} THEN <<Todo("deleteEmpty", {})>> ELSE <<>>)
        /\ missed' = missed \ {m}
     \/ /\ ~tracked \/ (m \in at <=> m \in occupants)
        /\ UNCHANGED <<occupants, change, run, missed>>
  /\ UNCHANGED <<outside, cache, updates, sweepDue, hub, tracked, lock, row, left,
                 spoilt, late, loose>>

(* deleteIfStillEmpty, of which TempVC says more: the channel goes unless  *)
(* somebody is inside, then the record and the row.                        *)
DeleteEmpty(g) ==
  /\ At(g, "deleteEmpty")
  /\ IF tracked /\ occupants = {} /\ at = {}
     THEN exists' = FALSE /\ Becomes(g, <<Todo("forget", {})>> \o Tail(run[g]))
     ELSE UNCHANGED exists /\ Goes(g)
  /\ UNCHANGED <<perms, at, open, posted, gateway, record, row, budget>>

Forget(g) ==
  /\ At(g, "forget") /\ Untracked /\ row' = NoRow /\ Goes(g)
  /\ UNCHANGED <<outside, gateway, hub, change, budget>>

(* handleGuildCreate lists the rows.                                       *)
SweepStart ==
  /\ sweepDue /\ run[Sweep] = <<>> /\ sweepDue' = FALSE
  /\ Becomes(Sweep, <<Section("rebuild", NoOne, {}, row)>>)
  /\ UNCHANGED <<outside, cache, updates, events, record, row, budget>>

(* Wrong on purpose, to test AccessHolds: the sweep always takes the row's *)
(* lock.                                                                   *)
RestoredFromRow(held) == held
(* restoreLockLocked: a tracked channel keeps the record's lock, which is  *)
(* never older than the row's.                                             *)
Restored(held) == IF tracked THEN lock ELSE held

(* handleGuildCreate rebuilds the record from the rows and the cache, and  *)
(* whoever is inside a locked channel becomes its guest.                   *)
Rebuild ==
  /\ At(Sweep, "rebuild")
  /\ LET held == Now(Sweep).held
     IN \/ /\ held = NoRow /\ Untracked /\ Goes(Sweep) /\ UNCHANGED <<change, missed>>
        \/ /\ held # NoRow /\ ~exists /\ Untracked /\ UNCHANGED <<change, missed>>
           /\ Becomes(Sweep, <<Todo("forget", {})>>)
        \/ /\ held # NoRow /\ exists
           /\ tracked' = TRUE /\ occupants' = at /\ lock' = Restored(held) /\ missed' = {}
           /\ Joins(Sweep, at, lock' # NoLock,
                    IF at = {} THEN <<Todo("deleteEmpty", {})>> ELSE <<>>)
  /\ UNCHANGED <<outside, gateway, hub, row, left, spoilt, late, loose>>

-----------------------------------------------------------------------------
(* The world: members, the panel, Discord and the process.                 *)

(* A member walks in, is dragged in, or leaves.                            *)
Move(m) ==
  /\ exists /\ Spend("move") /\ events' = events \cup {m}
  /\ at' = IF m \in at THEN at \ {m} ELSE at \cup {m}
  /\ UNCHANGED <<exists, perms, open, posted, cache, updates, sweepDue, record, row, run>>

(* A member runs /voice-lock or /voice-unlock.                             *)
Asks(g, do, by) ==
  /\ Free(g) /\ Spend("command") /\ Becomes(g, <<Section(do, by, {}, NoLock)>>)
  /\ UNCHANGED <<outside, gateway, record, row>>

(* A member presses the notice's unlock button, or submits the picker its  *)
(* let-in button opened.                                                   *)
Presses(g, by) ==
  /\ Free(g) /\ Spend("command") /\ UNCHANGED <<outside, gateway, record, row>>
  /\ \/ Becomes(g, <<Section("button", by, {}, NoLock)>>)
     \/ \E who \in Picks : Becomes(g, <<Section("letIn", by, who, NoLock)>>)

(* ApplyHub and RemoveHub: the panel turns locking off, or removes it.     *)
SaveHub ==
  /\ Spend("save")
  /\ hub' \in {[stands |-> TRUE, locking |-> ~hub.locking],
               [stands |-> FALSE, locking |-> FALSE]}
  /\ UNCHANGED <<outside, gateway, tracked, occupants, lock, change, row, run>>

(* The gateway's CHANNEL_UPDATE puts its list in the cache.                *)
ChannelUpdate ==
  /\ updates # <<>> /\ cache' = updates[1] /\ updates' = Tail(updates)
  /\ UNCHANGED <<outside, events, sweepDue, record, row, run, budget>>

(* The channel is deleted by hand, and whoever was inside is out.          *)
HandDelete ==
  /\ exists /\ Spend("handDelete") /\ exists' = FALSE /\ at' = {} /\ open' = {}
  /\ events' = events \cup at
  /\ UNCHANGED <<perms, posted, cache, updates, sweepDue, record, row, run>>

(* handleChannelDelete untracks a channel that went, then deletes its row. *)
ChannelDelete(g) ==
  /\ Free(g) /\ ~exists /\ tracked /\ Untracked /\ Becomes(g, <<Todo("forget", {})>>)
  /\ UNCHANGED <<outside, gateway, hub, change, row, budget>>

(* A reconnect: the cache is filled afresh and a sweep follows.            *)
Reconnect ==
  /\ Spend("reconnect") /\ sweepDue' = TRUE
  /\ cache' = perms /\ updates' = <<>>
  /\ UNCHANGED <<outside, events, record, row, run>>

(* The row has not what Discord has of the lock: its last write failed, or *)
(* the process goes between a change's edit and its row.                   *)
Behind == (row \in Locks) # perms.denied \/ ~(Of(row) \subseteq open)

(* The process restarts: the record and every goroutine are gone, in the   *)
(* middle of an access change or not.  The row is all that is left.        *)
Restart ==
  /\ Uses("restart")
  /\ spoilt' = (spoilt \ {"store"}) \cup {w \in {"row"} : Behind}
  /\ loose' = loose \cup (open \ Of(row)) /\ missed' = {} /\ UNCHANGED late
  /\ Untracked /\ change' = NoChange /\ events' = {} /\ sweepDue' = TRUE
  /\ cache' = perms /\ updates' = <<>> /\ run' = [g \in Goroutines |-> <<>>]
  /\ UNCHANGED <<outside, hub, row>>

-----------------------------------------------------------------------------
AccessInit ==
  /\ exists = TRUE /\ perms = Source /\ open = {} /\ posted = 0
  /\ at = {Owner} /\ occupants = {Owner} /\ tracked = TRUE
  /\ cache = Source /\ updates = <<>> /\ events = {} /\ sweepDue = FALSE
  /\ hub = [stands |-> TRUE, locking |-> TRUE]
  /\ lock = NoLock /\ change = NoChange /\ row = NoLock
  /\ run = [g \in Goroutines |-> <<>>]
  /\ left \in AccessSets /\ spoilt = {} /\ missed = {} /\ late = {} /\ loose = {}

(* What goroutine g does next.                                             *)
Step(g) ==
  \/ Access(g) \/ Edit(g) \/ LockCommit(g) \/ UnlockCommit(g)
  \/ PostNotice(g) \/ Noticed(g) \/ WriteLock(g) \/ CloseNotice(g)
  \/ EndChange(g) \/ NextGuest(g) \/ AddSend(g)
  \/ DeleteEmpty(g) \/ Forget(g)

Handles == \E g \in Calls : ChannelDelete(g) \/ \E m \in Members : VoiceUpdate(g, m)
Disturbs ==
  \/ \E m \in Members : Move(m)
  \/ \E g \in Calls, do \in {"lock", "unlock"}, by \in Members : Asks(g, do, by)
  \/ \E g \in Calls, by \in Members : Presses(g, by)
  \/ SaveHub \/ HandDelete \/ Reconnect \/ Restart

AccessNext ==
  \/ \E g \in Goroutines : Step(g)
  \/ Handles \/ SweepStart \/ Rebuild \/ ChannelUpdate \/ Disturbs

(* Goroutines run and the gateway delivers; members need do nothing.       *)
AccessFair ==
  /\ \A g \in Goroutines : WF_accessVars(Step(g))
  /\ WF_accessVars(Handles) /\ WF_accessVars(SweepStart \/ Rebuild)
  /\ WF_accessVars(ChannelUpdate)
=============================================================================
