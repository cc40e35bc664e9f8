---------------------------- MODULE TempVCTimes -----------------------------
(***************************************************************************)
(* What one spawned channel does by the clock: it waits out its hub's      *)
(* delete delay while it is empty (commands/temp_vc_delay.go), and it is   *)
(* renamed at most RenamesPerWindow times in RenameWindow                  *)
(* (commands/temp_vc_rename.go).                                           *)
(*                                                                         *)
(* A timer's goroutine may run late, and its stop may come too late.  The  *)
(* clock ticks in a unit of its own.  The two parts share only the clock   *)
(* and the channel.                                                        *)
(***************************************************************************)
EXTENDS Naturals, FiniteSets

CONSTANTS
  Delays,            \* the delete delays a panel save may bring, 0 for none
  RenameWindow, RenamesPerWindow,
  NoWait,            \* the channel has no deleteWait
  MaxClock, MaxWaits, MaxRenames,  \* bounds
  TimeSets           \* how often each kind of disturbance may happen: bounds

TimeKinds == {"move", "save", "deleteFault", "reconnect", "restart", "lost"}

ASSUME TimeConstants ==
  /\ Delays \subseteq Nat /\ RenameWindow \in Nat /\ RenamesPerWindow \in Nat
  /\ MaxClock \in Nat /\ MaxWaits \in Nat /\ MaxRenames \in Nat
  /\ TimeSets \subseteq [TimeKinds -> Nat] /\ TimeSets # {}
  /\ NoWait \notin [since : Nat, due : Nat, number : Nat]

VARIABLES
  clock,
  lives,      \* the channel exists on Discord
  inside,     \* somebody is inside: the cache's voice states
  moved,      \* a voice state event whose handler has not run
  swept,      \* FALSE while a GUILD_CREATE's handler has still to run
  delay,      \* the hub's delete delay, 0 when its row is gone
  known,      \* the record tracks the channel
  heard,      \* the record has somebody inside
  wait,       \* the channel's deleteWait: when it emptied, when due, its own number
  made,       \* how many deleteWaits were ever made
  timers,     \* the numbers of the waits whose timer runs, with when due
  fired,      \* the waits whose timer's goroutine has started
  checks,     \* goroutines about to check that the channel is still empty
  emptied,    \* when the record found it empty: an own record
  kept,       \* a delete was refused: it stays for the next empty event
  renames,    \* the slots taken of the window: when, numbered within a tick
  asked,      \* the slots of the renames in flight
  accepted,   \* the slots of the renames Discord said it accepted: an own record
  unheard,    \* those of accepted renames this process was not told of, or that
              \* were taken before it started: an own record
  timeLeft    \* disturbances still to come, by kind

delayVars  == <<lives, inside, moved, swept, delay, known, heard, wait, made,
                timers, fired, checks, emptied, kept, timeLeft>>
renameVars == <<renames, asked, accepted, unheard>>
timeVars   == <<clock, delayVars, renameVars>>

Disturbed(kind) ==
  timeLeft[kind] > 0 /\ timeLeft' = [timeLeft EXCEPT ![kind] = @ - 1]

Later == clock < MaxClock /\ clock' = clock + 1

-----------------------------------------------------------------------------
(* The delete delay.                                                       *)

(* Wrong on purpose, to test CallsEnd: a wait already over gets no timer.  *)
ScheduledAhead(since, due, running) ==
  /\ made < MaxWaits /\ made' = made + 1
  /\ wait' = [since |-> since, due |-> due, number |-> made']
  /\ timers' = running \cup IF due > clock THEN {[number |-> made', due |-> due]} ELSE {}
(* scheduleDeleteLocked: a wait and its timer, beside the timers given; one*)
(* already over fires at once.                                             *)
Scheduled(since, due, running) ==
  /\ made < MaxWaits /\ made' = made + 1
  /\ wait' = [since |-> since, due |-> due, number |-> made']
  /\ timers' = running \cup {[number |-> made', due |-> due]}

(* Stopping the wait's timer keeps it from firing, if it has not yet.      *)
Stopped == IF wait = NoWait THEN timers ELSE {t \in timers : t.number # wait.number}
Cancelled == wait' = NoWait /\ timers' = Stopped /\ UNCHANGED made

(* startDeleteWaitLocked: no delay starts nothing, and the channel is      *)
(* checked at once.                                                        *)
EmptiedNow(running) ==
  IF delay = 0
  THEN wait' = NoWait /\ timers' = running /\ checks' = checks + 1 /\ UNCHANGED made
  ELSE Scheduled(clock, clock + delay, running) /\ UNCHANGED checks

(* Wrong on purpose, to test AccessHolds: a join leaves the wait running.  *)
JoinedOnly == UNCHANGED <<wait, timers, made>>
(* cancelDeleteWaitLocked: a join cancels the wait.                        *)
Joined == Cancelled

(* HandleVoiceStateUpdate: a leave that empties the channel, or a join.    *)
Hears ==
  /\ moved /\ moved' = FALSE /\ heard' = (known /\ inside)
  /\ IF ~known \/ heard = inside THEN UNCHANGED <<wait, made, timers, checks, emptied, kept>>
     ELSE /\ kept' = FALSE
          /\ IF inside THEN Joined /\ UNCHANGED <<checks, emptied>>
                       ELSE EmptiedNow(timers) /\ emptied' = clock
  /\ UNCHANGED <<clock, lives, inside, swept, delay, known, fired, timeLeft, renameVars>>

(* The timer's goroutine starts, however late.                             *)
Fires(t) ==
  /\ t \in timers /\ t.due <= clock
  /\ timers' = timers \ {t} /\ fired' = fired \cup {t.number}
  /\ UNCHANGED <<clock, lives, inside, moved, swept, delay, known, heard, wait, made,
                 checks, emptied, kept, timeLeft, renameVars>>

(* Wrong on purpose, to test AccessHolds: a wait that was replaced ends    *)
(* the channel's own.                                                      *)
AnyOwn(n) == wait # NoWait
(* A wait that is no longer the channel's own does nothing.                *)
Own(n) == wait # NoWait /\ wait.number = n

(* deleteWaitOver.                                                         *)
WaitOver(n) ==
  /\ n \in fired /\ fired' = fired \ {n}
  /\ IF Own(n) THEN wait' = NoWait /\ checks' = checks + 1
               ELSE UNCHANGED <<wait, checks>>
  /\ UNCHANGED <<clock, lives, inside, moved, swept, delay, known, heard, made, timers,
                 emptied, kept, timeLeft, renameVars>>

(* deleteIfStillEmpty: the record and the cache must both show it empty. A *)
(* delete Discord refuses, or one the cache alone speaks against, keeps    *)
(* the channel for the next empty event.                                   *)
DeleteIfStillEmpty ==
  /\ checks > 0 /\ checks' = checks - 1
  /\ \/ /\ known /\ ~heard /\ ~inside
        /\ lives' = FALSE /\ known' = FALSE /\ Cancelled
        /\ renames' = {} /\ accepted' = {} /\ UNCHANGED <<kept, timeLeft>>
     \/ /\ known /\ ~heard /\ ~inside /\ Disturbed("deleteFault") /\ kept' = TRUE
        /\ UNCHANGED <<lives, known, wait, timers, made, renames, accepted>>
     \/ /\ ~known \/ heard \/ inside
        /\ kept' = (kept \/ (known /\ ~heard))
        /\ UNCHANGED <<lives, known, wait, timers, made, renames, accepted, timeLeft>>
  /\ UNCHANGED <<clock, inside, moved, swept, delay, heard, fired, emptied, asked, unheard>>

(* Wrong on purpose, to test AccessHolds: a save times the wait from now.  *)
SinceNow(w) == clock
(* A save times the wait again from when the channel emptied.              *)
Since(w) == w.since

(* ApplyHub and RemoveHub with retimeDeleteWaitsLocked: the running wait   *)
(* is timed against the delay as saved.                                    *)
SaveDelay(d) ==
  /\ d # delay /\ Disturbed("save") /\ delay' = d
  /\ IF wait = NoWait THEN UNCHANGED <<wait, made, timers>>
                      ELSE Scheduled(Since(wait), Since(wait) + d, Stopped)
  /\ UNCHANGED <<clock, lives, inside, moved, swept, known, heard, fired, checks,
                 emptied, kept, renameVars>>

(* Wrong on purpose, to test AccessHolds: the sweep starts every wait      *)
(* anew.                                                                   *)
HeldNever == FALSE
(* A reconnect finds the wait this process already holds.                  *)
HeldWait == wait # NoWait

(* handleGuildCreate and sweepDeleteWaitLocked: every other timer stops;   *)
(* an empty channel goes on with its wait, or starts a full one.           *)
Sweeps ==
  /\ ~swept /\ swept' = TRUE /\ known' = lives /\ heard' = (lives /\ inside)
  /\ kept' = FALSE
  /\ IF ~lives \/ inside THEN Cancelled /\ UNCHANGED checks
     ELSE IF HeldWait
          THEN IF delay = 0 THEN Cancelled /\ checks' = checks + 1
               ELSE Scheduled(wait.since, wait.since + delay, Stopped) /\ UNCHANGED checks
          ELSE EmptiedNow(Stopped)
  /\ emptied' = IF lives /\ ~inside /\ wait = NoWait THEN clock ELSE emptied
  /\ UNCHANGED <<clock, lives, inside, moved, delay, fired, timeLeft, renameVars>>

(* A member walks in or the last one leaves.                               *)
MovesThere ==
  /\ lives /\ Disturbed("move") /\ inside' = ~inside /\ moved' = TRUE
  /\ UNCHANGED <<clock, lives, swept, delay, known, heard, wait, made, timers, fired,
                 checks, emptied, kept, renameVars>>

Reconnects ==
  /\ swept /\ Disturbed("reconnect") /\ swept' = FALSE
  /\ UNCHANGED <<clock, lives, inside, moved, delay, known, heard, wait, made, timers,
                 fired, checks, emptied, kept, renameVars>>

(* Nothing about a wait or a rename is stored: the process that starts has *)
(* no slot for a rename Discord accepted, nor for one in flight that it    *)
(* will have accepted.                                                     *)
Restarts ==
  /\ Disturbed("restart")
  /\ swept' = FALSE /\ known' = FALSE /\ heard' = FALSE /\ moved' = FALSE
  /\ wait' = NoWait /\ timers' = {} /\ fired' = {} /\ checks' = 0 /\ kept' = FALSE
  /\ renames' = {} /\ asked' = {} /\ accepted' = {}
  /\ \E taken \in SUBSET asked : unheard' = unheard \cup accepted \cup taken
  /\ UNCHANGED <<clock, lives, inside, delay, made, emptied>>

-----------------------------------------------------------------------------
(* Renames.                                                                *)

(* Wrong on purpose, to test AccessHolds: a rename leaves the window a     *)
(* tick early.                                                             *)
RecentEarly(t) == clock - t < RenameWindow - 1
(* A rename counts until it is a whole window old.                         *)
Recent(t) == clock - t < RenameWindow
Counted == {s \in renames : Recent(s.at)}

(* A slot that no rename has yet.                                          *)
Fresh ==
  [at : {clock}, number : 1 .. MaxRenames] \ (renames \cup asked \cup accepted \cup unheard)

(* Rename, by somebody the record has inside: the slot is taken before the *)
(* edit, unless the window is full.                                        *)
Rename ==
  /\ known /\ heard /\ Fresh # {}
  /\ IF Cardinality(Counted) >= RenamesPerWindow
     THEN renames' = Counted /\ UNCHANGED asked
     ELSE LET slot == CHOOSE s \in Fresh : TRUE
          IN renames' = Counted \cup {slot} /\ asked' = asked \cup {slot}
  /\ UNCHANGED <<clock, delayVars, accepted, unheard>>

(* Wrong on purpose, to test AccessHolds: a failed rename gives back the   *)
(* newest slot, whoever took it.                                           *)
ReleasedLast(slots, slot) ==
  slots \ {CHOOSE s \in slots : \A o \in slots : o.at <= s.at}
(* releaseRenameLocked: the slot taken, if it still counts.  The code      *)
(* looks for its time, and slots of one time are alike.                    *)
Released(slots, slot) == slots \ {slot}

(* ChannelEdit answers a rename in flight.  One refused gives its slot     *)
(* back, and so does one whose answer is lost, though Discord accepted it. *)
Answered(slot) ==
  /\ slot \in asked /\ asked' = asked \ {slot}
  /\ \/ accepted' = accepted \cup {slot} /\ UNCHANGED <<renames, unheard, timeLeft>>
     \/ /\ renames' = Released(renames, slot) /\ UNCHANGED accepted
        /\ \/ UNCHANGED <<unheard, timeLeft>>
           \/ unheard' = unheard \cup {slot} /\ Disturbed("lost")
  /\ UNCHANGED <<clock, lives, inside, moved, swept, delay, known, heard, wait, made,
                 timers, fired, checks, emptied, kept>>

-----------------------------------------------------------------------------
TimeInit ==
  /\ clock = 0 /\ lives = TRUE /\ inside = TRUE /\ moved = FALSE /\ swept = TRUE
  /\ delay \in Delays /\ known = TRUE /\ heard = TRUE
  /\ wait = NoWait /\ made = 0 /\ timers = {} /\ fired = {} /\ checks = 0
  /\ emptied = 0 /\ kept = FALSE
  /\ renames = {} /\ asked = {} /\ accepted = {} /\ unheard = {}
  /\ timeLeft \in TimeSets

Ticks == Later /\ UNCHANGED <<delayVars, renameVars>>

DelaySteps ==
  \/ Hears \/ (\E t \in timers : Fires(t)) \/ (\E n \in fired : WaitOver(n))
  \/ DeleteIfStillEmpty \/ Sweeps
DelayNext ==
  \/ DelaySteps \/ Ticks
  \/ MovesThere \/ (\E d \in Delays : SaveDelay(d)) \/ Reconnects \/ Restarts
RenameNext ==
  Ticks \/ Rename \/ (\E slot \in asked : Answered(slot)) \/ Restarts \/ Sweeps
=============================================================================
