------------------------------ MODULE Recording ------------------------------
(***************************************************************************)
(* The recording runtime of commands/recording.go, recording_stops.go,     *)
(* recording_gap.go and recording_recovery.go, over the recorder accounts  *)
(* of module Recorders: a start reserves a free recorder, which joins the  *)
(* channel; a member, a check of the channels, a timer or a gap ends the   *)
(* recording, its recorder leaves, and its row and notice say so.  After a *)
(* restart recovery closes the rows the last process left open.            *)
(*                                                                         *)
(* One action is one critical section of RecordingRuntime.mu or one call   *)
(* to Discord, the voice adapter or the store.  A goroutine's remaining    *)
(* work is a sequence of items in run, as in TempVC.                       *)
(*                                                                         *)
(* A limit may fire at any moment after it is set.  Voice events that wait *)
(* for a handler are merged.  Who may start or stop, titles, tracks, the   *)
(* info file, mixes, the ping, the link by DM and Sentry are left out.     *)
(***************************************************************************)
EXTENDS Recorders, FiniteSets, SequencesExt

CONSTANTS
  Recs,         \* starts of a recording, numbered in the order they come
  Channels,     \* voice channels a member starts a recording in
  Workers,      \* goroutines of commands, events and timers at one time
  Recovery,     \* the goroutine of recovery
  Out,          \* in no voice channel
  NoRecorder, NoRec, NoGap,
  Allowances    \* how often each kind of disturbance may happen: bounds

Kinds == {"people", "kick", "ownLeave", "gap", "stop", "hang", "loginFault",
          "tokenReset", "discordFault", "storeFault", "restart"}

Goroutines == Workers \cup {Recovery}
Ends == {"stopped", "cap", "disk", "left", "empty", "gap", "restart"}

ASSUME RecordingAssumption ==
  /\ Recs \subseteq Nat \ {0} /\ IsFiniteSet(Recs)
  /\ Out \notin Channels /\ Recovery \notin Workers
  /\ NoRecorder \notin Recorders /\ NoRec \notin Recs /\ NoGap = 0
  /\ Allowances \subseteq [Kinds -> Nat]

VARIABLES
  \* Discord and the main session's cache of it
  at,        \* where Discord has each recorder, and by which login
  seen,      \* where the cache has it
  human,     \* the channels the cache shows a human in
  check,     \* a voice event or a timer has still to run its check
  \* the runtime
  running,   \* RecordingRuntime.running: the recording of a busy recorder
  rec,       \* activeRecording, by start
  shutdown,  \* Shutdown has run
  \* the voice adapter's side of a recording
  conn,      \* its connection: none, joining, open, or hung in its leave
  ear,       \* its receiver: off, hears, or told of a gap
  armed,     \* gap limits that are timed: <<recording, gap>>
  \* what outlives the process
  row, notice,
  used,      \* starts made so far
  old,       \* starts made by processes before this one
  \* goroutines
  run,       \* the items each goroutine has still to run
  snap,      \* its snapshot of the cache
  allowed    \* disturbances still to come, by kind

world   == <<at, seen, human, check>>
runtime == <<running, rec, shutdown>>
adapter == <<conn, ear, armed>>
kept    == <<row, notice, used, old>>
work    == <<run, snap>>
vars    == <<recordersVars, world, runtime, adapter, kept, work, allowed>>

(* A start, a check, a stop and a cut short, the restart's recovery.       *)
Starts   == {"join", "joined", "notice", "row", "receive", "enter", "check"}
Stops    == {"judge", "capture", "leave", "closeRow", "release", "releaseLate",
             "editNotice", "removeNotice"}
Cuts     == {"gapLimit", "relogin"}
Recovers == {"look", "idle", "kick", "list", "recover"}
Item == [op : Starts \cup Stops \cup Cuts \cup Recovers, s : Nat, k : Nat]

(* A section about recording s; about recorder s when recovery looks at it.*)
Do(op, s) == [op |-> op, s |-> s, k |-> 0]
Snapshot == [seen : [Recorders -> Channels \cup {Out}], human : SUBSET Channels]
NoSnap == [seen |-> [r \in Recorders |-> Out], human |-> {}]

Active == [chan : Channels \cup {Out}, recorder : Recorders \cup {NoRecorder},
           via : Nat, entered : BOOLEAN, stopping : BOOLEAN, gap : Nat,
           recorderSeen : BOOLEAN, ownLeft : BOOLEAN, grace : BOOLEAN,
           ended : Ends \cup {"no"}]
Blank == [chan |-> Out, recorder |-> NoRecorder, via |-> 0, entered |-> FALSE,
          stopping |-> FALSE, gap |-> NoGap, recorderSeen |-> FALSE,
          ownLeft |-> FALSE, grace |-> FALSE, ended |-> "no"]
Place == [chan : Channels \cup {Out}, login : Nat]

TypeOK ==
  /\ RecordersTypeOK
  /\ at \in [Recorders -> Place] /\ seen \in [Recorders -> Channels \cup {Out}]
  /\ human \subseteq Channels /\ check \in BOOLEAN
  /\ running \in [Recorders -> Recs \cup {NoRec}]
  /\ rec \in [Recs -> Active] /\ shutdown \in BOOLEAN
  /\ conn \in [Recs -> {"none", "joining", "open", "hung"}]
  /\ ear \in [Recs -> {"off", "hears", "gap"}]
  /\ armed \subseteq Recs \X Nat
  /\ row \in [Recs -> Ends \cup {"none", "open"}]
  /\ notice \in [Recs -> {"none", "on", "off"}]
  /\ used \in Nat /\ old \subseteq Recs
  /\ run \in [Goroutines -> Seq(Item)] /\ snap \in [Goroutines -> Snapshot]
  /\ allowed \in [Kinds -> Nat]

----------------------------------------------------------------------------
(* Helpers                                                                 *)

Spend(k) == allowed[k] > 0 /\ allowed' = [allowed EXCEPT ![k] = @ - 1]

Idle(g)   == run[g] = <<>>
At(g, op) == run[g] # <<>> /\ Head(run[g]).op = op
Goes(g, q) == run' = [run EXCEPT ![g] = q \o Tail(@)]
Begins(g, q) == Idle(g) /\ run' = [run EXCEPT ![g] = q]
Rec(g) == Head(run[g]).s

(* live: it runs, and no stop has taken it.                                *)
Live(s) == rec[s].entered /\ ~rec[s].stopping
Runs(s) == rec[s].recorder # NoRecorder /\ running[rec[s].recorder] = s

(* The leave of recording s reaches Discord: the recorder is out, unless   *)
(* its voice state belongs to another login by now.                        *)
Left(s) ==
  at' = [r \in Recorders |->
           IF r = rec[s].recorder /\ at[r].login = rec[s].via
           THEN [chan |-> Out, login |-> 0] ELSE at[r]]

(* A stop takes a recording, which ends as end.                            *)
Taken(s, end) == [rec EXCEPT ![s].stopping = TRUE, ![s].ended = end]
(* Wrong on purpose, to test RowsTell: the row waits for the next restart. *)
FinishOpen(s) == <<Do("leave", s), Do("release", s), Do("editNotice", s)>>

(* What follows a stop, once the capture has ended (finishEnded).          *)
Finish(s) == <<Do("leave", s), Do("closeRow", s), Do("release", s),
               Do("editNotice", s)>>

(* A first process, whose recovery found nothing.  First logins that fail  *)
(* are bounded as later ones are.                                          *)
Init ==
  /\ allowed \in Allowances
  /\ RecordersInit
  /\ Cardinality({r \in Recorders : state[r] # "online"}) <= allowed["loginFault"]
  /\ at = [r \in Recorders |-> [chan |-> Out, login |-> 0]]
  /\ seen = [r \in Recorders |-> Out]
  /\ human = Channels /\ check = FALSE
  /\ running = [r \in Recorders |-> NoRec]
  /\ rec = [s \in Recs |-> Blank] /\ shutdown = FALSE
  /\ conn = [s \in Recs |-> "none"] /\ ear = [s \in Recs |-> "off"] /\ armed = {}
  /\ row = [s \in Recs |-> "none"] /\ notice = [s \in Recs |-> "none"]
  /\ used = 0 /\ old = {}
  /\ run = [g \in Goroutines |-> <<>>] /\ snap = [g \in Goroutines |-> NoSnap]

----------------------------------------------------------------------------
(* Discord and the cache                                                   *)

(* The last human leaves a channel, or one comes back.                     *)
People(c) ==
  /\ Spend("people")
  /\ human' = IF c \in human THEN human \ {c} ELSE human \cup {c}
  /\ check' = TRUE
  /\ UNCHANGED <<recordersVars, at, seen, runtime, adapter, kept, work>>

(* Someone disconnects a recorder, or moves it elsewhere.                  *)
Kick(r) ==
  /\ at[r].chan # Out /\ Spend("kick")
  /\ \E c \in (Channels \cup {Out}) \ {at[r].chan} :
       at' = [at EXCEPT ![r].chan = c]
  /\ UNCHANGED <<recordersVars, seen, human, check, runtime, adapter, kept, work>>

(* Discord drops the voice state of a login that is over.                  *)
DropOut(r) ==
  /\ at[r].chan # Out /\ <<r, at[r].login>> \notin up
  /\ at' = [at EXCEPT ![r] = [chan |-> Out, login |-> 0]]
  /\ UNCHANGED <<recordersVars, seen, human, check, runtime, adapter, kept, work,
                 allowed>>

(* The recorder's voice state reaches the main session, which runs a check.*)
CacheSees(r) ==
  /\ seen[r] # at[r].chan
  /\ seen' = [seen EXCEPT ![r] = at[r].chan]
  /\ check' = TRUE
  /\ UNCHANGED <<recordersVars, at, human, runtime, adapter, kept, work, allowed>>

(* The recorder leaves on its own to join again, counted just before, and  *)
(* joins again.                                                            *)
OwnLeave(s) ==
  /\ conn[s] = "open" /\ Spend("ownLeave")
  /\ at[rec[s].recorder] = [chan |-> rec[s].chan, login |-> rec[s].via]
  /\ rec' = [rec EXCEPT ![s].ownLeft = TRUE]
  /\ at' = [at EXCEPT ![rec[s].recorder].chan = Out]
  /\ UNCHANGED <<recordersVars, seen, human, check, running, shutdown, adapter,
                 kept, work>>

OwnRejoin(s) ==
  /\ conn[s] = "open" /\ at[rec[s].recorder] = [chan |-> Out, login |-> rec[s].via]
  /\ <<rec[s].recorder, rec[s].via>> \in up
  /\ at' = [at EXCEPT ![rec[s].recorder].chan = rec[s].chan]
  /\ UNCHANGED <<recordersVars, seen, human, check, runtime, adapter, kept, work,
                 allowed>>

(* ownLeaveGrace is over: a check judges the channel then.                 *)
GraceEnds(s) ==
  /\ rec[s].grace
  /\ rec' = [rec EXCEPT ![s].grace = FALSE]
  /\ check' = TRUE
  /\ UNCHANGED <<recordersVars, at, seen, human, running, shutdown, adapter, kept,
                 work, allowed>>

(* The recorder accounts go on by themselves, faults bounded.              *)
Accounts ==
  /\ \/ /\ \E r \in Recorders : \/ LogBackIn(r) \/ LogOut(r) \/ Attempt(r)
                                \/ Open(r) \/ OpenRefused(r) \/ LoggedIn(r)
                                \/ TokenRefused(r)
        /\ UNCHANGED allowed
     \/ \E l \in ending : LogOutEnds(l) /\ UNCHANGED allowed
     \/ \E r \in Recorders : LogOutTimesOut(r) /\ Spend("hang")
     \/ \E r \in Recorders : OpenFails(r) /\ Spend("loginFault")
     \/ \E r \in Recorders : TokenReset(r) /\ Spend("tokenReset")
     \/ shutdown /\ Close /\ UNCHANGED allowed
  /\ UNCHANGED <<world, runtime, adapter, kept, work>>

----------------------------------------------------------------------------
(* A start                                                                 *)

Free(st) == {r \in Recorders : running[r] = NoRec /\ state[r] = st}

(* The checks that only read, then reserveRecorder: no recording of the    *)
(* channel counts, and the first free recorder is taken, an offline one    *)
(* only when none is online.                                               *)
Start(w, c) ==
  LET s == used + 1
      r == Min(IF Free("online") # {} THEN Free("online") ELSE Free("offline"))
  IN /\ s \in Recs /\ c \in human
     /\ \A q \in Recorders : running[q] # NoRec => rec[running[q]].chan # c
     /\ Free("online") \cup Free("offline") # {}
     /\ Begins(w, <<Do("join", s)>>)
     /\ running' = [running EXCEPT ![r] = s]
     /\ rec' = [rec EXCEPT ![s].chan = c, ![s].recorder = r]
     /\ used' = s
     /\ UNCHANGED <<recordersVars, world, shutdown, adapter, row, notice, old, snap,
                    allowed>>

(* Wrong on purpose, to test TypeOK: an empty entry stays.                 *)
FreedToNil(s) == running' = [running EXCEPT ![rec[s].recorder] = 0]

Freed(s) == running' = [running EXCEPT ![rec[s].recorder] = NoRec]

(* Recorders.Join: on to the login that is up; refused when out, or logged *)
(* out at shutdown; an offline recorder's next login may come too late.    *)
Join(w) ==
  /\ At(w, "join")
  /\ LET s == Rec(w)
         r == rec[s].recorder
     IN \/ /\ state[r] = "online" /\ session[r] # NoLogin
           /\ rec' = [rec EXCEPT ![s].via = session[r]]
           /\ conn' = [conn EXCEPT ![s] = "joining"]
           /\ Goes(w, <<Do("joined", s)>>)
           /\ UNCHANGED running
        \/ /\ state[r] # "online" \/ session[r] = NoLogin
           /\ Freed(s) /\ Goes(w, <<>>)
           /\ UNCHANGED <<rec, conn>>
  /\ UNCHANGED <<recordersVars, world, shutdown, ear, armed, kept, snap, allowed>>

(* Wrong on purpose, to test StopsRight: a failed start frees nobody.      *)
UndoneKept(s) == <<Do("leave", s)>>

Undone(s) == <<Do("leave", s), Do("release", s)>>

(* The join is answered.  One that fails leaves again; one that went in    *)
(* deafened, and could not be undeafened, fails the start.                 *)
Joined(w) ==
  /\ At(w, "joined")
  /\ LET s == Rec(w)
         r == rec[s].recorder
         in == /\ <<r, rec[s].via>> \in up
               /\ at' = [at EXCEPT ![r] = [chan |-> rec[s].chan, login |-> rec[s].via]]
               /\ conn' = [conn EXCEPT ![s] = "open"]
               /\ UNCHANGED running
     IN \/ in /\ Goes(w, <<Do("notice", s)>>) /\ UNCHANGED allowed
        \/ in /\ Goes(w, Undone(s)) /\ Spend("discordFault")
        \/ /\ IF <<r, rec[s].via>> \in up THEN Spend("discordFault") ELSE UNCHANGED allowed
           /\ conn' = [conn EXCEPT ![s] = "none"]
           /\ Freed(s) /\ Goes(w, <<>>)
           /\ UNCHANGED at
  /\ UNCHANGED <<recordersVars, seen, human, check, rec, shutdown, ear, armed, kept,
                 snap>>

(* With no notice the recording does not go on.                            *)
Notice(w) ==
  /\ At(w, "notice")
  /\ LET s == Rec(w)
     IN \/ /\ notice' = [notice EXCEPT ![s] = "on"]
           /\ Goes(w, <<Do("row", s)>>) /\ UNCHANGED allowed
        \/ Goes(w, Undone(s)) /\ Spend("discordFault") /\ UNCHANGED notice
  /\ UNCHANGED <<recordersVars, world, runtime, adapter, row, used, old, snap>>

(* Wrong on purpose, to test StopsRight: a start runs no check of its own. *)
RowUnchecked(w) ==
  /\ At(w, "row")
  /\ row' = [row EXCEPT ![Rec(w)] = "open"]
  /\ Goes(w, <<Do("receive", Rec(w)), Do("enter", Rec(w))>>)
  /\ UNCHANGED <<recordersVars, world, runtime, adapter, notice, used, old, snap,
                 allowed>>

(* Nor with no row; a write that fails may be there all the same.          *)
Row(w) ==
  /\ At(w, "row")
  /\ LET s == Rec(w)
         written == row' = [row EXCEPT ![s] = "open"]
     IN \/ /\ written /\ UNCHANGED allowed
           /\ Goes(w, <<Do("receive", s), Do("enter", s), Do("check", s)>>)
        \/ /\ written \/ UNCHANGED row
           /\ Goes(w, Undone(s) \o <<Do("removeNotice", s)>>) /\ Spend("storeFault")
  /\ UNCHANGED <<recordersVars, world, runtime, adapter, notice, used, old, snap>>

Receive(w) ==
  /\ At(w, "receive")
  /\ ear' = [ear EXCEPT ![Rec(w)] = "hears"]
  /\ Goes(w, <<>>)
  /\ UNCHANGED <<recordersVars, world, runtime, conn, armed, kept, snap, allowed>>

Enter(w) ==
  /\ At(w, "enter")
  /\ running' = [running EXCEPT ![rec[Rec(w)].recorder] = Rec(w)]
  /\ rec' = [rec EXCEPT ![Rec(w)].entered = TRUE]
  /\ Goes(w, <<>>)
  /\ UNCHANGED <<recordersVars, world, shutdown, adapter, kept, snap, allowed>>

----------------------------------------------------------------------------
(* A check of the channels                                                 *)

Snapped(g) == snap' = [snap EXCEPT ![g] = [seen |-> seen, human |-> human]]

(* checkChannels takes its snapshot before the lock, in a start ...        *)
Check(w) ==
  /\ At(w, "check") /\ Snapped(w)
  /\ Goes(w, <<Do("judge", 0)>>)
  /\ UNCHANGED <<recordersVars, world, runtime, adapter, kept, allowed>>

(* ... or on the goroutine of an event or of a timer.                      *)
CheckEvent(w) ==
  /\ check /\ check' = FALSE
  /\ Snapped(w) /\ Begins(w, <<Do("judge", 0)>>)
  /\ UNCHANGED <<recordersVars, at, seen, human, runtime, adapter, kept, allowed>>

(* Under the lock it judges every live recording by that snapshot, whose   *)
(* own leave, if it learns of one, counts from now.  Every capture ends    *)
(* before any recorder leaves.                                             *)
Judge(w) ==
  /\ At(w, "judge")
  /\ LET live == {s \in Recs : Runs(s) /\ Live(s)}
         in(s) == snap[w].seen[rec[s].recorder] = rec[s].chan
         grace(s) == rec[s].ownLeft \/ rec[s].grace
         left == {s \in live : rec[s].recorderSeen /\ ~in(s) /\ ~grace(s)}
         empty == {s \in live \ left : rec[s].chan \notin snap[w].human}
     IN /\ rec' = [s \in Recs |->
                     IF s \notin live THEN rec[s]
                     ELSE [rec[s] EXCEPT
                             !.recorderSeen = @ \/ in(s),
                             !.ownLeft = FALSE, !.grace = grace(s),
                             !.stopping = s \in left \cup empty,
                             !.ended = IF s \in left THEN "left"
                                       ELSE IF s \in empty THEN "empty" ELSE @]]
        /\ \E q \in SetToSeqs(left \cup empty) :
             Goes(w, [i \in DOMAIN q |-> Do("capture", q[i])]
                     \o FlattenSeq([i \in DOMAIN q |-> Finish(q[i])]))
  /\ snap' = [snap EXCEPT ![w] = NoSnap]
  /\ UNCHANGED <<recordersVars, world, running, shutdown, adapter, kept, allowed>>

----------------------------------------------------------------------------
(* A stop, from its taking to the end of its goroutine                     *)

(* A member, by command or by the notice's button; the cap, the disk check *)
(* or the channel's deletion.                                              *)
Stop(w, s) ==
  /\ Runs(s) /\ Live(s) /\ Spend("stop")
  /\ \E end \in {"stopped", "cap", "disk", "left"} : rec' = Taken(s, end)
  /\ Begins(w, <<Do("capture", s)>> \o Finish(s))
  /\ UNCHANGED <<recordersVars, world, running, shutdown, adapter, kept, snap>>

(* endCapture: the gap that runs ends, its limit with it.                  *)
Capture(w) ==
  /\ At(w, "capture")
  /\ rec' = [rec EXCEPT ![Rec(w)].gap = NoGap]
  /\ armed' = armed \ {<<Rec(w), rec[Rec(w)].gap>>}
  /\ Goes(w, <<>>)
  /\ UNCHANGED <<recordersVars, world, running, shutdown, conn, ear, kept, snap,
                 allowed>>

(* Wrong on purpose, to test RecordingsSettle: the stop hangs with its     *)
(* leave.                                                                  *)
RanLateStuck(q, s) == <<>>

(* A leave that ran past its deadline makes the release of s a late one.   *)
RanLate(q, s) ==
  [i \in DOMAIN q |-> IF q[i].op = "release" /\ q[i].s = s
                      THEN Do("releaseLate", s) ELSE q[i]]

Leave(w) ==
  /\ At(w, "leave")
  /\ LET s == Rec(w)
     IN \/ /\ conn' = [conn EXCEPT ![s] = "none"]
           /\ ear' = [ear EXCEPT ![s] = "off"]
           /\ Left(s) /\ Goes(w, <<>>) /\ UNCHANGED allowed
        \/ /\ conn' = [conn EXCEPT ![s] = "hung"]
           /\ run' = [run EXCEPT ![w] = RanLate(Tail(@), s)]
           /\ Spend("hang") /\ UNCHANGED <<ear, at>>
  /\ UNCHANGED <<recordersVars, seen, human, check, runtime, armed, kept, snap>>

(* The hung leave returns, if ever, on its own goroutine.                  *)
LateLeave(s) ==
  /\ conn[s] = "hung"
  /\ conn' = [conn EXCEPT ![s] = "none"]
  /\ ear' = [ear EXCEPT ![s] = "off"]
  /\ Left(s)
  /\ UNCHANGED <<recordersVars, seen, human, check, runtime, armed, kept, work, allowed>>

(* A row that could not be closed stays open, or is closed all the same.   *)
CloseRow(w) ==
  /\ At(w, "closeRow")
  /\ LET closes == row' = [row EXCEPT ![Rec(w)] = rec[Rec(w)].ended]
     IN \/ closes /\ UNCHANGED allowed
        \/ (closes \/ UNCHANGED row) /\ Spend("storeFault")
  /\ Goes(w, <<>>)
  /\ UNCHANGED <<recordersVars, world, runtime, adapter, notice, used, old, snap>>

Release(w) ==
  /\ At(w, "release")
  /\ Freed(Rec(w)) /\ Goes(w, <<>>)
  /\ UNCHANGED <<recordersVars, world, rec, shutdown, adapter, kept, snap, allowed>>

(* Wrong on purpose, to test StopsRight: the relogin is dropped.           *)
ReloginDropped(s) == <<>>

(* TakeOffline gives a relogin that does something only when it took the   *)
(* recorder offline.                                                       *)
ReloginOf(s) == IF state[rec[s].recorder] = "online" THEN <<Do("relogin", s)>> ELSE <<>>

(* Wrong on purpose, to test StopsRight: online while its leave hangs.     *)
ReleaseLateOnline(w) ==
  /\ At(w, "releaseLate")
  /\ Freed(Rec(w)) /\ Goes(w, <<>>)
  /\ UNCHANGED <<recordersVars, world, rec, shutdown, adapter, kept, snap, allowed>>

(* Wrong on purpose, to test RecordersSpec: one that is out comes back too.*)
ReleaseLateOut(w) ==
  /\ At(w, "releaseLate")
  /\ LET r == rec[Rec(w)].recorder
     IN state' = [state EXCEPT ![r] = "offline"] /\ owed' = owed \cup {r}
  /\ Freed(Rec(w))
  /\ Goes(w, <<Do("relogin", Rec(w))>>)
  /\ UNCHANGED <<valid, session, logins, up, ending, task, held, closed, world, rec,
                 shutdown, adapter, kept, snap, allowed>>

ReleaseLate(w) ==
  /\ At(w, "releaseLate")
  /\ Freed(Rec(w)) /\ TakeOffline(rec[Rec(w)].recorder)
  /\ Goes(w, ReloginOf(Rec(w)))
  /\ UNCHANGED <<valid, session, logins, up, ending, task, held, closed, world, rec,
                 shutdown, adapter, kept, snap, allowed>>

CallRelogin(w) ==
  /\ At(w, "relogin")
  /\ Relogin(rec[Rec(w)].recorder)
  /\ Goes(w, <<>>)
  /\ UNCHANGED <<valid, state, session, logins, up, ending, held, closed, world,
                 runtime, adapter, kept, snap, allowed>>

(* The notice says it stopped, or after a failed start is deleted: an edit *)
(* or a delete Discord refuses leaves it as it is.                         *)
EditNotice(w) ==
  /\ At(w, "editNotice") \/ At(w, "removeNotice")
  /\ \/ notice' = [notice EXCEPT ![Rec(w)] = "off"] /\ UNCHANGED allowed
     \/ UNCHANGED notice /\ Spend("discordFault")
  /\ Goes(w, <<>>)
  /\ UNCHANGED <<recordersVars, world, runtime, adapter, row, used, old, snap>>

----------------------------------------------------------------------------
(* A gap                                                                   *)

(* The receiver tells of a gap; a recording no stop has taken times its    *)
(* limit.  Each gap has a number of its own.                               *)
GapStarted(s) ==
  /\ ear[s] = "hears" /\ Spend("gap")
  /\ ear' = [ear EXCEPT ![s] = "gap"]
  /\ IF rec[s].stopping \/ rec[s].gap # NoGap
     THEN UNCHANGED <<rec, armed>>
     ELSE /\ rec' = [rec EXCEPT ![s].gap = allowed["gap"]]
          /\ armed' = armed \cup {<<s, allowed["gap"]>>}
  /\ UNCHANGED <<recordersVars, world, running, shutdown, conn, kept, work>>

GapEnded(s) ==
  /\ ear[s] = "gap"
  /\ ear' = [ear EXCEPT ![s] = "hears"]
  /\ IF rec[s].stopping \/ rec[s].gap = NoGap
     THEN UNCHANGED <<rec, armed>>
     ELSE /\ rec' = [rec EXCEPT ![s].gap = NoGap]
          /\ armed' = armed \ {<<s, rec[s].gap>>}
  /\ UNCHANGED <<recordersVars, world, running, shutdown, conn, kept, work, allowed>>

(* The limit's timer fires, and its goroutine has still to take the lock.  *)
LimitFires(w, a) ==
  /\ a \in armed /\ armed' = armed \ {a}
  /\ Begins(w, <<[op |-> "gapLimit", s |-> a[1], k |-> a[2]]>>)
  /\ UNCHANGED <<recordersVars, world, runtime, conn, ear, kept, snap, allowed>>

(* gapLimitReached, then cutShort: the recording stops counting and its    *)
(* recorder is offline at once, and its relogin follows its leave.         *)
GapLimit(w) ==
  /\ At(w, "gapLimit")
  /\ LET s == Rec(w)
     IN IF rec[s].gap = Head(run[w]).k /\ Live(s) /\ Runs(s)
        THEN /\ rec' = [rec EXCEPT ![s].stopping = TRUE, ![s].ended = "gap",
                                   ![s].gap = NoGap]
             /\ Freed(s) /\ TakeOffline(rec[s].recorder)
             /\ Goes(w, <<Do("editNotice", s), Do("leave", s)>> \o ReloginOf(s)
                        \o <<Do("closeRow", s)>>)
        ELSE /\ Goes(w, <<>>)
             /\ UNCHANGED <<rec, running, state, owed>>
  /\ UNCHANGED <<valid, session, logins, up, ending, task, held, closed, world,
                 shutdown, adapter, kept, snap, allowed>>

----------------------------------------------------------------------------
(* Shutdown, restart and recovery                                          *)

(* Shutdown takes every live recording: their rows stay open.              *)
Shutdown ==
  /\ ~shutdown /\ shutdown' = TRUE
  /\ allowed["restart"] > 0
  /\ rec' = [s \in Recs |-> [rec[s] EXCEPT !.stopping = @ \/ (Runs(s) /\ Live(s))]]
  /\ UNCHANGED <<recordersVars, world, running, adapter, kept, work, allowed>>

(* The process is gone, at any moment, and another runs: what it held is   *)
(* lost, what Discord and the store hold is not.                           *)
Restart ==
  /\ Spend("restart")
  /\ Reconnected
  /\ Cardinality({r \in valid : state'[r] # "online"}) <= allowed["loginFault"]
  /\ seen' = [r \in Recorders |-> at[r].chan] /\ check' = FALSE
  /\ running' = [r \in Recorders |-> NoRec]
  /\ rec' = [s \in Recs |-> Blank] /\ shutdown' = FALSE
  /\ conn' = [s \in Recs |-> "none"] /\ ear' = [s \in Recs |-> "off"] /\ armed' = {}
  /\ old' = Recs \cap (1 .. used)
  /\ run' = [g \in Goroutines |-> IF g = Recovery THEN <<Do("look", 0)>> ELSE <<>>]
  /\ snap' = [g \in Goroutines |-> NoSnap]
  /\ UNCHANGED <<at, human, row, notice, used>>

(* disconnectIdleRecorders: one snapshot, then each recorder in order.     *)
Look ==
  /\ At(Recovery, "look") /\ Snapped(Recovery)
  /\ \E q \in SetToSeqs(Recorders) :
       /\ \A i, j \in DOMAIN q : i < j => q[i] < q[j]
       /\ Goes(Recovery, [i \in DOMAIN q |-> Do("idle", q[i])] \o <<Do("list", 0)>>)
  /\ UNCHANGED <<recordersVars, world, runtime, adapter, kept, allowed>>

LookAtRecorder ==
  /\ At(Recovery, "idle")
  /\ LET r == Rec(Recovery)
     IN Goes(Recovery, IF snap[Recovery].seen[r] # Out /\ running[r] = NoRec
                       THEN <<Do("kick", r)>> ELSE <<>>)
  /\ UNCHANGED <<recordersVars, world, runtime, adapter, kept, snap, allowed>>

KickIdle ==
  /\ At(Recovery, "kick")
  /\ \/ /\ at' = [at EXCEPT ![Rec(Recovery)] = [chan |-> Out, login |-> 0]]
        /\ UNCHANGED allowed
     \/ UNCHANGED at /\ Spend("discordFault")
  /\ Goes(Recovery, <<>>)
  /\ UNCHANGED <<recordersVars, seen, human, check, runtime, adapter, kept, snap>>

(* Wrong on purpose, to test StopsRight: every open row ...                *)
EveryProcess == {s \in Recs : row[s] = "open"}
(* ... and RowsRecovered: the latest start is not counted.                 *)
BeforeLast == {s \in old \ {used} : row[s] = "open"}

(* recoverLastProcess: the open rows of starts before this process.        *)
LastProcess == {s \in old : row[s] = "open"}

List ==
  /\ At(Recovery, "list")
  /\ \/ /\ \E q \in SetToSeqs(LastProcess) :
             Goes(Recovery, [i \in DOMAIN q |-> Do("recover", q[i])])
        /\ UNCHANGED allowed
     \/ Goes(Recovery, <<>>) /\ Spend("storeFault")
  /\ snap' = [snap EXCEPT ![Recovery] = NoSnap]
  /\ UNCHANGED <<recordersVars, world, runtime, adapter, kept>>

Recover ==
  /\ At(Recovery, "recover")
  /\ LET s == Rec(Recovery)
         closes == row' = [row EXCEPT ![s] = "restart"]
     IN \/ /\ closes /\ UNCHANGED allowed
           /\ Goes(Recovery, <<Do("editNotice", s)>>)
        \/ /\ closes \/ UNCHANGED row
           /\ Spend("storeFault") /\ Goes(Recovery, <<>>)
  /\ UNCHANGED <<recordersVars, world, runtime, adapter, notice, used, old, snap>>

----------------------------------------------------------------------------
Section(g) ==
  \/ Join(g) \/ Joined(g) \/ Notice(g) \/ Row(g) \/ Receive(g) \/ Enter(g)
  \/ Check(g) \/ Judge(g)
  \/ Capture(g) \/ Leave(g) \/ CloseRow(g) \/ Release(g) \/ ReleaseLate(g)
  \/ CallRelogin(g) \/ EditNotice(g) \/ GapLimit(g)

RecoveryStep == Look \/ LookAtRecorder \/ KickIdle \/ List \/ Recover

Next ==
  \/ \E c \in Channels : People(c)
  \/ \E r \in Recorders : Kick(r) \/ DropOut(r) \/ CacheSees(r)
  \/ \E s \in Recs : \/ OwnLeave(s) \/ OwnRejoin(s) \/ GraceEnds(s)
                     \/ GapStarted(s) \/ GapEnded(s) \/ LateLeave(s)
  \/ Accounts
  \/ \E w \in Workers : \/ \E c \in Channels : Start(w, c)
                        \/ CheckEvent(w)
                        \/ \E s \in Recs : Stop(w, s)
                        \/ \E a \in armed : LimitFires(w, a)
  \/ \E g \in Goroutines : Section(g)
  \/ RecoveryStep
  \/ Shutdown \/ Restart

Spec == Init /\ [][Next]_vars

(* Goroutines run on and events reach a handler, calls and joins are       *)
(* answered, the cache catches up, logins are tried again, and a shutdown  *)
(* ends in a restart.  A hung leave or logout may stay hung, and nobody    *)
(* owes a start, a stop or a fault.                                        *)
Fairness ==
  /\ \A r \in Recorders : WF_vars(CacheSees(r)) /\ WF_vars(DropOut(r))
  /\ \A r \in Recorders :
       WF_vars(/\ \/ LogBackIn(r) \/ LogOut(r) \/ Attempt(r) \/ Open(r)
                  \/ OpenRefused(r) \/ LoggedIn(r)
               /\ UNCHANGED <<world, runtime, adapter, kept, work, allowed>>)
  /\ \A s \in Recs : WF_vars(GraceEnds(s))
  /\ \A g \in Goroutines : WF_vars(Section(g))
  /\ WF_vars(RecoveryStep)
  /\ WF_vars(shutdown /\ Restart)
  /\ WF_vars(\E w \in Workers : CheckEvent(w) \/ \E a \in armed : LimitFires(w, a))

FairSpec == Spec /\ Fairness

----------------------------------------------------------------------------
(* Properties                                                              *)

Runner(g, ops, s) == \E i \in DOMAIN run[g] : run[g][i].op \in ops /\ run[g][i].s = s
Pending(ops, s)   == \E g \in Goroutines : Runner(g, ops, s)

Starting(s) == Pending({"join", "joined", "notice", "row", "receive", "enter"}, s)

(* No join ever gets a connection that is still being closed: two          *)
(* recordings never have one through the same login of one recorder, a     *)
(* hung leave included (releaseAfterLeave, gapLimitReached).               *)
OneConnection ==
  \A s, t \in Recs :
    s # t /\ conn[s] # "none" /\ conn[t] # "none" /\ rec[s].recorder = rec[t].recorder
    => rec[s].via # rec[t].via

(* A recorder is busy exactly while a start or a stop of its recording has *)
(* still to release it, or the recording is live, or Shutdown took it: no  *)
(* recorder stays busy for ever, and nobody frees it for a recording that  *)
(* no longer has it.                                                       *)
BusyAccounted ==
  \A s \in Recs :
    Runs(s) <=> \/ Starting(s) \/ Pending({"release", "releaseLate"}, s)
                \/ Live(s)
                \/ shutdown /\ rec[s].entered /\ rec[s].ended = "no"

(* A recorder is owed its relogin exactly while one goroutine has still to *)
(* call it: none taken offline is forgotten.                               *)
OwedCalled ==
  \A r \in Recorders :
    r \in owed <=> \E s \in Recs : rec[s].recorder = r /\ Pending({"relogin"}, s)

(* Nothing is running or on its way, and the cache is up to date.          *)
Quiet ==
  /\ \A g \in Goroutines : Idle(g)
  /\ ~check /\ armed = {}
  /\ \A r \in Recorders : seen[r] = at[r].chan
  /\ \A s \in Recs : ~rec[s].grace

(* When everything has settled no recording goes on in a channel that holds*)
(* no human, whatever order the events, the start and its own check ran in.*)
EmptyStops == Quiet => \A s \in Recs : Live(s) => rec[s].chan \in human

(* When everything has settled, and no store call failed, the rows are open*)
(* of exactly the recordings that are live, or that Shutdown left open for *)
(* the next process: the panel and the deploy gate see what runs.          *)
RowsTell ==
  Quiet => \A s \in Recs :
             row[s] = "open" <=> rec[s].entered /\ rec[s].ended = "no"

(* One end only: an ended row never changes, whatever stop or recovery is  *)
(* still under way, and no end is written that no stop took.               *)
EndedOnce ==
  [][\A s \in Recs :
       /\ row[s] \in Ends => row'[s] = row[s]
       /\ row'[s] \in Ends /\ row'[s] # row[s]
          => row'[s] = IF s \in old THEN "restart" ELSE rec[s].ended]_vars

(* What a stop may never do: hand out a connection that is still closing,  *)
(* lose a recorder or its relogin, let an empty channel's recording run    *)
(* on, or end a recording twice.                                           *)
StopsRight ==
  [](OneConnection /\ BusyAccounted /\ OwedCalled /\ EmptyStops) /\ EndedOnce

(* A stop that took a recording frees its recorder in the end, a leave that*)
(* hangs included; a shutdown leaves that to the restart.                  *)
StopsFree == \A s \in Recs : rec[s].stopping ~> ~Runs(s)

(* An offline recorder comes back, or is out, in the end.                  *)
ComesBack == \A r \in Recorders : state[r] = "offline" ~> state[r] # "offline"

(* Recovery closes every row the last process left open.                   *)
RowsRecovered == \A s \in Recs : s \in old /\ row[s] = "open" ~> row[s] # "open"
RecordingsSettle == StopsFree /\ ComesBack /\ RowsRecovered
=============================================================================
