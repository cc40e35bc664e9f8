-------------------------- MODULE RecordingProofs --------------------------
(***************************************************************************)
(* Proofs about the recording runtime, for any number of recorders,        *)
(* recordings, channels, goroutines and disturbances.                      *)
(*                                                                         *)
(* The recording runtime uses the recorder accounts only as module         *)
(* Recorders says: every step of it is a step of theirs or leaves them     *)
(* alone.  So what is proved of the accounts, which comes first, holds of  *)
(* the whole runtime.                                                      *)
(*                                                                         *)
(* The inductive invariant says what every item that waits in a            *)
(* goroutine's queue may rely on, that no recorder is released, no row     *)
(* closed and no relogin called twice, and what each recording's state     *)
(* says of its recorder, its connection, its row and its channel           *)
(* meanwhile.  After the accounts come the lemmas on queues, what a step   *)
(* that leaves a recording alone keeps of it, the steps of Discord, of the *)
(* adapter, of the accounts and of a start, then the ends, recovery and    *)
(* the theorems.                                                           *)
(***************************************************************************)
EXTENDS Recording, SequenceTheorems, FiniteSetTheorems, WellFoundedInduction, TLAPS

----------------------------------------------------------------------------
(***************************************************************************)
(* What holds of the recorder accounts for any number of recorders: their  *)
(* types, the one way back of an offline recorder, the keeping of logins,  *)
(* and that out is for good.                                               *)
(*                                                                         *)
(* All but the last follow from one inductive invariant, which speaks of   *)
(* one recorder at a time.  It adds to the properties what they rest on:   *)
(* a login goroutine past its start has taken the session away, login      *)
(* numbers are never used twice, and only a shutdown brings a "close".     *)
(***************************************************************************)

Taking == {"logOut", "opened", "close"}   \* tasks that have a login in hand

(* Recorder r and its logins are in order.                                 *)
LoginsInOrder(r) ==
  /\ session[r] <= logins[r] /\ held[r] <= logins[r]
  /\ \A n \in Nat : <<r, n>> \in up \cup ending => 1 <= n /\ n <= logins[r]
  /\ \A n \in Nat : <<r, n>> \in up => \/ n = session[r]
                                       \/ task[r] \in Taking /\ n = held[r]
                                       \/ <<r, n>> \in ending
  /\ task[r] \in Taking => held[r] # NoLogin
  /\ task[r] \notin {"none", "logBackIn"} => session[r] = NoLogin
  /\ \A n \in Nat : <<r, n>> \in ending =>
                       n # session[r] /\ ~(task[r] \in Taking /\ n = held[r])

WayInOrder(r) ==
  /\ r \in owed => task[r] = "none"
  /\ state[r] = "online" => task[r] = "none" /\ r \notin owed
  /\ ~closed /\ state[r] = "online" => session[r] # NoLogin
  /\ ~closed /\ state[r] = "offline" => r \in owed \/ task[r] # "none"
  /\ task[r] = "close" => closed

InOrder(r) == LoginsInOrder(r) /\ WayInOrder(r)
RecordersInv == RecordersTypeOK /\ \A r \in Recorders : InOrder(r)

----------------------------------------------------------------------------
(* The invariant says what the properties say.                             *)
LEMMA InvProperties ==
  ASSUME RecordersInv
  PROVE  WayBack /\ LoginsHeld
  BY DEF RecordersInv, InOrder, WayInOrder, WayBack, RecordersTypeOK, Leaving, InHand,
     Taking, InUse, LoginsInOrder, NoLogin, LoginsHeld

LEMMA InitInv == RecordersInit => RecordersInv
<1> SUFFICES ASSUME RecordersInit PROVE RecordersInv
  OBVIOUS
<1>1. PICK known \in SUBSET Recorders : \E firstUp \in SUBSET known :
        /\ state = FirstState(firstUp, known)
        /\ session = [r \in Recorders |-> IF r \in firstUp THEN 1 ELSE NoLogin]
        /\ up = {<<r, 1>> : r \in firstUp}
        /\ task = FirstTask(firstUp, known)
  BY DEF RecordersInit
<1>0. PICK firstUp \in SUBSET known :
        /\ state = FirstState(firstUp, known)
        /\ session = [r \in Recorders |-> IF r \in firstUp THEN 1 ELSE NoLogin]
        /\ up = {<<r, 1>> : r \in firstUp}
        /\ task = FirstTask(firstUp, known)
  BY <1>1
<1>2. /\ valid = Recorders /\ logins = session /\ ending = {} /\ owed = {}
      /\ held = [r \in Recorders |-> NoLogin] /\ closed = FALSE
  BY DEF RecordersInit
<1>3. RecordersTypeOK
  <2>1. state \in [Recorders -> States] /\ task \in [Recorders -> Tasks]
    BY <1>0 DEF FirstState, FirstTask, States, Tasks
  <2>2. session \in [Recorders -> Nat] /\ held \in [Recorders -> Nat]
    BY <1>0, <1>2 DEF NoLogin
  <2>3. up \subseteq Recorders \X Nat
    BY <1>0
  <2> QED
    BY <1>2, <2>1, <2>2, <2>3 DEF RecordersTypeOK
<1>4. ASSUME NEW r \in Recorders PROVE InOrder(r)
  BY <1>0, <1>2 DEF LoginsInOrder, FirstTask, NoLogin, Taking, WayInOrder, FirstState,
     InOrder
<1> QED
  BY <1>3, <1>4 DEF RecordersInv

(* What a step leaves alone stays in order.                                *)
LEMMA Untouched ==
  ASSUME RecordersInv, NEW r \in Recorders,
         state'[r] = state[r], session'[r] = session[r], logins'[r] = logins[r],
         task'[r] = task[r], held'[r] = held[r],
         r \in owed' <=> r \in owed, closed' = closed,
         \A n \in Nat : <<r, n>> \in up' <=> <<r, n>> \in up,
         \A n \in Nat : <<r, n>> \in ending' <=> <<r, n>> \in ending
  PROVE  InOrder(r)'
  BY DEF RecordersInv, InOrder, LoginsInOrder, WayInOrder
(* Every step keeps the types.                                             *)
LEMMA StepTypes ==
  ASSUME RecordersTypeOK, [RecordersNext]_recordersVars
  PROVE  RecordersTypeOK'
<1>1. ASSUME NEW r \in Recorders, TokenReset(r) PROVE RecordersTypeOK'
  BY <1>1 DEF TokenReset, RecordersTypeOK
<1>2. ASSUME NEW r \in Recorders, TokenRefused(r) PROVE RecordersTypeOK'
  BY <1>2 DEF TokenRefused, RecordersTypeOK, States
<1>3. ASSUME NEW r \in Recorders, TakenOffline(r) PROVE RecordersTypeOK'
  BY <1>3 DEF TakenOffline, TakeOffline, RecordersTypeOK, States
<1>4. ASSUME NEW r \in Recorders, ReloginCalled(r) PROVE RecordersTypeOK'
  BY <1>4 DEF ReloginCalled, Relogin, RecordersTypeOK, Tasks
<1>5. ASSUME NEW r \in Recorders, LogBackIn(r) PROVE RecordersTypeOK'
  BY <1>5 DEF LogBackIn, RecordersTypeOK, Tasks, NoLogin
<1>6. ASSUME NEW r \in Recorders, LogOut(r) PROVE RecordersTypeOK'
  BY <1>6 DEF LogOut, AfterLogOut, RecordersTypeOK, Tasks, NoLogin
<1>7. ASSUME NEW r \in Recorders, LogOutTimesOut(r) PROVE RecordersTypeOK'
  BY <1>7 DEF LogOutTimesOut, AfterLogOut, RecordersTypeOK, Tasks, NoLogin
<1>8. ASSUME NEW l \in ending, LogOutEnds(l) PROVE RecordersTypeOK'
  BY <1>8 DEF LogOutEnds, RecordersTypeOK
<1>9. ASSUME NEW r \in Recorders, Attempt(r) PROVE RecordersTypeOK'
  BY <1>9 DEF Attempt, RecordersTypeOK, Tasks
<1>10. ASSUME NEW r \in Recorders, Open(r) PROVE RecordersTypeOK'
  BY <1>10 DEF Open, RecordersTypeOK, Tasks
<1>11. ASSUME NEW r \in Recorders, OpenFails(r) PROVE RecordersTypeOK'
  BY <1>11 DEF OpenFails, RecordersTypeOK, Tasks
<1>12. ASSUME NEW r \in Recorders, OpenRefused(r) PROVE RecordersTypeOK'
  BY <1>12 DEF OpenRefused, RecordersTypeOK, Tasks, States
<1>13. ASSUME NEW r \in Recorders, LoggedIn(r) PROVE RecordersTypeOK'
  BY <1>13 DEF LoggedIn, RecordersTypeOK, Tasks, States, NoLogin
<1>14. ASSUME Close PROVE RecordersTypeOK'
  BY <1>14 DEF Close, RecordersTypeOK, NoLogin
<1>15. ASSUME Reconnected PROVE RecordersTypeOK'
  <2>1. PICK known \in SUBSET valid : \E firstUp \in SUBSET known :
          /\ state' = FirstState(firstUp, known)
          /\ session' = [r \in Recorders |-> IF r \in firstUp THEN logins[r] + 1
                                             ELSE NoLogin]
          /\ logins' = [r \in Recorders |-> IF r \in firstUp THEN logins[r] + 1
                                            ELSE logins[r]]
          /\ up' = {<<r, logins[r] + 1>> : r \in firstUp}
          /\ task' = FirstTask(firstUp, known)
    BY <1>15 DEF Reconnected
  <2>2. PICK firstUp \in SUBSET known :
          /\ state' = FirstState(firstUp, known)
          /\ session' = [r \in Recorders |-> IF r \in firstUp THEN logins[r] + 1
                                             ELSE NoLogin]
          /\ logins' = [r \in Recorders |-> IF r \in firstUp THEN logins[r] + 1
                                            ELSE logins[r]]
          /\ up' = {<<r, logins[r] + 1>> : r \in firstUp}
          /\ task' = FirstTask(firstUp, known)
    BY <2>1
  <2>3. /\ valid' = valid /\ ending' = {} /\ owed' = {} /\ closed' = FALSE
        /\ held' = [r \in Recorders |-> NoLogin]
    BY <1>15 DEF Reconnected
  <2>4. state' \in [Recorders -> States] /\ task' \in [Recorders -> Tasks]
    BY <2>2 DEF FirstState, FirstTask, States, Tasks
  <2>5. /\ session' \in [Recorders -> Nat] /\ logins' \in [Recorders -> Nat]
        /\ held' \in [Recorders -> Nat]
    BY <2>2, <2>3 DEF NoLogin, RecordersTypeOK
  <2>6. up' \subseteq Recorders \X Nat
    BY <2>2 DEF RecordersTypeOK
  <2> QED
    BY <2>3, <2>4, <2>5, <2>6 DEF RecordersTypeOK
<1>16. CASE UNCHANGED recordersVars
  BY <1>16 DEF recordersVars, RecordersTypeOK
<1> QED
  BY <1>1, <1>2, <1>3, <1>4, <1>5, <1>6, <1>7, <1>8, <1>9, <1>10, <1>11, <1>12,
     <1>13, <1>14, <1>15, <1>16 DEF RecordersNext, LoginStep

----------------------------------------------------------------------------
(* One recorder's step: it stays in order, and the others are untouched.   *)
LEMMA OneRecorder ==
  ASSUME RecordersInv, NEW r \in Recorders,
         TokenReset(r) \/ TokenRefused(r) \/ TakenOffline(r) \/ ReloginCalled(r)
           \/ LoginStep(r)
  PROVE  \A q \in Recorders \ {r} : InOrder(q)'
<1> SUFFICES ASSUME NEW q \in Recorders, q # r PROVE InOrder(q)'
  OBVIOUS
<1> USE DEF RecordersInv, RecordersTypeOK
<1>1. CASE TokenReset(r)
  BY <1>1, Untouched DEF TokenReset
<1>2. CASE TokenRefused(r)
  BY <1>2, Untouched DEF TokenRefused
<1>3. CASE TakenOffline(r)
  BY <1>3, Untouched DEF TakenOffline, TakeOffline
<1>4. CASE ReloginCalled(r)
  BY <1>4, Untouched DEF ReloginCalled, Relogin
<1>5. CASE LogBackIn(r)
  BY <1>5, Untouched DEF LogBackIn
<1>6. CASE LogOut(r)
  BY <1>6, Untouched DEF LogOut, AfterLogOut
<1>7. CASE LogOutTimesOut(r)
  BY <1>7, Untouched DEF LogOutTimesOut, AfterLogOut
<1>8. CASE Attempt(r)
  BY <1>8, Untouched DEF Attempt
<1>9. CASE Open(r)
  BY <1>9, Untouched DEF Open
<1>10. CASE OpenFails(r)
  BY <1>10, Untouched DEF OpenFails
<1>11. CASE OpenRefused(r)
  BY <1>11, Untouched DEF OpenRefused
<1>12. CASE LoggedIn(r)
  BY <1>12, Untouched DEF LoggedIn
<1> QED
  BY <1>1, <1>2, <1>3, <1>4, <1>5, <1>6, <1>7, <1>8, <1>9, <1>10, <1>11, <1>12 DEF LoginStep

LEMMA ThatRecorder ==
  ASSUME RecordersInv, NEW r \in Recorders,
         TokenReset(r) \/ TokenRefused(r) \/ TakenOffline(r) \/ ReloginCalled(r)
           \/ LoginStep(r)
  PROVE  InOrder(r)'
<1>0. /\ LoginsInOrder(r) /\ WayInOrder(r)
      /\ session[r] \in Nat /\ logins[r] \in Nat /\ held[r] \in Nat
      /\ state[r] \in States /\ task[r] \in Tasks
  BY DEF RecordersInv, InOrder, RecordersTypeOK
<1> USE DEF RecordersInv, RecordersTypeOK
<1>1. CASE TokenReset(r)
  BY <1>0, <1>1 DEF TokenReset, LoginsInOrder, Taking, NoLogin, WayInOrder, InOrder
<1>2. CASE TokenRefused(r)
  BY <1>0, <1>2 DEF TokenRefused, LoginsInOrder, Taking, NoLogin, WayInOrder, InOrder
<1>3. CASE TakenOffline(r)
  BY <1>0, <1>3 DEF TakenOffline, TakeOffline, LoginsInOrder, Taking, NoLogin, WayInOrder,
     InOrder
<1>4. CASE ReloginCalled(r)
  BY <1>0, <1>4 DEF ReloginCalled, Relogin, WayInOrder, LoginsInOrder, Taking, NoLogin,
     InOrder
<1>5. CASE LogBackIn(r)
  BY <1>0, <1>5 DEF LogBackIn, LoginsInOrder, Taking, NoLogin, WayInOrder, InOrder
<1>6. CASE LogOut(r)
  BY <1>0, <1>6 DEF LogOut, AfterLogOut, LoginsInOrder, Taking, NoLogin, WayInOrder,
     InOrder
<1>7. CASE LogOutTimesOut(r)
  BY <1>0, <1>7 DEF LogOutTimesOut, AfterLogOut, LoginsInOrder, Taking, NoLogin,
     WayInOrder, InOrder
<1>8. CASE Attempt(r)
  BY <1>0, <1>8 DEF Attempt, LoginsInOrder, Taking, NoLogin, WayInOrder, InOrder
<1>9. CASE Open(r)
  BY <1>0, <1>9 DEF Open, LoginsInOrder, Taking, NoLogin, WayInOrder, InOrder
<1>10. CASE OpenFails(r)
  BY <1>0, <1>10 DEF OpenFails, LoginsInOrder, Taking, NoLogin, WayInOrder, InOrder
<1>11. CASE OpenRefused(r)
  BY <1>0, <1>11 DEF OpenRefused, LoginsInOrder, Taking, NoLogin, WayInOrder, InOrder
<1>12. CASE LoggedIn(r)
  BY <1>0, <1>12 DEF LoggedIn, LoginsInOrder, Taking, NoLogin, WayInOrder, InOrder
<1> QED
  BY <1>1, <1>2, <1>3, <1>4, <1>5, <1>6, <1>7, <1>8, <1>9, <1>10, <1>11, <1>12 DEF LoginStep

LEMMA LogOutEndsInv ==
  ASSUME RecordersInv, NEW l \in ending, LogOutEnds(l), NEW r \in Recorders
  PROVE  InOrder(r)'
  BY DEF RecordersInv, InOrder, RecordersTypeOK, LogOutEnds, LoginsInOrder, WayInOrder

LEMMA CloseInv ==
  ASSUME RecordersInv, Close, NEW r \in Recorders
  PROVE  InOrder(r)'
<1>1. /\ LoginsInOrder(r) /\ WayInOrder(r)
      /\ session[r] \in Nat /\ logins[r] \in Nat /\ held[r] \in Nat
  BY DEF RecordersInv, InOrder, RecordersTypeOK
<1>2. \A n \in Nat : <<r, n>> \in ending'
                     <=> <<r, n>> \in ending \/ (session[r] # NoLogin /\ n = session[r])
  BY DEF Close
<1>3. session'[r] = NoLogin
  BY DEF Close
<1>4. LoginsInOrder(r)'
  BY <1>1, <1>2, <1>3 DEF Close, LoginsInOrder, Taking, NoLogin
<1>5. WayInOrder(r)'
  BY <1>1, <1>3 DEF Close, WayInOrder
<1> QED
  BY <1>4, <1>5 DEF InOrder

LEMMA ReconnectedInv ==
  ASSUME RecordersInv, Reconnected, NEW r \in Recorders
  PROVE  InOrder(r)'
<1>1. PICK known \in SUBSET valid : \E firstUp \in SUBSET known :
        /\ state' = FirstState(firstUp, known)
        /\ session' = [q \in Recorders |-> IF q \in firstUp THEN logins[q] + 1
                                           ELSE NoLogin]
        /\ logins' = [q \in Recorders |-> IF q \in firstUp THEN logins[q] + 1
                                          ELSE logins[q]]
        /\ up' = {<<q, logins[q] + 1>> : q \in firstUp}
        /\ task' = FirstTask(firstUp, known)
  BY DEF Reconnected
<1>2. PICK firstUp \in SUBSET known :
        /\ state' = FirstState(firstUp, known)
        /\ session' = [q \in Recorders |-> IF q \in firstUp THEN logins[q] + 1
                                           ELSE NoLogin]
        /\ logins' = [q \in Recorders |-> IF q \in firstUp THEN logins[q] + 1
                                          ELSE logins[q]]
        /\ up' = {<<q, logins[q] + 1>> : q \in firstUp}
        /\ task' = FirstTask(firstUp, known)
  BY <1>1
<1>3. /\ ending' = {} /\ owed' = {} /\ closed' = FALSE
      /\ held' = [q \in Recorders |-> NoLogin] /\ logins[r] \in Nat
  BY DEF Reconnected, RecordersInv, RecordersTypeOK
<1>4. \A n \in Nat : <<r, n>> \in up' <=> r \in firstUp /\ n = logins[r] + 1
  BY <1>2 DEF RecordersInv, RecordersTypeOK
<1>5. LoginsInOrder(r)'
  BY <1>2, <1>3, <1>4 DEF LoginsInOrder, FirstTask, NoLogin, Taking
<1>6. WayInOrder(r)'
  BY <1>2, <1>3 DEF WayInOrder, FirstState, FirstTask, NoLogin
<1> QED
  BY <1>5, <1>6 DEF InOrder

(* Every step keeps every recorder in order.                               *)
LEMMA StepInv ==
  ASSUME RecordersInv, [RecordersNext]_recordersVars
  PROVE  RecordersInv'
<1>1. RecordersTypeOK'
  BY StepTypes DEF RecordersInv
<1>2. ASSUME NEW r \in Recorders,
             TokenReset(r) \/ TokenRefused(r) \/ TakenOffline(r) \/ ReloginCalled(r)
               \/ LoginStep(r)
      PROVE  \A q \in Recorders : InOrder(q)'
  BY <1>2, OneRecorder, ThatRecorder
<1>3. ASSUME NEW l \in ending, LogOutEnds(l)
      PROVE  \A q \in Recorders : InOrder(q)'
  BY <1>3, LogOutEndsInv
<1>4. CASE Close
  BY <1>1, <1>4, CloseInv DEF RecordersInv
<1>5. CASE Reconnected
  BY <1>1, <1>5, ReconnectedInv DEF RecordersInv
<1>6. CASE UNCHANGED recordersVars
  BY <1>1, <1>6, Untouched DEF recordersVars, RecordersInv
<1>7. CASE \E r \in Recorders : TokenReset(r) \/ TokenRefused(r) \/ TakenOffline(r)
                                 \/ ReloginCalled(r) \/ LoginStep(r)
  BY <1>1, <1>2, <1>7 DEF RecordersInv
<1>8. CASE \E l \in ending : LogOutEnds(l)
  BY <1>1, <1>3, <1>8 DEF RecordersInv
<1> QED
  BY <1>4, <1>5, <1>6, <1>7, <1>8 DEF RecordersNext

(* The invariant of the recorder accounts.                                 *)
THEOREM AccountsInOrder == RecordersSpec => []RecordersInv
<1>1. RecordersInv /\ [RecordersNext]_recordersVars => RecordersInv'
  BY StepInv
<1> QED
  BY <1>1, InitInv, PTL DEF RecordersSpec

(* An offline recorder always has exactly one way back, the relogin its    *)
(* taker still owes it or one login goroutine (TakeOffline, logBackIn).    *)
THEOREM OneWayBack == RecordersSpec => []WayBack
<1>1. RecordersInv => WayBack
  BY InvProperties
<1> QED
  BY <1>1, AccountsInOrder, PTL

(* No login is forgotten and none that is being logged out is used again   *)
(* (logBackIn, logOut, loggedInLocked, Close).                             *)
THEOREM NoLoginForgotten == RecordersSpec => []LoginsHeld
<1>1. RecordersInv => LoginsHeld
  BY InvProperties
<1> QED
  BY <1>1, AccountsInOrder, PTL

(* A recorder that is out stays out until a restart (goOutLocked).         *)
THEOREM OutStaysOut == RecordersSpec => OutForGood
<1>1. ASSUME RecordersInv, [RecordersNext]_recordersVars, NEW r \in Recorders,
             state[r] = "out"
      PROVE  state'[r] = "out" \/ Reconnected
  <2> USE DEF RecordersInv, RecordersTypeOK
  <2>1. CASE \E q \in Recorders : TokenReset(q) \/ TokenRefused(q) \/ TakenOffline(q)
                                   \/ ReloginCalled(q) \/ LoginStep(q)
    BY <1>1, <2>1 DEF TokenReset, TokenRefused, TakenOffline, TakeOffline,
         ReloginCalled, LoginStep, LogBackIn, LogOut, LogOutTimesOut, Attempt, Open,
         OpenFails, OpenRefused, LoggedIn
  <2>2. CASE \E l \in ending : LogOutEnds(l)
    BY <1>1, <2>2 DEF LogOutEnds
  <2>3. CASE Close
    BY <1>1, <2>3 DEF Close
  <2>4. CASE UNCHANGED recordersVars
    BY <1>1, <2>4 DEF recordersVars
  <2> QED
    BY <1>1, <2>1, <2>2, <2>3, <2>4 DEF RecordersNext
<1>2. RecordersInv /\ [RecordersNext]_recordersVars
      => [\A r \in Recorders : state[r] = "out" => state'[r] = "out" \/ Reconnected
         ]_recordersVars
  BY <1>1
<1> QED
  BY <1>2, AccountsInOrder, PTL DEF RecordersSpec, OutForGood

----------------------------------------------------------------------------
(* The recording runtime                                                   *)


(* The accounts' own steps, and those of the runtime that touch them.      *)
LEMMA AccountsSteps ==
  ASSUME Accounts
  PROVE  RecordersNext
BY DEF Accounts, RecordersNext, LoginStep

LEMMA GivenUp ==
  ASSUME NEW r, TakeOffline(r),
         UNCHANGED <<valid, session, logins, up, ending, task, held, closed>>
  PROVE  [RecordersNext]_recordersVars
  BY DEF TakenOffline, RecordersNext, TakeOffline, recordersVars

LEMMA Called ==
  ASSUME RecordersInv, NEW r, Relogin(r),
         UNCHANGED <<valid, state, session, logins, up, ending, held, closed>>
  PROVE  [RecordersNext]_recordersVars
  BY DEF RecordersInv, RecordersTypeOK, ReloginCalled, RecordersNext, Relogin,
     recordersVars

(* A section of a goroutine.                                               *)
LEMMA SectionSteps ==
  ASSUME RecordersInv, NEW g \in Goroutines, Section(g)
  PROVE  [RecordersNext]_recordersVars
<1>1. CASE ReleaseLate(g)
  BY <1>1, GivenUp DEF ReleaseLate
<1>2. CASE CallRelogin(g)
  BY <1>2, Called DEF CallRelogin
<1>3. CASE GapLimit(g)
  BY <1>3, GivenUp DEF GapLimit, recordersVars
<1>4. CASE Join(g) \/ Joined(g) \/ Notice(g) \/ Row(g) \/ Receive(g) \/ Enter(g)
  BY Zenon, <1>4 DEF Join, Joined, Notice, Row, Receive, Enter
<1>5. CASE Check(g) \/ Judge(g) \/ Capture(g) \/ Leave(g)
  BY Zenon, <1>5 DEF Check, Judge, Capture, Leave
<1>6. CASE CloseRow(g) \/ Release(g) \/ EditNotice(g)
  BY <1>6 DEF CloseRow, Release, EditNotice
<1> QED
  BY <1>1, <1>2, <1>3, <1>4, <1>5, <1>6 DEF Section

(* Every step of the runtime is a step of the accounts, or none.           *)
LEMMA RuntimeSteps ==
  ASSUME RecordersInv, [Next]_vars
  PROVE  [RecordersNext]_recordersVars
<1>1. CASE Accounts
  BY <1>1, AccountsSteps
<1>2. CASE \E g \in Goroutines : Section(g)
  BY <1>2, SectionSteps
<1>3. CASE RecoveryStep
  BY <1>3 DEF RecoveryStep, Look, LookAtRecorder, KickIdle, List, Recover
<1>4. CASE Shutdown
  BY <1>4 DEF Shutdown
<1>5. CASE Restart
  BY <1>5 DEF Restart, RecordersNext
<1>6. CASE \E c \in Channels : People(c)
  BY <1>6 DEF People
<1>7. CASE \E r \in Recorders : Kick(r) \/ DropOut(r) \/ CacheSees(r)
  BY <1>7 DEF Kick, DropOut, CacheSees
<1>8. CASE \E s \in Recs : \/ OwnLeave(s) \/ OwnRejoin(s) \/ GraceEnds(s)
                           \/ GapStarted(s) \/ GapEnded(s) \/ LateLeave(s)
  BY <1>8 DEF OwnLeave, OwnRejoin, GraceEnds, GapStarted, GapEnded, LateLeave
<1>9. CASE \E w \in Workers : \/ \E c \in Channels : Start(w, c)
                              \/ CheckEvent(w)
                              \/ \E s \in Recs : Stop(w, s)
                              \/ \E a \in armed : LimitFires(w, a)
  BY <1>9 DEF Start, CheckEvent, Stop, LimitFires
<1>10. CASE UNCHANGED vars
  BY <1>10 DEF vars, recordersVars
<1> QED
  BY <1>1, <1>2, <1>3, <1>4, <1>5, <1>6, <1>7, <1>8, <1>9, <1>10 DEF Next

-----------------------------------------------------------------------------
(* Helpers of the model: the least of a set of numbers, a set in some      *)
(* order, and the work of several stops one after the other.               *)
LEMMA LeastOf ==
  ASSUME NEW T \in SUBSET Nat, T # {}
  PROVE  Min(T) \in T
<1> DEFINE R == {ss \in Nat \X Nat : ss[1] < ss[2]}
<1>1. IsWellFoundedOn(R, Nat)
  BY NatLessThanWellFounded, Zenon DEF OpToRel
<1>2. PICK x \in T : \A y \in T : ~ (<<y, x>> \in R)
  BY <1>1, WFMin
<1>3. \A y \in T : <<y, x>> \in R <=> y < x
  OBVIOUS
<1> HIDE DEF R
<1>4. \A y \in T : y \in Nat /\ ~(y < x)
  BY <1>2, <1>3
<1>5. \A y \in T : x <= y
  BY <1>4
<1> QED
  BY <1>5 DEF Min

(* An order of a finite set has each member once.                          *)
LEMMA EachOnce ==
  ASSUME NEW S, IsFiniteSet(S), NEW q \in SetToSeqs(S)
  PROVE  /\ q \in Seq(S) /\ DOMAIN q = 1 .. Len(q)
         /\ \A i, j \in 1 .. Len(q) : q[i] = q[j] => i = j
         /\ \A x \in S : \E i \in 1 .. Len(q) : q[i] = x
<1> DEFINE n == Cardinality(S)
<1>1. n \in Nat
  BY FS_CardinalityType
<1>2. q \in [1 .. n -> S] /\ \A i, j \in 1 .. n : i # j => q[i] # q[j]
  BY DEF SetToSeqs
<1>3. IsFiniteSet(1 .. n) /\ Cardinality(1 .. n) = n
  BY <1>1, FS_Interval
<1> HIDE DEF n
<1>4. q \in Seq(S) /\ DOMAIN q = 1 .. Len(q) /\ Len(q) = n
  BY <1>1, <1>2
<1>5. ASSUME NEW x \in S, \A i \in 1 .. n : q[i] # x
      PROVE  FALSE
  <2>1. q \in [1 .. n -> S \ {x}]
    BY <1>2, <1>5
  <2>2. IsFiniteSet(S \ {x}) /\ Cardinality(S \ {x}) = n - 1
    BY FS_RemoveElement DEF n
  <2>3. Cardinality(S \ {x}) < Cardinality(1 .. n)
    BY <1>1, <1>3, <2>2
  <2>4. \E i, j \in 1 .. n : i # j /\ q[i] = q[j]
    BY <1>3, <2>1, <2>2, <2>3, FS_PigeonHole
  <2> QED
    BY <1>2, <2>4
<1> QED
  BY <1>2, <1>4, <1>5

(* A least witness, the way to an induction over positions.                *)
LEMMA FirstOf ==
  ASSUME NEW T \in SUBSET Nat, T # {}
  PROVE  \E x \in T : \A y \in T : x <= y
<1> DEFINE R == {ss \in Nat \X Nat : ss[1] < ss[2]}
<1>1. IsWellFoundedOn(R, Nat)
  BY NatLessThanWellFounded, Zenon DEF OpToRel
<1>2. PICK x \in T : \A y \in T : ~ (<<y, x>> \in R)
  BY <1>1, WFMin
<1>3. \A y \in T : <<y, x>> \in R <=> y < x
  OBVIOUS
<1> HIDE DEF R
<1>4. \A y \in T : y \in Nat /\ ~(y < x)
  BY <1>2, <1>3
<1> QED
  BY <1>4

LEMMA FourthOf ==
  ASSUME NEW i \in Nat, i > 0, NEW k \in 1 .. 4, NEW j \in Nat, j = 4 * i - 4 + k
  PROVE  (j + 3) \div 4 = i /\ ((j - 1) % 4) + 1 = k
<1>1. CASE k = 1
  BY <1>1
<1>2. CASE k = 2
  BY <1>2
<1>3. CASE k = 3
  BY <1>3
<1>4. CASE k = 4
  BY <1>4
<1> QED
  BY <1>1, <1>2, <1>3, <1>4
LEMMA AsSequence ==
  ASSUME NEW n \in Nat, NEW f \in [1 .. n -> Item]
  PROVE  f \in Seq(Item) /\ Len(f) = n
OBVIOUS

(* FlattenSeq over the ends of several recordings: four items for each.    *)

LEMMA EndsInARow ==
  ASSUME NEW q \in Seq(Nat)
  PROVE  LET e == FlattenSeq([i \in DOMAIN q |-> Finish(q[i])])
         IN /\ e \in Seq(Item) /\ Len(e) = 4 * Len(q)
            /\ \A j \in 1 .. Len(e) :
                 (j + 3) \div 4 \in 1 .. Len(q)
                 /\ e[j] = Finish(q[(j + 3) \div 4])[((j - 1) % 4) + 1]
<1> DEFINE s == [i \in DOMAIN q |-> Finish(q[i])]
           n == Len(q)
           fl[i \in 1 .. Len(s)] == IF i = 1 THEN s[i] ELSE fl[i - 1] \o s[i]
           G == [i \in 1 .. n |->
                  [j \in 1 .. 4 * i |-> Finish(q[(j + 3) \div 4])[((j - 1) % 4) + 1]]]
<1>1. n \in Nat /\ DOMAIN q = 1 .. n /\ Len(s) = n /\ DOMAIN s = 1 .. n
  OBVIOUS
<1>2. \A i \in 1 .. n : q[i] \in Nat /\ s[i] = Finish(q[i])
  BY <1>1
<1> HIDE DEF n
<1>3. \A m \in Nat : /\ Finish(m) \in Seq(Item) /\ Len(Finish(m)) = 4
                     /\ DOMAIN Finish(m) = 1 .. 4
  BY DEF Finish, Do, Item, Starts, Stops, Cuts, Recovers
<1>4. \A i \in 1 .. n : \A j \in 1 .. 4 * i :
        (j + 3) \div 4 \in 1 .. i /\ ((j - 1) % 4) + 1 \in 1 .. 4
  BY <1>1
<1>5. \A i \in 1 .. n : G[i] \in Seq(Item) /\ Len(G[i]) = 4 * i
  <2> TAKE i \in 1 .. n
  <2>1. \A j \in 1 .. 4 * i : Finish(q[(j + 3) \div 4])[((j - 1) % 4) + 1] \in Item
    BY SMTT(30), <1>1, <1>2, <1>3, <1>4
  <2>2. 4 * i \in Nat
    BY <1>1
  <2>3. G[i] \in [1 .. 4 * i -> Item]
    BY <2>1
  <2> HIDE DEF G
  <2>4. PICK m \in Nat : m = 4 * i
    BY <2>2
  <2>5. G[i] \in [1 .. m -> Item]
    BY <2>3, <2>4
  <2>6. G[i] \in Seq(Item) /\ Len(G[i]) = m
    BY <2>5, AsSequence
  <2> QED
    BY <2>4, <2>6
<1>6. G = [i \in 1 .. Len(s) |-> IF i = 1 THEN s[i] ELSE G[i - 1] \o s[i]]
  <2>1. ASSUME NEW i \in 1 .. n, i = 1
        PROVE  G[i] = s[i]
    <3>0. G[i] \in Seq(Item) /\ Len(G[i]) = 4 * i
      BY <1>5
    <3>1. G[i] \in Seq(Item) /\ s[i] \in Seq(Item) /\ Len(G[i]) = 4 /\ Len(s[i]) = 4
      <4> HIDE DEF G, s
      <4> QED
        <5>1. q[i] \in Nat /\ s[i] = Finish(q[i])
          BY <1>2
        <5>2. Len(G[i]) = 4
          BY <2>1, <3>0
        <5>3. s[i] \in Seq(Item) /\ Len(s[i]) = 4
          BY <1>3, <5>1
        <5> QED
          BY <3>0, <5>2, <5>3
    <3>2. \A j \in 1 .. 4 : (j + 3) \div 4 = 1 /\ ((j - 1) % 4) + 1 = j
      OBVIOUS
    <3>3. \A j \in 1 .. 4 : G[i][j] = s[i][j]
      BY <1>2, <2>1, <3>2
    <3> HIDE DEF G, s
    <3> QED
      BY <3>1, <3>3, SeqEqual
  <2>2. ASSUME NEW i \in 1 .. n, i # 1
        PROVE  G[i] = G[i - 1] \o s[i]
    <3>0. i \in Nat
      BY <1>1
    <3>1. i - 1 \in 1 .. n
      BY <1>1, <2>2
    <3> DEFINE h == G[i - 1]
    <3>2. /\ G[i] \in Seq(Item) /\ h \in Seq(Item) /\ s[i] \in Seq(Item)
          /\ Len(G[i]) = 4 * i /\ Len(h) = 4 * i - 4 /\ Len(s[i]) = 4
      BY <1>2, <1>3, <1>5, <3>0, <3>1
    <3>3. /\ G[i] = [k \in 1 .. 4 * i |-> Finish(q[(k + 3) \div 4])[((k - 1) % 4) + 1]]
          /\ h = [k \in 1 .. 4 * (i - 1) |->
                           Finish(q[(k + 3) \div 4])[((k - 1) % 4) + 1]]
      BY <3>1
    <3>4. s[i] = Finish(q[i])
      BY <1>2
    <3> HIDE DEF G, s, h
    <3> DEFINE c == h \o s[i]
    <3>5. c \in Seq(Item) /\ Len(c) = 4 * i
      <4>1. c \in Seq(Item) /\ Len(c) = Len(h) + Len(s[i])
        BY <3>2, ConcatProperties
      <4> QED
        BY <3>0, <3>2, <4>1
    <3>9. \A j \in 1 .. 4 * i : c[j] = IF j <= Len(h) THEN h[j] ELSE s[i][j - Len(h)]
      <4>1. Len(h) + Len(s[i]) = 4 * i
        BY <3>0, <3>2
      <4>2. PICK a \in Seq(Item), b \in Seq(Item) : a = h /\ b = s[i]
        BY <3>2
      <4>3. \A j \in 1 .. Len(a) + Len(b) :
               (a \o b)[j] = IF j <= Len(a) THEN a[j] ELSE b[j - Len(a)]
        BY ConcatProperties
      <4> QED
        BY <4>1, <4>2, <4>3
    <3> HIDE DEF c
    <3>6. ASSUME NEW j \in 1 .. 4 * i
          PROVE  G[i][j] = c[j]
      <4>1. CASE j <= 4 * i - 4
        <5>1. j \in 1 .. 4 * (i - 1) /\ j <= Len(h)
          BY <3>0, <3>2, <4>1
        <5>2. c[j] = h[j]
          BY <3>9, <5>1
        <5> QED
          BY <3>0, <3>3, <5>1, <5>2
      <4>2. CASE j > 4 * i - 4
        <5> DEFINE k == j - (4 * i - 4)
        <5>1. k \in 1 .. 4 /\ k = j - Len(h) /\ ~(j <= Len(h))
          BY <3>0, <3>2, <4>2
        <5>2. (j + 3) \div 4 = i /\ ((j - 1) % 4) + 1 = k
          BY SMTT(30), <3>0, <5>1, FourthOf
        <5> HIDE DEF k
        <5>3. c[j] = s[i][k]
          BY <3>9, <5>1
        <5> QED
          BY ZenonT(60), <3>3, <3>4, <5>1, <5>2, <5>3
      <4> QED
        BY <3>0, <4>1, <4>2
    <3>7. G[i] = c
      BY <3>2, <3>5, <3>6, SeqEqual
    <3> QED
      BY <3>7 DEF c, h
  <2>3. DOMAIN G = 1 .. Len(s)
    BY <1>1
  <2>4. G = [i \in 1 .. Len(s) |-> G[i]]
    BY Zenon, <2>3
  <2> HIDE DEF G, s
  <2> QED
    BY <1>1, <2>1, <2>2, <2>4
<1>7. fl = [i \in 1 .. Len(s) |-> IF i = 1 THEN s[i] ELSE fl[i - 1] \o s[i]]
  BY ZenonT(60), <1>6 DEF fl
<1>8. \A i \in 1 .. n : fl[i] = IF i = 1 THEN s[i] ELSE fl[i - 1] \o s[i]
  BY Zenon, <1>1, <1>7
<1>9. \A i \in 1 .. n : G[i] = IF i = 1 THEN s[i] ELSE G[i - 1] \o s[i]
  BY <1>1, <1>6
<1>10. \A i \in 1 .. n : fl[i] = G[i]
  <2> DEFINE Differ == {i \in 1 .. n : fl[i] # G[i]}
  <2> HIDE DEF fl, G, s
  <2> SUFFICES ASSUME Differ # {} PROVE FALSE
    OBVIOUS
  <2>1. Differ \in SUBSET Nat
    BY <1>1
  <2>2. PICK i \in Differ : \A k \in Differ : i <= k
    BY <2>1, FirstOf
  <2>3. i \in 1 .. n /\ fl[i] # G[i] /\ i - 1 \notin Differ
    BY <1>1, <2>2
  <2>4. i # 1 => fl[i - 1] = G[i - 1]
    BY <1>1, <2>3
  <2> QED
    BY <1>8, <1>9, <2>3, <2>4
<1>11. FlattenSeq(s) = IF n = 0 THEN s ELSE fl[n]
  BY <1>1 DEF FlattenSeq
<1>12. CASE n = 0
  <2>1. s \in Seq(Item) /\ Len(s) = 0
    BY <1>1, <1>12
  <2>2. FlattenSeq(s) = s
    BY <1>11, <1>12
  <2> HIDE DEF fl, G, s
  <2>3. /\ FlattenSeq(s) \in Seq(Item) /\ Len(FlattenSeq(s)) = 4 * n
        /\ \A j \in 1 .. 4 * n : FALSE
    BY <1>12, <2>1, <2>2
  <2> QED
    BY <2>3 DEF n, s
<1>13. CASE n # 0
  <2>1. n \in 1 .. n
    BY <1>1, <1>13
  <2>2. FlattenSeq(s) = G[n]
    BY <1>10, <1>11, <1>13, <2>1
  <2>3. G[n] \in Seq(Item) /\ Len(G[n]) = 4 * n
    BY <1>5, <2>1
  <2>4. \A j \in 1 .. 4 * n : (j + 3) \div 4 \in 1 .. n
    BY <1>4, <2>1
  <2>5. \A j \in 1 .. 4 * n : G[n][j] = Finish(q[(j + 3) \div 4])[((j - 1) % 4) + 1]
    BY <2>1
  <2> HIDE DEF fl, G, s
  <2> QED
    BY <2>2, <2>3, <2>4, <2>5 DEF n, s
<1> QED
  BY <1>12, <1>13
Opening == {"join", "joined", "notice", "row", "receive", "enter"}
Closing == {"release", "releaseLate"}
Holding == {"join", "joined", "notice", "row", "enter"} \cup Closing

(* The recording runs and no stop or shutdown has ended it.                *)
Unended(s) == rec[s].entered /\ rec[s].ended = "no"

(* What an item that waits says of its recording.                          *)
ItemTells(x) ==
  LET s == x.s
  IN /\ x.op \notin {"check", "judge", "look", "list", "idle", "kick"} => s \in Recs
     /\ x.op \in {"idle", "kick"} => s \in Recorders
     /\ x.op \in Opening =>
          Runs(s) /\ ~rec[s].entered /\ row[s] = IF x.op \in {"receive", "enter"}
                                                 THEN "open" ELSE "none"
     /\ x.op \in Opening =>
          conn[s] = IF x.op = "join" THEN "none"
                    ELSE IF x.op = "joined" THEN "joining" ELSE "open"
     /\ x.op \in Closing => Runs(s) /\ ~Unended(s)
     /\ x.op = "leave" => rec[s].recorder \in Recorders /\ ~Unended(s)
     /\ x.op \in {"capture", "closeRow"} => rec[s].ended \in Ends
     /\ x.op = "closeRow" => row[s] = "open"
     /\ x.op = "relogin" => rec[s].recorder \in owed
     /\ x.op = "recover" => s \in old /\ row[s] = "open"

(* Where an item stands in the queue q of goroutine g.                     *)
PlaceTells(g, i) ==
  LET q == run[g]
      x == q[i]
  IN /\ x.op \in {"join", "joined", "notice", "row", "judge", "gapLimit", "look"}
        => Len(q) = 1
     /\ x.op = "receive" => i = 1 /\ Len(q) = 3 /\ q[2] = Do("enter", x.s)
     /\ x.op = "enter" => Len(q) = i + 1 /\ q[i + 1].op = "check"
     /\ x.op = "check" => Len(q) = i
     /\ x.op = "list" => Len(q) = i /\ \A j \in 1 .. i - 1 : q[j].op \in {"idle", "kick"}
     /\ x.op \in Recovers => g = Recovery

(* A recording's leave comes before its release, and after it in the queue *)
(* when the recorder is not free yet.                                      *)
LeaveTells(g, i) ==
  LET q == run[g]
      x == q[i]
  IN /\ x.op = "release" => \/ conn[x.s] = "none"
                            \/ \E j \in 1 .. i - 1 : q[j].op = "leave" /\ q[j].s = x.s
     /\ x.op = "leave" /\ Runs(x.s) =>
          \E j \in i + 1 .. Len(q) : q[j].op \in Closing /\ q[j].s = x.s

Once(ops) ==
  \A g, h \in Goroutines : \A i \in DOMAIN run[g], j \in DOMAIN run[h] :
    /\ run[g][i].op \in ops /\ run[h][j].op \in ops
    /\ run[g][i].s = run[h][j].s
    => g = h /\ i = j

OnceRelogin ==
  \A g, h \in Goroutines : \A i \in DOMAIN run[g], j \in DOMAIN run[h] :
    /\ run[g][i].op = "relogin" /\ run[h][j].op = "relogin"
    /\ rec[run[g][i].s].recorder = rec[run[h][j].s].recorder
    => g = h /\ i = j

RecTells(s) ==
  /\ s \in old => s <= used
  /\ s \in old \/ s > used =>
       rec[s].recorder = NoRecorder /\ ~rec[s].entered /\ conn[s] = "none"
  /\ s > used => row[s] = "none"
  /\ rec[s].ended # "no" => rec[s].entered /\ rec[s].stopping
  /\ rec[s].stopping => rec[s].entered
  /\ rec[s].entered => rec[s].recorder \in Recorders
  /\ Unended(s) => Runs(s) /\ conn[s] = "open" /\ row[s] = "open"
  /\ Unended(s) /\ rec[s].stopping => shutdown
  /\ Runs(s) => Unended(s) \/ Pending(Holding, s)

RunningTells == \A r \in Recorders : running[r] # NoRec => rec[running[r]].recorder = r

OwedTells == \A r \in owed : \E s \in Recs : rec[s].recorder = r /\ Pending({"relogin"}, s)

HasConn(s) == conn[s] # "none" \/ Pending({"leave"}, s)
ConnTells(s) ==
  LET r == rec[s].recorder
  IN HasConn(s) =>
       /\ r \in Recorders /\ rec[s].via <= logins[r]
       /\ Runs(s) => state[r] # "offline"
       /\ ~Runs(s) =>
            /\ state[r] = "online" /\ session[r] # NoLogin => session[r] > rec[s].via
            /\ state[r] = "offline" /\ task[r] = "opened" => held[r] > rec[s].via
OwnConn ==
  \A s, t \in Recs : s # t /\ HasConn(s) /\ HasConn(t) /\ rec[s].recorder = rec[t].recorder
                     => rec[s].via # rec[t].via

(* A check is due, or will be made, that sees channel c has no human.      *)
Watched(c) ==
  \/ check
  \/ \E g \in Goroutines : \E i \in DOMAIN run[g] :
       \/ run[g][i].op = "check"
       \/ run[g][i].op = "judge" /\ c \notin snap[g].human
EmptyTells(s) == Live(s) /\ rec[s].chan \notin human => Watched(rec[s].chan)

(* With no store fault a row stays open only as long as somebody will      *)
(* close it, or its recording goes on.                                     *)
NoStoreFaults == \A a \in Allowances : a["storeFault"] = 0
Listing == \E g \in Goroutines : \E i \in DOMAIN run[g] : run[g][i].op \in {"look", "list"}
RowTells(s) ==
  NoStoreFaults =>
    /\ allowed["storeFault"] = 0
    /\ row[s] = "open" /\ s \notin old => Unended(s) \/ Pending({"enter", "closeRow"}, s)
    /\ row[s] = "open" /\ s \in old => Pending({"recover"}, s) \/ Listing

ItemsTell  == \A g \in Goroutines : \A i \in DOMAIN run[g] : ItemTells(run[g][i])
PlacesTell == \A g \in Goroutines : \A i \in DOMAIN run[g] : PlaceTells(g, i)
LeavesTell == \A g \in Goroutines : \A i \in DOMAIN run[g] : LeaveTells(g, i)
RecsTell   == \A s \in Recs : RecTells(s)
ConnsTell  == \A s \in Recs : ConnTells(s)
EmptiesTell == \A s \in Recs : EmptyTells(s)
RowsTold   == \A s \in Recs : RowTells(s)

RecordingInv ==
  /\ TypeOK /\ RecordersInv
  /\ ItemsTell /\ PlacesTell /\ LeavesTell
  /\ Once(Holding) /\ Once({"closeRow"}) /\ Once({"recover"}) /\ OnceRelogin
  /\ RecsTell /\ ConnsTell /\ EmptiesTell /\ RowsTold
  /\ RunningTells /\ OwedTells /\ OwnConn

-----------------------------------------------------------------------------
(* A goroutine that has done its first item, if it had one, goes on with   *)
(* the items q, and then with those it had left.                           *)
Moved(w, q) ==
  LET n == Len(q)
      m == IF run[w] = <<>> THEN 0 ELSE Len(run[w]) - 1
  IN /\ run' \in [Goroutines -> Seq(Item)]
     /\ \A g \in Goroutines \ {w} : run'[g] = run[g]
     /\ Len(run'[w]) = n + m
     /\ \A i \in 1 .. n : run'[w][i] = q[i]
     /\ \A i \in 1 .. m : run'[w][n + i] = run[w][i + 1]

LEMMA Queues ==
  ASSUME TypeOK, NEW g \in Goroutines
  PROVE  /\ run[g] \in Seq(Item) /\ Len(run[g]) \in Nat
         /\ DOMAIN run[g] = 1 .. Len(run[g])
         /\ run[g] = <<>> <=> Len(run[g]) = 0
         /\ \A i \in DOMAIN run[g] : run[g][i] \in Item
         /\ run[g] # <<>> => 1 \in DOMAIN run[g] /\ Head(run[g]) = run[g][1]
<1>1. run[g] \in Seq(Item)
  BY DEF TypeOK
<1> DEFINE q == run[g]
<1> HIDE DEF q
<1>2. q \in Seq(Item)
  BY <1>1 DEF q
<1>3. /\ Len(q) \in Nat /\ DOMAIN q = 1 .. Len(q) /\ (q = <<>> <=> Len(q) = 0)
      /\ \A i \in DOMAIN q : q[i] \in Item
  BY <1>2, EmptySeq
<1>4. q # <<>> => 1 \in DOMAIN q /\ Head(q) = q[1]
  BY <1>2, <1>3
<1> QED
  BY <1>2, <1>3, <1>4 DEF q

LEMMA GoesMoves ==
  ASSUME TypeOK, NEW w \in Goroutines, NEW q \in Seq(Item), run[w] # <<>>, Goes(w, q)
  PROVE  Moved(w, q)
<1> DEFINE o == run[w]
           t == Tail(o)
           c == q \o t
<1>1. o \in Seq(Item) /\ Len(o) \in Nat \ {0} /\ o # <<>>
  BY Queues
<1>2. run \in [Goroutines -> Seq(Item)] /\ run' = [run EXCEPT ![w] = c]
  BY DEF TypeOK, Goes
<1> HIDE DEF o
<1>3. t \in Seq(Item) /\ Len(t) = Len(o) - 1 /\ \A i \in 1 .. Len(o) - 1 : t[i] = o[i + 1]
  BY <1>1
<1>4. Len(q) \in Nat
  OBVIOUS
<1> HIDE DEF t
<1>5. c \in Seq(Item) /\ Len(c) = Len(q) + (Len(o) - 1)
  <2>1. c \in Seq(Item) /\ Len(c) = Len(q) + Len(t)
    BY <1>3, ConcatProperties
  <2> QED
    BY <1>3, <2>1
<1>6. \A i \in 1 .. Len(q) : c[i] = q[i]
  BY <1>1, <1>3, <1>4, ConcatProperties
<1>7. ASSUME NEW i \in 1 .. Len(o) - 1
      PROVE  c[Len(q) + i] = o[i + 1]
  BY <1>1, <1>3, <1>4, ConcatProperties
<1> HIDE DEF c
<1>8. run' \in [Goroutines -> Seq(Item)] /\ run'[w] = c
      /\ \A g \in Goroutines \ {w} : run'[g] = run[g]
  BY <1>2, <1>5
<1> QED
  BY <1>1, <1>5, <1>6, <1>7, <1>8 DEF Moved, o

LEMMA BeginsMoves ==
  ASSUME TypeOK, NEW w \in Goroutines, NEW q \in Seq(Item), Begins(w, q)
  PROVE  Moved(w, q) /\ run[w] = <<>>
  BY DEF TypeOK, Begins, Idle, Moved

(* The items of the queues after the step: the new ones, and those left.   *)
LEMMA MovedItems ==
  ASSUME TypeOK, NEW w \in Goroutines, NEW q \in Seq(Item), Moved(w, q),
         NEW g \in Goroutines, NEW i \in DOMAIN run'[g]
  PROVE  /\ i \in Nat
         /\ g = w /\ i <= Len(q) => i \in DOMAIN q /\ run'[g][i] = q[i]
         /\ ~(g = w /\ i <= Len(q)) =>
              /\ run'[g][i] = run[g][IF g = w THEN i - Len(q) + 1 ELSE i]
              /\ (IF g = w THEN i - Len(q) + 1 ELSE i) \in DOMAIN run[g]
              /\ g = w => i - Len(q) + 1 > 1
<1>1. Len(q) \in Nat /\ DOMAIN q = 1 .. Len(q)
  OBVIOUS
<1>2. /\ Len(run[g]) \in Nat /\ DOMAIN run[g] = 1 .. Len(run[g])
      /\ run[g] = <<>> <=> Len(run[g]) = 0
  BY Queues
<1>3. run'[g] \in Seq(Item)
  BY DEF Moved
<1>4. DOMAIN run'[g] = 1 .. Len(run'[g]) /\ Len(run'[g]) \in Nat
  BY <1>3
<1>5. CASE g # w
  BY <1>2, <1>4, <1>5 DEF Moved
<1>6. CASE g = w
  <2>1. CASE i <= Len(q)
    <3>1. \A k \in 1 .. Len(q) : run'[w][k] = q[k]
      BY DEF Moved
    <3>2. i \in 1 .. Len(q)
      BY <1>1, <1>4, <2>1
    <3> QED
      BY <1>1, <1>4, <1>6, <2>1, <3>1, <3>2
  <2>2. CASE i > Len(q)
    <3> DEFINE k == i - Len(q)
               m == IF run[w] = <<>> THEN 0 ELSE Len(run[w]) - 1
    <3>0. m \in Nat
      BY <1>2, <1>6
    <3>1. Len(run'[w]) = Len(q) + m
      BY DEF Moved
    <3>2. k \in 1 .. m /\ i = Len(q) + k
      BY <1>1, <1>4, <1>6, <2>2, <3>0, <3>1
    <3>3. run'[w][Len(q) + k] = run[w][k + 1]
      BY <3>2 DEF Moved
    <3>4. k + 1 \in 1 .. Len(run[w]) /\ k + 1 > 1 /\ k + 1 = i - Len(q) + 1
      BY <1>1, <1>2, <1>6, <3>2
    <3> HIDE DEF k
    <3> QED
      BY <1>2, <1>4, <1>6, <2>2, <3>2, <3>3, <3>4
  <2> QED
    BY <1>1, <1>4, <2>1, <2>2
<1> QED
  BY <1>5, <1>6

(* Where an item that is left went.                                        *)
LEMMA MovedOn ==
  ASSUME TypeOK, NEW w \in Goroutines, NEW q \in Seq(Item), Moved(w, q),
         NEW g \in Goroutines, NEW i \in DOMAIN run[g], ~(g = w /\ i = 1)
  PROVE  LET j == IF g = w THEN i + Len(q) - 1 ELSE i
         IN j \in DOMAIN run'[g] /\ run'[g][j] = run[g][i]
<1>1. Len(q) \in Nat
  OBVIOUS
<1>2. /\ Len(run[g]) \in Nat /\ DOMAIN run[g] = 1 .. Len(run[g])
      /\ run[g] = <<>> <=> Len(run[g]) = 0
  BY Queues
<1>3. run'[g] \in Seq(Item)
  BY DEF Moved
<1>4. DOMAIN run'[g] = 1 .. Len(run'[g]) /\ Len(run'[g]) \in Nat
  BY <1>3
<1>5. CASE g # w
  BY <1>2, <1>4, <1>5 DEF Moved
<1>6. CASE g = w
  <2> DEFINE k == i - 1
             m == Len(run[w]) - 1
  <2>1. k \in 1 .. m /\ run[w] # <<>> /\ i = k + 1 /\ i + Len(q) - 1 = Len(q) + k
    BY <1>1, <1>2, <1>6
  <2>2. Len(run'[w]) = Len(q) + m /\ run'[w][Len(q) + k] = run[w][k + 1]
    BY <2>1 DEF Moved
  <2> QED
    BY SMTT(30), <1>1, <1>2, <1>4, <1>6, <2>1, <2>2
<1> QED
  BY <1>5, <1>6

LEMMA MovedNew ==
  ASSUME TypeOK, NEW w \in Goroutines, NEW q \in Seq(Item), Moved(w, q), NEW i \in DOMAIN q
  PROVE  i \in DOMAIN run'[w] /\ run'[w][i] = q[i]
<1>1. Len(q) \in Nat /\ i \in 1 .. Len(q)
  OBVIOUS
<1>2. run'[w] \in Seq(Item)
  BY DEF Moved
<1>3. Len(run[w]) \in Nat /\ (run[w] = <<>> <=> Len(run[w]) = 0)
  BY Queues
<1>4. DOMAIN run'[w] = 1 .. Len(run'[w]) /\ Len(run'[w]) >= Len(q)
  BY <1>1, <1>2, <1>3 DEF Moved
<1> QED
  BY <1>1, <1>2, <1>4 DEF Moved

(* What is pending after the step was pending before it, or is new; and    *)
(* what was pending still is, but for the first item.                      *)
LEMMA PendingBack ==
  ASSUME TypeOK, NEW w \in Goroutines, NEW q \in Seq(Item), Moved(w, q), NEW ops, NEW s,
         Pending(ops, s)'
  PROVE  Pending(ops, s) \/ \E i \in DOMAIN q : q[i].op \in ops /\ q[i].s = s
  BY MovedItems DEF Pending, Runner

LEMMA PendingOn ==
  ASSUME TypeOK, NEW w \in Goroutines, NEW q \in Seq(Item), Moved(w, q), NEW ops, NEW s,
         Pending(ops, s), ~(run[w] # <<>> /\ run[w][1].op \in ops /\ run[w][1].s = s)
  PROVE  Pending(ops, s)'
<1>1. PICK g \in Goroutines : \E i \in DOMAIN run[g] : run[g][i].op \in ops /\ run[g][i].s = s
  BY DEF Pending, Runner
<1>2. PICK i \in DOMAIN run[g] : run[g][i].op \in ops /\ run[g][i].s = s
  BY <1>1
<1>3. ~(g = w /\ i = 1)
  BY <1>2, Queues
<1>4. \E j \in DOMAIN run'[g] : run'[g][j] = run[g][i]
  BY <1>3, MovedOn
<1> QED
  BY <1>2, <1>4 DEF Pending, Runner

LEMMA PendingNew ==
  ASSUME TypeOK, NEW w \in Goroutines, NEW q \in Seq(Item), Moved(w, q), NEW ops, NEW s,
         NEW i \in DOMAIN q, q[i].op \in ops, q[i].s = s
  PROVE  Pending(ops, s)'
BY MovedNew DEF Pending, Runner

LEMMA PendingAt ==
  ASSUME NEW g \in Goroutines, NEW i \in DOMAIN run[g], NEW ops, run[g][i].op \in ops
  PROVE  Pending(ops, run[g][i].s)
BY DEF Pending, Runner

(* No item comes twice after the step when the new ones do not.            *)
LEMMA OnceMoved ==
  ASSUME TypeOK, NEW w \in Goroutines, NEW q \in Seq(Item), Moved(w, q), NEW ops, Once(ops),
         \A i, j \in DOMAIN q : q[i].op \in ops /\ q[j].op \in ops /\ q[i].s = q[j].s => i = j,
         \A k \in DOMAIN q : q[k].op \in ops =>
           \A g \in Goroutines : \A i \in DOMAIN run[g] :
             run[g][i].op \in ops /\ run[g][i].s = q[k].s => g = w /\ i = 1
  PROVE  Once(ops)'
<1> SUFFICES ASSUME NEW g \in Goroutines, NEW h \in Goroutines,
                    NEW i \in DOMAIN run'[g], NEW j \in DOMAIN run'[h],
                    run'[g][i].op \in ops, run'[h][j].op \in ops,
                    run'[g][i].s = run'[h][j].s
             PROVE  g = h /\ i = j
  BY DEF Once
<1> DEFINE n == Len(q)
           a == IF g = w THEN i - n + 1 ELSE i
           b == IF h = w THEN j - n + 1 ELSE j
<1>0. n \in Nat
  OBVIOUS
<1>1. /\ i \in Nat
      /\ g = w /\ i <= n => i \in DOMAIN q /\ run'[g][i] = q[i]
      /\ ~(g = w /\ i <= n) => /\ run'[g][i] = run[g][a] /\ a \in DOMAIN run[g]
                               /\ g = w => a > 1
  BY MovedItems
<1>2. /\ j \in Nat
      /\ h = w /\ j <= n => j \in DOMAIN q /\ run'[h][j] = q[j]
      /\ ~(h = w /\ j <= n) => /\ run'[h][j] = run[h][b] /\ b \in DOMAIN run[h]
                               /\ h = w => b > 1
  BY MovedItems
<1>3. CASE (g = w /\ i <= n) /\ (h = w /\ j <= n)
  BY <1>1, <1>2, <1>3
<1>4. CASE (g = w /\ i <= n) /\ ~(h = w /\ j <= n)
  BY <1>1, <1>2, <1>4
<1>5. CASE ~(g = w /\ i <= n) /\ (h = w /\ j <= n)
  BY <1>1, <1>2, <1>5
<1>6. CASE ~(g = w /\ i <= n) /\ ~(h = w /\ j <= n)
  BY SMTT(30), <1>0, <1>1, <1>2, <1>6 DEF Once
<1> QED
  BY <1>3, <1>4, <1>5, <1>6

(* An item other than the first of goroutine w's queue waits.              *)
Waits(x, w) == \E g \in Goroutines : \E i \in DOMAIN run[g] : run[g][i] = x /\ ~(g = w /\ i = 1)

LEMMA ItemsMoved ==
  ASSUME TypeOK, NEW w \in Goroutines, NEW q \in Seq(Item), Moved(w, q),
         \A x \in Item : Waits(x, w) => ItemTells(x)',
         \A x \in Item : (\E i \in DOMAIN q : q[i] = x) => ItemTells(x)'
  PROVE  ItemsTell'
<1> SUFFICES ASSUME NEW g \in Goroutines, NEW i \in DOMAIN run'[g]
             PROVE  ItemTells(run[g][i])'
  BY DEF ItemsTell
<1>1. PICK x : x = run'[g][i]
  OBVIOUS
<1>2. x \in Item
  BY <1>1 DEF Moved
<1>3. ItemTells(x)'
  BY <1>1, <1>2, MovedItems DEF Waits
<1> QED
  BY <1>1, <1>3

(* Places.                                                                 *)
Alone == {"join", "joined", "notice", "row", "judge", "gapLimit", "look"}
Loose == {"capture", "leave", "closeRow", "release", "releaseLate", "relogin",
          "editNotice", "removeNotice"}

LEMMA Popped ==
  ASSUME TypeOK, NEW w \in Goroutines, PlacesTell, run[w] # <<>>
  PROVE  /\ run[w][1] \in Item /\ Len(run[w]) >= 1
         /\ run[w][1].op \in Alone \cup {"list", "check"} => Len(run[w]) = 1
         /\ Len(run[w]) > 1 /\ run[w][1].op \notin {"idle", "kick"} =>
              \A i \in DOMAIN run[w] : run[w][i].op # "list"
<1>1. /\ run[w] \in Seq(Item) /\ Len(run[w]) \in Nat /\ DOMAIN run[w] = 1 .. Len(run[w])
      /\ 1 \in DOMAIN run[w] /\ run[w][1] \in Item
  BY Queues
<1>2. PlaceTells(w, 1) /\ \A i \in DOMAIN run[w] : PlaceTells(w, i)
  BY <1>1 DEF PlacesTell
<1>3. Len(run[w]) >= 1
  BY <1>1
<1>4. run[w][1].op \in Alone \cup {"list", "check"} => Len(run[w]) = 1
  BY <1>2 DEF PlaceTells, Alone
<1>5. ASSUME Len(run[w]) > 1, run[w][1].op \notin {"idle", "kick"},
             NEW i \in DOMAIN run[w], run[w][i].op = "list"
      PROVE  FALSE
  BY <1>1, <1>2, <1>5 DEF PlaceTells
<1> QED
  BY <1>1, <1>3, <1>4, <1>5

LEMMA PlacesMoved ==
  ASSUME TypeOK, NEW w \in Goroutines, NEW q \in Seq(Item), Moved(w, q), PlacesTell,
         \A i \in DOMAIN q : PlaceTells(w, i)',
         \A i \in DOMAIN run[w] : i > 1 /\ run[w][i].op = "list" =>
           \A j \in DOMAIN q : q[j].op \in {"idle", "kick"}
  PROVE  PlacesTell'
<1> SUFFICES ASSUME NEW g \in Goroutines, NEW i \in DOMAIN run'[g]
             PROVE  PlaceTells(g, i)'
  BY DEF PlacesTell
<1>1. CASE g # w
  <2>1. run'[g] = run[g]
    BY <1>1 DEF Moved
  <2>2. PlaceTells(g, i)
    BY <2>1 DEF PlacesTell
  <2> QED
    BY <2>1, <2>2 DEF PlaceTells
<1>2. CASE g = w /\ i <= Len(q)
  BY <1>2, MovedItems
<1>3. CASE g = w /\ ~(i <= Len(q))
  <2> DEFINE n == Len(q)
             o == run[w]
             p == run'[w]
             a == i - n + 1
  <2>1. n \in Nat /\ DOMAIN q = 1 .. n
    OBVIOUS
  <2>2. /\ Len(o) \in Nat /\ DOMAIN o = 1 .. Len(o) /\ (o = <<>> <=> Len(o) = 0)
    BY Queues
  <2>3. i \in Nat /\ p[i] = o[a] /\ a \in DOMAIN o /\ a > 1
    BY <1>3, MovedItems
  <2>4. p \in Seq(Item) /\ Len(p) = n + (Len(o) - 1)
    BY <2>2, <2>3 DEF Moved
  <2>5. \A k \in 1 .. Len(o) - 1 : p[n + k] = o[k + 1]
    BY <2>2, <2>3 DEF Moved
  <2>6. \A k \in 1 .. n : p[k] = q[k]
    BY DEF Moved
  <2>7. PlaceTells(w, a)
    BY <2>3 DEF PlacesTell
  <2>20. a \in Nat /\ i = a + n - 1 /\ a <= Len(o)
    BY <2>1, <2>2, <2>3
  <2>8. o[a].op \notin Alone \cup {"receive"}
    BY <2>2, <2>3, <2>7 DEF PlaceTells, Alone
  <2>9. o[a].op = "enter" => Len(p) = i + 1 /\ p[i + 1].op = "check"
    <3>1. ASSUME o[a].op = "enter" PROVE Len(p) = i + 1 /\ p[i + 1].op = "check"
      <4>1. Len(o) = a + 1 /\ o[a + 1].op = "check"
        BY <2>7, <3>1 DEF PlaceTells
      <4>2. Len(p) = i + 1 /\ a \in 1 .. Len(o) - 1 /\ n + a = i + 1
        <5> HIDE DEF a, n, o, p
        <5> QED
          BY SMTT(30), <2>1, <2>2, <2>3, <2>4, <2>20, <4>1
      <4>3. p[n + a] = o[a + 1]
        BY <2>5, <4>2
      <4> QED
        BY <4>1, <4>2, <4>3
    <3> QED
      BY <3>1
  <2>10. o[a].op = "check" => Len(p) = i
    BY <2>1, <2>2, <2>3, <2>4, <2>7 DEF PlaceTells
  <2>11. ASSUME o[a].op = "list"
         PROVE  Len(p) = i /\ \A j \in 1 .. i - 1 : p[j].op \in {"idle", "kick"}
    <3>1. Len(o) = a /\ \A j \in 1 .. a - 1 : o[j].op \in {"idle", "kick"}
      BY <2>7, <2>11 DEF PlaceTells
    <3>2. \A j \in DOMAIN q : q[j].op \in {"idle", "kick"}
      BY <2>3, <2>11
    <3>3. ASSUME NEW j \in 1 .. i - 1 PROVE p[j].op \in {"idle", "kick"}
      <4>1. CASE j <= n
        BY <2>1, <2>6, <3>2, <3>3, <4>1
      <4>2. CASE j > n
        <5>1. j - n \in 1 .. Len(o) - 1 /\ n + (j - n) = j /\ (j - n) + 1 \in 1 .. a - 1
          <6> HIDE DEF a, n, o, p
          <6> QED
            BY <2>1, <2>2, <2>3, <2>20, <3>1, <4>2
        <5>2. p[n + (j - n)] = o[(j - n) + 1]
          BY <2>5, <5>1
        <5> QED
          BY <3>1, <5>1, <5>2
      <4> QED
        BY <2>1, <4>1, <4>2
    <3>4. Len(p) = i
      <4> HIDE DEF a, n, o, p
      <4> QED
        BY <2>1, <2>2, <2>3, <2>4, <2>20, <3>1
    <3> QED
      BY <3>3, <3>4
  <2>12. o[a].op \in Recovers => w = Recovery
    BY <2>7 DEF PlaceTells
  <2> HIDE DEF n, a
  <2> QED
    BY <1>3, <2>3, <2>8, <2>9, <2>10, <2>11, <2>12 DEF PlaceTells, Alone
<1> QED
  BY <1>1, <1>2, <1>3

(* New items that may stand anywhere.                                      *)
LEMMA PlacesLoose ==
  ASSUME TypeOK, NEW w \in Goroutines, NEW q \in Seq(Item), Moved(w, q), PlacesTell,
         \A i \in DOMAIN q : q[i].op \in Loose,
         run[w] # <<>> => run[w][1].op \notin {"idle", "kick"} \/ q = <<>>
  PROVE  PlacesTell'
  BY SMTT(30), MovedNew, Queues, Popped, PlacesMoved DEF PlaceTells, Loose, Recovers

(* A goroutine that had nothing left: only the new items count.            *)
LEMMA PlacesFresh ==
  ASSUME TypeOK, NEW w \in Goroutines, NEW q \in Seq(Item), Moved(w, q), PlacesTell,
         Len(run[w]) <= 1, \A i \in DOMAIN q : PlaceTells(w, i)'
  PROVE  PlacesTell'
  BY Queues, PlacesMoved

LEMMA Whole ==
  ASSUME TypeOK, NEW w \in Goroutines, NEW q \in Seq(Item), Moved(w, q), Len(run[w]) <= 1
  PROVE  run'[w] = q
  BY Queues, SeqEqual DEF Moved

LEMMA LeavesMoved ==
  ASSUME TypeOK, NEW w \in Goroutines, NEW q \in Seq(Item), Moved(w, q), LeavesTell,
         \A s \in Nat : Pending({"release"}, s) /\ conn[s] = "none" => conn'[s] = "none",
         run[w] # <<>> /\ run[w][1].op = "leave" => conn'[run[w][1].s] = "none",
         \A s \in Nat : Pending({"leave"}, s) /\ Runs(s)' => Runs(s),
         \A i \in DOMAIN q : q[i].op = "release" =>
           \E j \in 1 .. i - 1 : q[j].op = "leave" /\ q[j].s = q[i].s,
         \A i \in DOMAIN q : \A s \in Nat : q[i].op = "leave" /\ s = q[i].s /\ Runs(s)' =>
           \E j \in i + 1 .. Len(q) : q[j].op \in Closing /\ q[j].s = s
  PROVE  LeavesTell'
<1> SUFFICES ASSUME NEW g \in Goroutines, NEW i \in DOMAIN run'[g]
             PROVE  LeaveTells(g, i)'
  BY DEF LeavesTell
<1>0. PICK x \in Item : x = run'[g][i]
  BY DEF Moved
<1>01. PICK s \in Nat : s = x.s
  BY DEF Item
<1>1. CASE g # w
  <2>1. run'[g] = run[g]
    BY <1>1 DEF Moved
  <2>2. LeaveTells(g, i)
    BY <2>1 DEF LeavesTell
  <2>3. x.op = "release" => conn'[s] = "none"
                            \/ \E j \in 1 .. i - 1 : run[g][j].op = "leave" /\ run[g][j].s = s
    BY ZenonT(60), <1>0, <1>01, <2>1, <2>2, PendingAt DEF LeaveTells
  <2>4. x.op = "leave" /\ Runs(s)' =>
          \E j \in i + 1 .. Len(run[g]) : run[g][j].op \in Closing /\ run[g][j].s = s
    BY ZenonT(60), <1>0, <1>01, <2>1, <2>2, PendingAt DEF LeaveTells
  <2>5. x.op = "leave" /\ Runs(run[g][i].s)' => Runs(s)'
    BY <1>0, <1>01
  <2> QED
    BY <1>0, <1>01, <2>1, <2>3, <2>4, <2>5 DEF LeaveTells
<1> DEFINE n == Len(q)
           o == run[w]
           p == run'[w]
<1>2. n \in Nat /\ DOMAIN q = 1 .. n
  OBVIOUS
<1>3. /\ Len(o) \in Nat /\ DOMAIN o = 1 .. Len(o) /\ (o = <<>> <=> Len(o) = 0)
  BY Queues
<1>4. p \in Seq(Item) /\ Len(p) \in Nat /\ DOMAIN p = 1 .. Len(p)
  BY DEF Moved
<1>5. \A k \in 1 .. n : p[k] = q[k]
  BY DEF Moved
<1>6. Len(p) >= n
  BY <1>2, <1>3 DEF Moved
<1>7. CASE g = w /\ i <= n
  <2>1. i \in DOMAIN q /\ x = q[i]
    BY <1>0, <1>7, MovedItems
  <2>2. x.op = "release" => \E j \in 1 .. i - 1 : p[j].op = "leave" /\ p[j].s = s
    BY SMTT(30), <1>01, <1>2, <1>5, <2>1
  <2>3. x.op = "leave" /\ Runs(s)' =>
          \E j \in i + 1 .. Len(p) : p[j].op \in Closing /\ p[j].s = s
    <3>1. ASSUME x.op = "leave", Runs(s)'
          PROVE  \E j \in i + 1 .. Len(p) : p[j].op \in Closing /\ p[j].s = s
      <4>1. PICK j \in i + 1 .. n : q[j].op \in Closing /\ q[j].s = s
        BY <1>01, <2>1, <3>1
      <4>2. j \in 1 .. n /\ j \in i + 1 .. Len(p)
        BY <1>2, <1>4, <1>6, <2>1, <4>1
      <4> QED
        BY <1>5, <4>1, <4>2
    <3> QED
      BY <3>1
  <2> HIDE DEF n
  <2> QED
    BY <1>0, <1>01, <1>7, <2>2, <2>3 DEF LeaveTells
<1>8. CASE g = w /\ ~(i <= n)
  <2> DEFINE a == i - n + 1
  <2>1. i \in Nat /\ x = o[a] /\ a \in DOMAIN o /\ a > 1
    BY <1>0, <1>8, MovedItems
  <2>2. Len(p) = n + (Len(o) - 1)
    BY <1>3, <2>1 DEF Moved
  <2>3. \A k \in 1 .. Len(o) - 1 : p[n + k] = o[k + 1]
    BY <1>3, <2>1 DEF Moved
  <2>4. LeaveTells(w, a)
    BY <2>1 DEF LeavesTell
  <2>5. ASSUME x.op = "release"
        PROVE  conn'[s] = "none" \/ \E j \in 1 .. i - 1 : p[j].op = "leave" /\ p[j].s = s
    <3>1. CASE conn[s] = "none"
      BY <1>01, <2>1, <2>5, <3>1, PendingAt
    <3>2. CASE conn[s] # "none"
      <4>1. PICK j \in 1 .. a - 1 : o[j].op = "leave" /\ o[j].s = s
        BY <1>01, <2>1, <2>4, <2>5, <3>2 DEF LeaveTells
      <4>2. CASE j = 1
        BY <1>3, <2>1, <4>1, <4>2
      <4>3. CASE j > 1
        <5>1. j - 1 \in 1 .. Len(o) - 1 /\ (j - 1) + 1 = j /\ n + (j - 1) \in 1 .. i - 1
          BY SMTT(30), <1>2, <1>3, <2>1, <4>1, <4>3
        <5>2. p[n + (j - 1)] = o[j]
          BY ZenonT(60), <2>3, <5>1
        <5> QED
          BY <4>1, <5>1, <5>2
      <4> QED
        BY <4>1, <4>2, <4>3
    <3> QED
      BY <3>1, <3>2
  <2>6. ASSUME x.op = "leave", Runs(s)'
        PROVE  \E j \in i + 1 .. Len(p) : p[j].op \in Closing /\ p[j].s = s
    <3>1. Runs(s)
      BY <1>01, <2>1, <2>6, PendingAt
    <3>2. PICK j \in a + 1 .. Len(o) : o[j].op \in Closing /\ o[j].s = s
      BY <1>01, <2>1, <2>4, <2>6, <3>1 DEF LeaveTells
    <3>3. j - 1 \in 1 .. Len(o) - 1 /\ (j - 1) + 1 = j /\ n + (j - 1) \in i + 1 .. Len(p)
      BY SMTT(30), <1>2, <1>3, <2>1, <2>2, <3>2
    <3>4. p[n + (j - 1)] = o[j]
      BY ZenonT(60), <2>3, <3>3
    <3> QED
      BY <3>2, <3>3, <3>4
  <2> HIDE DEF n, a
  <2> QED
    BY <1>0, <1>01, <1>8, <2>5, <2>6 DEF LeaveTells
<1> QED
  BY <1>1, <1>7, <1>8

-----------------------------------------------------------------------------
(* A step leaves recording t as it is, for all that the invariant says.    *)
Kept(t) ==
  /\ rec'[t].recorder = rec[t].recorder /\ rec'[t].chan = rec[t].chan
  /\ rec'[t].via = rec[t].via /\ rec'[t].entered = rec[t].entered
  /\ rec'[t].ended = rec[t].ended
  /\ rec[t].stopping => rec'[t].stopping
  /\ rec'[t].stopping => rec[t].stopping \/ (rec[t].entered /\ shutdown')
  /\ conn'[t] = conn[t] /\ row'[t] = row[t] /\ (Runs(t)' <=> Runs(t))

LEMMA ItemKept ==
  ASSUME NEW x \in Item, ItemTells(x), x.s \in Recs => Kept(x.s), old' = old,
         x.op = "relogin" => rec[x.s].recorder \in owed'
  PROVE  ItemTells(x)'
<1> DEFINE s == x.s
<1> HIDE DEF s
<1>1. s = x.s
  BY DEF s
<1>2. CASE s \in Recs
  BY <1>1, <1>2 DEF Kept, Unended, ItemTells
<1>3. CASE s \notin Recs
  BY <1>1, <1>3 DEF ItemTells, Opening, Closing
<1> QED
  BY <1>2, <1>3

LEMMA RecKept ==
  ASSUME NEW s \in Recs, RecTells(s), Kept(s), old' = old,
         used \in Nat, used' \in {used, used + 1},
         shutdown => shutdown',
         Runs(s) /\ Pending(Holding, s) => Pending(Holding, s)'
  PROVE  RecTells(s)'
  BY RecordingAssumption DEF Kept, Unended, RecTells

LEMMA OwnConnKept ==
  ASSUME OwnConn, \A s \in Recs : HasConn(s)' => HasConn(s),
         \A s \in Recs : rec'[s].recorder = rec[s].recorder /\ rec'[s].via = rec[s].via
  PROVE  OwnConn'
BY DEF OwnConn

LEMMA EmptyKept ==
  ASSUME NEW s \in Recs, EmptyTells(s), Kept(s), human' = human,
         \A c : c \notin human /\ Watched(c) => Watched(c)'
  PROVE  EmptyTells(s)'
  BY DEF Kept, Live, EmptyTells

LEMMA RowKept ==
  ASSUME NEW s \in Recs, RowTells(s), Kept(s), old' = old,
         allowed["storeFault"] = 0 => allowed'["storeFault"] = 0,
         Pending({"enter", "closeRow"}, s) => Pending({"enter", "closeRow"}, s)',
         Pending({"recover"}, s) => Pending({"recover"}, s)',
         Listing => Listing'
  PROVE  RowTells(s)'
  BY DEF Kept, Unended, RowTells, NoStoreFaults

(* Items that the invariant counts.                                        *)
Counted == Holding \cup {"closeRow", "recover", "relogin"}

LEMMA WatchedOn ==
  ASSUME TypeOK, PlacesTell, NEW w \in Goroutines, NEW q \in Seq(Item), Moved(w, q),
         run[w] # <<>> => run[w][1].op \notin {"check", "judge"},
         check => check', \A g \in Goroutines \ {w} : snap'[g] = snap[g]
  PROVE  \A c : Watched(c) => Watched(c)'
<1> SUFFICES ASSUME NEW c, Watched(c), ~check
             PROVE  Watched(c)'
  BY DEF Watched
<1>1. PICK g \in Goroutines : \E i \in DOMAIN run[g] :
        \/ run[g][i].op = "check"
        \/ run[g][i].op = "judge" /\ c \notin snap[g].human
  BY DEF Watched
<1>2. PICK i \in DOMAIN run[g] : \/ run[g][i].op = "check"
                                 \/ run[g][i].op = "judge" /\ c \notin snap[g].human
  BY <1>1
<1>3. ~(g = w /\ i = 1)
  BY <1>2, Queues
<1>4. \E j \in DOMAIN run'[g] : run'[g][j] = run[g][i]
  BY <1>3, MovedOn
<1>5. run[g][i].op = "judge" => g # w
  BY <1>3, Queues DEF PlacesTell, PlaceTells
<1> QED
  BY <1>2, <1>4, <1>5 DEF Watched

LEMMA ListingOn ==
  ASSUME TypeOK, NEW w \in Goroutines, NEW q \in Seq(Item), Moved(w, q), Listing,
         run[w] # <<>> => run[w][1].op \notin {"look", "list"}
  PROVE  Listing'
<1>1. PICK g \in Goroutines : \E i \in DOMAIN run[g] : run[g][i].op \in {"look", "list"}
  BY DEF Listing
<1>2. PICK i \in DOMAIN run[g] : run[g][i].op \in {"look", "list"}
  BY <1>1
<1>3. ~(g = w /\ i = 1)
  BY <1>2, Queues
<1>4. \E j \in DOMAIN run'[g] : run'[g][j] = run[g][i]
  BY <1>3, MovedOn
<1> QED
  BY <1>2, <1>4 DEF Listing

(* What a step says nothing of goes on as it was: the recordings outside X.*)
LEMMA UntouchedRecs ==
  ASSUME RecordingInv, NEW w \in Goroutines, NEW q \in Seq(Item), Moved(w, q), NEW X,
         \A t \in Recs : t \notin X => Kept(t),
         run[w] # <<>> /\ run[w][1].op \in Counted => run[w][1].s \in X,
         old' = old, used' \in {used, used + 1}, shutdown => shutdown', owed \subseteq owed'
  PROVE  /\ \A t \in Recs : t \notin X => RecTells(t)'
         /\ \A x \in Item : Waits(x, w) /\ x.s \notin X => ItemTells(x)'
<1>0. TypeOK /\ RecsTell /\ ItemsTell
  BY DEF RecordingInv
<1>1. ASSUME NEW t \in Recs, t \notin X
      PROVE  RecTells(t)'
  BY <1>0, <1>1, PendingOn, RecKept DEF Counted, RecsTell, TypeOK
<1>2. ASSUME NEW x \in Item, Waits(x, w), x.s \notin X
      PROVE  ItemTells(x)'
  BY <1>0, <1>2, ItemKept DEF ItemsTell, Waits, ItemTells
<1> QED
  BY <1>1, <1>2

LEMMA UntouchedRows ==
  ASSUME RecordingInv, NEW w \in Goroutines, NEW q \in Seq(Item), Moved(w, q), NEW X,
         \A t \in Recs : t \notin X => Kept(t),
         run[w] # <<>> /\ run[w][1].op \in Counted => run[w][1].s \in X,
         old' = old, Listing => Listing',
         allowed["storeFault"] = 0 => allowed'["storeFault"] = 0
  PROVE  \A t \in Recs : t \notin X => RowTells(t)'
<1>0. TypeOK /\ RowsTold
  BY DEF RecordingInv
<1> SUFFICES ASSUME NEW t \in Recs, t \notin X PROVE RowTells(t)'
  OBVIOUS
<1>1. Pending({"enter", "closeRow"}, t) => Pending({"enter", "closeRow"}, t)'
  BY <1>0, PendingOn DEF Counted, Holding
<1>2. Pending({"recover"}, t) => Pending({"recover"}, t)'
  BY <1>0, PendingOn DEF Counted, Holding
<1> QED
  BY <1>0, <1>1, <1>2, RowKept DEF RowsTold

LEMMA UntouchedEmpties ==
  ASSUME RecordingInv, NEW X, \A t \in Recs : t \notin X => Kept(t),
         human' = human, \A c : c \notin human /\ Watched(c) => Watched(c)'
  PROVE  \A t \in Recs : t \notin X => EmptyTells(t)'
BY EmptyKept DEF RecordingInv, EmptiesTell

(* A step that leaves the accounts and the relogins alone, and gives out   *)
(* no connection.                                                          *)
LEMMA SameWay ==
  ASSUME RecordingInv, NEW w \in Goroutines, NEW q \in Seq(Item), Moved(w, q),
         UNCHANGED recordersVars, \A t \in Recs : rec'[t].recorder = rec[t].recorder,
         run[w] # <<>> => run[w][1].op # "relogin",
         \A i \in DOMAIN q : q[i].op # "relogin",
         \A r \in Recorders : running'[r] \in {running[r], NoRec}
  PROVE  OnceRelogin' /\ OwedTells' /\ RunningTells' /\ RecordersInv'
<1>0. /\ TypeOK /\ OnceRelogin /\ OwedTells /\ RunningTells /\ ItemsTell /\ RecordersInv
  BY DEF RecordingInv
<1>1. OnceRelogin'
  <2> SUFFICES ASSUME NEW g \in Goroutines, NEW h \in Goroutines,
                      NEW i \in DOMAIN run'[g], NEW j \in DOMAIN run'[h],
                      run'[g][i].op = "relogin", run'[h][j].op = "relogin",
                      rec'[run'[g][i].s].recorder = rec'[run'[h][j].s].recorder
               PROVE  g = h /\ i = j
    BY DEF OnceRelogin
  <2> DEFINE n == Len(q)
             a == IF g = w THEN i - n + 1 ELSE i
             b == IF h = w THEN j - n + 1 ELSE j
  <2>2. n \in Nat
    OBVIOUS
  <2>3. i \in Nat /\ run'[g][i] = run[g][a] /\ a \in DOMAIN run[g]
    BY <1>0, MovedItems
  <2>4. j \in Nat /\ run'[h][j] = run[h][b] /\ b \in DOMAIN run[h]
    BY <1>0, MovedItems
  <2>5. g = h /\ a = b
    <3> HIDE DEF a, b
    <3>1. ItemTells(run[g][a]) /\ ItemTells(run[h][b])
      BY <1>0, <2>3, <2>4 DEF ItemsTell
    <3>2. run[g][a].s \in Recs /\ run[h][b].s \in Recs
      BY <2>3, <2>4, <3>1 DEF ItemTells
    <3> QED
      BY <1>0, <2>3, <2>4, <3>2 DEF OnceRelogin
  <2> HIDE DEF n
  <2> QED
    BY <2>2, <2>3, <2>4, <2>5
<1>2. OwedTells'
  BY <1>0, PendingOn DEF OwedTells, recordersVars
<1>3. RunningTells'
  BY ZenonT(60), <1>0 DEF RunningTells, TypeOK
<1>4. RecordersInv'
  BY <1>0, StepInv
<1> QED
  BY <1>1, <1>2, <1>3, <1>4

LEMMA Ordinary ==
  ASSUME RecordingInv, NEW w \in Goroutines, NEW q \in Seq(Item), Moved(w, q),
         UNCHANGED recordersVars,
         \A t \in Recs : rec'[t].recorder = rec[t].recorder /\ rec'[t].via = rec[t].via,
         \A t \in Recs : HasConn(t)' => HasConn(t) /\ (Runs(t)' <=> Runs(t)),
         run[w] # <<>> => run[w][1].op # "relogin",
         \A i \in DOMAIN q : q[i].op # "relogin",
         \A r \in Recorders : running'[r] \in {running[r], NoRec}
  PROVE  /\ OnceRelogin' /\ OwedTells' /\ RunningTells' /\ OwnConn' /\ ConnsTell'
         /\ RecordersInv'
<1>0. /\ TypeOK /\ OwnConn /\ ConnsTell
  BY DEF RecordingInv
<1>1. OnceRelogin' /\ OwedTells' /\ RunningTells' /\ RecordersInv'
  BY SameWay
<1>2. OwnConn'
  BY <1>0, OwnConnKept
<1>3. ConnsTell'
  BY <1>0 DEF ConnsTell, ConnTells, recordersVars
<1> QED
  BY <1>1, <1>2, <1>3

-----------------------------------------------------------------------------
(* Steps that leave every goroutine and every recording where they are.    *)
LEMMA StillQueues ==
  ASSUME RecordingInv, UNCHANGED <<run, snap, old, used, running, conn, row, owed>>,
         check => check', shutdown => shutdown',
         \A t \in Recs : /\ rec'[t].recorder = rec[t].recorder /\ rec'[t].chan = rec[t].chan
                         /\ rec'[t].via = rec[t].via /\ rec'[t].entered = rec[t].entered
                         /\ rec'[t].ended = rec[t].ended
                         /\ rec[t].stopping => rec'[t].stopping
                         /\ rec'[t].stopping =>
                              rec[t].stopping \/ (rec[t].entered /\ shutdown'),
         allowed["storeFault"] = 0 => allowed'["storeFault"] = 0
  PROVE  /\ ItemsTell' /\ PlacesTell' /\ LeavesTell'
         /\ Once(Holding)' /\ Once({"closeRow"})' /\ Once({"recover"})' /\ OnceRelogin'
         /\ RecsTell' /\ RowsTold' /\ RunningTells' /\ OwedTells' /\ OwnConn'
         /\ human' = human => EmptiesTell'
         /\ UNCHANGED recordersVars => ConnsTell'
<1>0. /\ TypeOK /\ ItemsTell /\ PlacesTell /\ LeavesTell
      /\ Once(Holding) /\ Once({"closeRow"}) /\ Once({"recover"}) /\ OnceRelogin
      /\ RecsTell /\ RowsTold /\ RunningTells /\ OwedTells /\ OwnConn /\ EmptiesTell
      /\ ConnsTell
  BY DEF RecordingInv
<1>1. \A t \in Recs : Kept(t)
  BY DEF Kept, Runs
<1>2. \A ops, s : Pending(ops, s)' <=> Pending(ops, s)
  BY Zenon DEF Pending, Runner
<1>3. ItemsTell'
  BY <1>0, <1>1, Queues, ItemKept DEF ItemsTell, ItemTells
<1>4. PlacesTell'
  BY SMTT(30), <1>0 DEF PlacesTell, PlaceTells
<1>5. LeavesTell'
  BY SMTT(30), <1>0 DEF LeavesTell, ItemsTell, ItemTells, Runs, LeaveTells
<1>6. Once(Holding)' /\ Once({"closeRow"})' /\ Once({"recover"})'
  BY <1>0 DEF Once
<1>7. OnceRelogin'
  BY SMTT(30), <1>0 DEF OnceRelogin, ItemsTell, ItemTells
<1>8. RecsTell'
  BY <1>0, <1>1, <1>2, RecKept DEF RecsTell, TypeOK
<1>9. RowsTold'
  BY <1>0, <1>1, <1>2, RowKept DEF Listing, RowsTold
<1>10. RunningTells' /\ OwedTells'
  <2>1. RunningTells'
    BY SMTT(60), <1>0 DEF RunningTells, TypeOK
  <2>2. OwedTells'
    BY <1>0, <1>2 DEF OwedTells
  <2> QED
    BY <2>1, <2>2
<1>11. \A t \in Recs : HasConn(t)' <=> HasConn(t)
  BY <1>2 DEF HasConn
<1>12. OwnConn'
  BY <1>0, <1>11, OwnConnKept
<1>13. human' = human => EmptiesTell'
  BY <1>0, <1>1, EmptyKept DEF Watched, EmptiesTell
<1>14. UNCHANGED recordersVars => ConnsTell'
  BY <1>0, <1>1, <1>11 DEF Kept, ConnsTell, ConnTells, recordersVars
<1> QED
  BY <1>3, <1>4, <1>5, <1>6, <1>7, <1>8, <1>9, <1>10, <1>12, <1>13, <1>14

(* The parts put together again.                                           *)
LEMMA Together ==
  ASSUME TypeOK', RecordersInv', ItemsTell', PlacesTell', LeavesTell', Once(Holding)',
         Once({"closeRow"})', Once({"recover"})', OnceRelogin', RecsTell', ConnsTell',
         EmptiesTell', RowsTold', RunningTells', OwedTells', OwnConn'
  PROVE  RecordingInv'
BY DEF RecordingInv

LEMMA SpendKeeps ==
  ASSUME TypeOK, NEW k \in Kinds, Spend(k)
  PROVE  /\ allowed' \in [Kinds -> Nat]
         /\ allowed["storeFault"] = 0 => allowed'["storeFault"] = 0 /\ k # "storeFault"
  BY SMTT(60) DEF TypeOK, Spend, Kinds

LEMMA PeopleKeeps ==
  ASSUME RecordingInv, NEW c \in Channels, People(c)
  PROVE  RecordingInv'
<1>1. TypeOK /\ RecordersInv
  BY DEF RecordingInv
<1>2. /\ Spend("people") /\ human' = (IF c \in human THEN human \ {c} ELSE human \cup {c})
      /\ check' = TRUE /\ UNCHANGED <<recordersVars, at, seen, runtime, adapter, kept, work>>
  BY DEF People
<1>3. /\ allowed' \in [Kinds -> Nat]
      /\ allowed["storeFault"] = 0 => allowed'["storeFault"] = 0
  BY <1>1, <1>2, SpendKeeps DEF Kinds
<1>4. RecordersInv'
  BY <1>1, <1>2, StepInv
<1>5. TypeOK'
  BY <1>1, <1>2, <1>3, <1>4 DEF TypeOK, RecordersInv, runtime, adapter, kept, work
<1>6. EmptiesTell'
  BY <1>2 DEF EmptiesTell, EmptyTells, Watched
<1> QED
  BY <1>1, <1>2, <1>3, <1>4, <1>5, <1>6, StillQueues, Together
     DEF runtime, adapter, kept, work, recordersVars

(* Discord and the cache, and the adapter's own leaves and gaps.           *)
LEMMA PlacesOfRecorders ==
  ASSUME RecordingInv, NEW r \in Recorders, Kick(r) \/ DropOut(r) \/ CacheSees(r)
  PROVE  RecordingInv'
<1>1. TypeOK /\ RecordersInv
  BY DEF RecordingInv
<1>2. /\ check => check'
      /\ UNCHANGED <<recordersVars, human, runtime, adapter, kept, work>>
  BY DEF Kick, DropOut, CacheSees
<1>3. /\ allowed' \in [Kinds -> Nat]
      /\ allowed["storeFault"] = 0 => allowed'["storeFault"] = 0
  BY <1>1, SpendKeeps DEF Kick, DropOut, CacheSees, Kinds, TypeOK
<1>4. RecordersInv'
  BY <1>1, <1>2, StepInv
<1>5. at' \in [Recorders -> Place] /\ seen' \in [Recorders -> Channels \cup {Out}]
      /\ check' \in BOOLEAN
  <2>0. /\ at \in [Recorders -> Place] /\ seen \in [Recorders -> Channels \cup {Out}]
        /\ check \in BOOLEAN /\ at[r] \in Place
    BY <1>1 DEF TypeOK
  <2>1. CASE Kick(r)
    BY <2>0, <2>1 DEF Kick, Place
  <2>2. CASE DropOut(r)
    BY <2>0, <2>2 DEF Place, DropOut
  <2>3. CASE CacheSees(r)
    BY <2>0, <2>3 DEF CacheSees, Place
  <2> QED
    BY <2>1, <2>2, <2>3
<1>6. TypeOK'
  BY <1>1, <1>2, <1>3, <1>4, <1>5 DEF TypeOK, RecordersInv, runtime, adapter, kept, work
<1> QED
  BY <1>1, <1>2, <1>3, <1>4, <1>6, StillQueues, Together
     DEF runtime, adapter, kept, work, recordersVars

LEMMA AdapterAlone ==
  ASSUME RecordingInv, NEW s \in Recs,
         OwnLeave(s) \/ OwnRejoin(s) \/ GraceEnds(s) \/ GapStarted(s) \/ GapEnded(s)
  PROVE  RecordingInv'
<1> DEFINE SameRec ==
      /\ rec' \in [Recs -> Active]
      /\ \A t \in Recs : /\ rec'[t].recorder = rec[t].recorder /\ rec'[t].chan = rec[t].chan
                         /\ rec'[t].via = rec[t].via /\ rec'[t].entered = rec[t].entered
                         /\ rec'[t].stopping = rec[t].stopping
                         /\ rec'[t].ended = rec[t].ended
           Types ==
      /\ at' \in [Recorders -> Place] /\ check' \in BOOLEAN
      /\ ear' \in [Recs -> {"off", "hears", "gap"}] /\ armed' \subseteq Recs \X Nat
      /\ allowed' \in [Kinds -> Nat]
      /\ allowed["storeFault"] = 0 => allowed'["storeFault"] = 0
           Rest ==
      /\ check => check'
      /\ UNCHANGED <<recordersVars, seen, human, running, shutdown, conn, kept, work>>
<1>1. TypeOK /\ RecordersInv
  BY DEF RecordingInv
<1>2. /\ rec \in [Recs -> Active] /\ at \in [Recorders -> Place] /\ check \in BOOLEAN
      /\ ear \in [Recs -> {"off", "hears", "gap"}] /\ armed \subseteq Recs \X Nat
      /\ allowed \in [Kinds -> Nat] /\ rec[s] \in Active
      /\ \A r \in Recorders : at[r] \in Place
  BY <1>1 DEF TypeOK
<1>3. ASSUME OwnLeave(s) PROVE SameRec /\ Types /\ Rest
  BY <1>1, <1>2, <1>3, SpendKeeps DEF OwnLeave, Active, Place, Kinds, adapter
<1>4. ASSUME OwnRejoin(s) PROVE SameRec /\ Types /\ Rest
  BY <1>2, <1>4 DEF OwnRejoin, Active, Place, runtime, adapter
<1>5. ASSUME GraceEnds(s) PROVE SameRec /\ Types /\ Rest
  BY <1>2, <1>5 DEF GraceEnds, Active, adapter
<1>6. ASSUME GapStarted(s) PROVE SameRec /\ Types /\ Rest
  <2>1. /\ Spend("gap") /\ ear' = [ear EXCEPT ![s] = "gap"]
        /\ \/ UNCHANGED <<rec, armed>>
           \/ /\ rec' = [rec EXCEPT ![s].gap = allowed["gap"]]
              /\ armed' = armed \cup {<<s, allowed["gap"]>>}
        /\ UNCHANGED <<recordersVars, world, running, shutdown, conn, kept, work>>
    BY <1>6 DEF GapStarted
  <2>2. allowed["gap"] \in Nat
    BY <1>2 DEF Kinds
  <2>3. [rec[s] EXCEPT !.gap = allowed["gap"]] \in Active
    BY <1>2, <2>2 DEF Active
  <2>4. SameRec
    <3>1. CASE UNCHANGED rec
      BY <1>2, <3>1
    <3>2. CASE rec' = [rec EXCEPT ![s].gap = allowed["gap"]]
      BY <1>2, <2>3, <3>2
    <3> QED
      BY <2>1, <3>1, <3>2
  <2>5. armed' \subseteq Recs \X Nat /\ ear' \in [Recs -> {"off", "hears", "gap"}]
    BY <1>2, <2>1, <2>2
  <2>6. Types
    BY <1>1, <1>2, <2>1, <2>5, SpendKeeps DEF Kinds, world
  <2>7. Rest
    BY <2>1 DEF world
  <2> HIDE DEF SameRec, Types, Rest
  <2> QED
    BY <2>4, <2>6, <2>7
<1>7. ASSUME GapEnded(s) PROVE SameRec /\ Types /\ Rest
  <2>1. /\ ear' = [ear EXCEPT ![s] = "hears"]
        /\ \/ UNCHANGED <<rec, armed>>
           \/ /\ rec' = [rec EXCEPT ![s].gap = NoGap]
              /\ armed' = armed \ {<<s, rec[s].gap>>}
        /\ UNCHANGED <<recordersVars, world, running, shutdown, conn, kept, work, allowed>>
    BY <1>7 DEF GapEnded
  <2>0. NoGap \in Nat
    BY RecordingAssumption
  <2>2. [rec[s] EXCEPT !.gap = NoGap] \in Active
    BY <1>2, <2>0 DEF Active
  <2>3. SameRec
    <3>1. CASE UNCHANGED rec
      BY <1>2, <3>1
    <3>2. CASE rec' = [rec EXCEPT ![s].gap = NoGap]
      BY <1>2, <2>2, <3>2
    <3> QED
      BY <2>1, <3>1, <3>2
  <2>6. Types
    BY <1>2, <2>1 DEF world
  <2>7. Rest
    BY <2>1 DEF world
  <2> HIDE DEF SameRec, Types, Rest
  <2> QED
    BY <2>3, <2>6, <2>7
<1> HIDE DEF SameRec, Types, Rest
<1>8. SameRec /\ Types /\ Rest
  BY <1>3, <1>4, <1>5, <1>6, <1>7
<1>9. RecordersInv'
  BY <1>1, <1>8, StepInv DEF Rest
<1>10. TypeOK'
  BY <1>1, <1>8, <1>9 DEF TypeOK, RecordersInv, Rest, SameRec, Types, kept, work
<1> QED
  BY <1>1, <1>8, <1>9, <1>10, StillQueues, Together
     DEF kept, work, recordersVars, Rest, SameRec, Types

LEMMA AccountsKeep ==
  ASSUME RecordingInv, Accounts
  PROVE  RecordingInv'
<1>1. /\ TypeOK /\ RecordersInv /\ ConnsTell
  BY DEF RecordingInv
<1>2. UNCHANGED <<world, runtime, adapter, kept, work>>
  BY DEF Accounts
<1>3. /\ allowed' \in [Kinds -> Nat]
      /\ allowed["storeFault"] = 0 => allowed'["storeFault"] = 0
  BY <1>1, SpendKeeps DEF Accounts, Kinds, TypeOK
<1>4. RecordersNext
  BY AccountsSteps
<1>5. RecordersInv'
  BY <1>1, <1>4, StepInv
<1>6. TypeOK'
  BY <1>1, <1>2, <1>3, <1>5 DEF TypeOK, RecordersInv, world, runtime, adapter, kept, work
<1>7. owed' = owed
  BY DEF Accounts, LogBackIn, LogOut, Attempt, Open, OpenRefused, LoggedIn, TokenRefused,
         LogOutEnds, LogOutTimesOut, OpenFails, TokenReset, Close
<1>8. ConnsTell'
  <2> SUFFICES ASSUME NEW s \in Recs, HasConn(s)'
               PROVE  ConnTells(s)'
    BY DEF ConnsTell, ConnTells
  <2>1. HasConn(s) /\ (Runs(s)' <=> Runs(s)) /\ rec' = rec
    BY <1>2 DEF HasConn, Pending, Runner, Runs, adapter, work, runtime
  <2>2. PICK r \in Recorders : r = rec[s].recorder
    BY <1>1, <2>1 DEF ConnsTell, ConnTells
  <2>3. PICK v \in Nat : v = rec[s].via
    BY <1>1 DEF TypeOK, Active
  <2>4. /\ v <= logins[r] /\ (Runs(s) => state[r] # "offline")
        /\ ~Runs(s) =>
             /\ state[r] = "online" /\ session[r] # NoLogin => session[r] > v
             /\ state[r] = "offline" /\ task[r] = "opened" => held[r] > v
    BY <1>1, <2>1, <2>2, <2>3 DEF ConnsTell, ConnTells
  <2>5. /\ v <= logins'[r] /\ (Runs(s) => state'[r] # "offline")
        /\ ~Runs(s) =>
             /\ state'[r] = "online" /\ session'[r] # NoLogin => session'[r] > v
             /\ state'[r] = "offline" /\ task'[r] = "opened" => held'[r] > v
    <3>0. /\ state \in [Recorders -> States] /\ session \in [Recorders -> Nat]
          /\ logins \in [Recorders -> Nat] /\ task \in [Recorders -> Tasks]
          /\ held \in [Recorders -> Nat] /\ closed \in BOOLEAN
      BY <1>1 DEF RecordersInv, RecordersTypeOK
    <3>00. LoginsInOrder(r) /\ WayInOrder(r)
      BY <1>1 DEF RecordersInv, InOrder
    <3>1. ASSUME NEW k \in Recorders,
                 LogBackIn(k) \/ LogOut(k) \/ Attempt(k) \/ OpenRefused(k) \/ TokenRefused(k)
                 \/ LogOutTimesOut(k) \/ OpenFails(k) \/ TokenReset(k)
          PROVE  /\ logins'[r] = logins[r]
                 /\ state'[r] = state[r] \/ state'[r] = "out"
                 /\ session'[r] = session[r] \/ session'[r] = NoLogin
                 /\ task'[r] = "opened" => task[r] = "opened" /\ held'[r] = held[r]
      BY <3>0, <3>1 DEF LogBackIn, LogOut, LogOutTimesOut, AfterLogOut, Attempt,
         OpenFails, TokenReset, OpenRefused, TokenRefused
    <3>2. ASSUME NEW k \in Recorders, Open(k)
          PROVE  /\ logins'[r] \in Nat /\ logins'[r] >= logins[r]
                 /\ state' = state /\ session' = session
                 /\ task'[r] = "opened" =>
                      \/ task[r] = "opened" /\ held'[r] = held[r]
                      \/ held'[r] = logins[r] + 1
      BY <3>0, <3>2 DEF Open
    <3>3. ASSUME NEW k \in Recorders, LoggedIn(k)
          PROVE  /\ logins' = logins
                 /\ \/ /\ state'[r] = state[r] /\ session'[r] = session[r]
                       /\ task'[r] = task[r] /\ held'[r] = held[r]
                    \/ /\ state'[r] = state[r] /\ session'[r] = session[r]
                       /\ task'[r] # "opened"
                    \/ /\ task[r] = "opened" /\ session'[r] = held[r] /\ task'[r] = "none"
                       /\ state'[r] = IF state[r] = "out" THEN "out" ELSE "online"
      BY <3>0, <3>3 DEF LoggedIn
    <3>4. ASSUME (\E l \in ending : LogOutEnds(l)) \/ Close
          PROVE  /\ logins' = logins /\ state' = state /\ task' = task /\ held' = held
                 /\ session'[r] = session[r] \/ session'[r] = NoLogin
      BY <3>0, <3>4 DEF LogOutEnds, Close
    <3>5. \/ \E k \in Recorders :
               LogBackIn(k) \/ LogOut(k) \/ Attempt(k) \/ OpenRefused(k) \/ TokenRefused(k)
               \/ LogOutTimesOut(k) \/ OpenFails(k) \/ TokenReset(k)
          \/ \E k \in Recorders : Open(k)
          \/ \E k \in Recorders : LoggedIn(k)
          \/ \E l \in ending : LogOutEnds(l)
          \/ Close
      BY DEF Accounts
    <3>6. /\ logins[r] \in Nat /\ session[r] \in Nat /\ held[r] \in Nat /\ state[r] \in States
      BY <3>0
    <3>7. CASE \E k \in Recorders :
               LogBackIn(k) \/ LogOut(k) \/ Attempt(k) \/ OpenRefused(k) \/ TokenRefused(k)
               \/ LogOutTimesOut(k) \/ OpenFails(k) \/ TokenReset(k)
      BY <2>4, <3>1, <3>6, <3>7
    <3>8. CASE \E k \in Recorders : Open(k)
      BY <2>3, <2>4, <3>2, <3>6, <3>8
    <3>9. CASE \E k \in Recorders : LoggedIn(k)
      BY <2>4, <3>00, <3>3, <3>6, <3>9 DEF WayInOrder, States
    <3>10. CASE (\E l \in ending : LogOutEnds(l)) \/ Close
      BY <2>4, <3>4, <3>10
    <3> QED
      BY <3>5, <3>7, <3>8, <3>9, <3>10
  <2> QED
    BY <2>1, <2>2, <2>3, <2>5 DEF ConnTells
<1> QED
  BY <1>1, <1>2, <1>3, <1>5, <1>6, <1>7, <1>8, StillQueues, Together
     DEF world, runtime, adapter, kept, work

LEMMA ShutdownKeeps ==
  ASSUME RecordingInv, Shutdown
  PROVE  RecordingInv'
<1>1. TypeOK /\ RecordersInv
  BY DEF RecordingInv
<1>2. /\ shutdown' = TRUE
      /\ rec' = [s \in Recs |-> [rec[s] EXCEPT !.stopping = @ \/ (Runs(s) /\ Live(s))]]
      /\ UNCHANGED <<recordersVars, world, running, adapter, kept, work, allowed>>
  BY DEF Shutdown
<1>3. RecordersInv'
  BY <1>1, <1>2, StepInv
<1>4. \A s \in Recs : LET r == [rec[s] EXCEPT !.stopping = @ \/ (Runs(s) /\ Live(s))]
                      IN /\ r \in Active
                         /\ r.recorder = rec[s].recorder /\ r.chan = rec[s].chan
                         /\ r.via = rec[s].via /\ r.entered = rec[s].entered
                         /\ r.ended = rec[s].ended
                         /\ r.stopping <=> rec[s].stopping \/ (Runs(s) /\ Live(s))
  <2> TAKE s \in Recs
  <2> DEFINE b == rec[s].stopping \/ (Runs(s) /\ Live(s))
  <2>1. rec[s] \in Active
    BY <1>1 DEF TypeOK
  <2>2. b \in BOOLEAN
    BY <2>1 DEF Active, Runs, Live
  <2> HIDE DEF b
  <2>3. [rec[s] EXCEPT !.stopping = b] \in Active
    BY <2>1, <2>2 DEF Active
  <2>4. LET r == [rec[s] EXCEPT !.stopping = b]
        IN /\ r.recorder = rec[s].recorder /\ r.chan = rec[s].chan
           /\ r.via = rec[s].via /\ r.entered = rec[s].entered
           /\ r.ended = rec[s].ended /\ r.stopping = b
    BY <2>1 DEF Active
  <2> QED
    BY <2>3, <2>4 DEF b
<1>5. rec' \in [Recs -> Active]
  BY <1>2, <1>4
<1>6. TypeOK'
  BY <1>1, <1>2, <1>3, <1>5 DEF TypeOK, RecordersInv, world, adapter, kept, work
<1>7. \A s \in Recs : /\ rec'[s].recorder = rec[s].recorder /\ rec'[s].chan = rec[s].chan
                      /\ rec'[s].via = rec[s].via /\ rec'[s].entered = rec[s].entered
                      /\ rec'[s].ended = rec[s].ended
                      /\ rec[s].stopping => rec'[s].stopping
                      /\ rec'[s].stopping =>
                           rec[s].stopping \/ (rec[s].entered /\ shutdown')
  BY <1>2, <1>4 DEF Live
<1> QED
  BY <1>2, <1>3, <1>6, <1>7, StillQueues, Together
     DEF world, adapter, kept, work, recordersVars

LEMMA LateLeaveKeeps ==
  ASSUME RecordingInv, NEW s \in Recs, LateLeave(s)
  PROVE  RecordingInv'
<1>1. /\ TypeOK /\ RecordersInv /\ ItemsTell /\ PlacesTell /\ LeavesTell
      /\ Once(Holding) /\ Once({"closeRow"}) /\ Once({"recover"}) /\ OnceRelogin
      /\ RecsTell /\ ConnsTell /\ EmptiesTell /\ RowsTold /\ RunningTells /\ OwedTells /\ OwnConn
  BY DEF RecordingInv
<1>2. /\ conn[s] = "hung" /\ conn' = [conn EXCEPT ![s] = "none"]
      /\ ear' = [ear EXCEPT ![s] = "off"]
      /\ UNCHANGED <<recordersVars, seen, human, check, runtime, armed, kept, work, allowed>>
  BY DEF LateLeave
<1>3. RecordersInv'
  BY <1>1, <1>2, StepInv
<1>4. at' \in [Recorders -> Place]
  BY <1>1 DEF TypeOK, Place, LateLeave, Left
<1>5. conn' \in [Recs -> {"none", "joining", "open", "hung"}]
      /\ ear' \in [Recs -> {"off", "hears", "gap"}]
  BY <1>1, <1>2 DEF TypeOK
<1>6. TypeOK'
  BY <1>1, <1>2, <1>3, <1>4, <1>5 DEF TypeOK, RecordersInv, runtime, kept, work
<1>7. \A t \in Recs : t # s => conn'[t] = conn[t]
  BY <1>1, <1>2 DEF TypeOK
<1>8. conn'[s] = "none"
  BY <1>1, <1>2 DEF TypeOK
<1>9. UNCHANGED <<run, rec, running, row, old, used, shutdown, snap, human, check, owed>>
  BY <1>2 DEF runtime, kept, work, recordersVars
<1>10. \A ops, t : Pending(ops, t)' <=> Pending(ops, t)
  BY <1>9 DEF Pending, Runner
<1>11. \A t : (Runs(t)' <=> Runs(t)) /\ (Unended(t)' <=> Unended(t))
  BY ZenonT(30), <1>9 DEF Runs, Unended
<1>12. ItemsTell'
  BY <1>1, <1>2, <1>7, <1>9, <1>11, Queues DEF ItemsTell, ItemTells, Opening
<1>13. PlacesTell'
  BY SMTT(30), <1>1, <1>9 DEF PlacesTell, PlaceTells
<1>14. LeavesTell'
  BY SMTT(30), <1>1, <1>7, <1>8, <1>9, Queues DEF LeavesTell, ItemsTell, ItemTells, Runs, LeaveTells
<1>15. Once(Holding)' /\ Once({"closeRow"})' /\ Once({"recover"})' /\ OnceRelogin'
  BY <1>1, <1>9 DEF Once, OnceRelogin
<1>16. RecsTell'
  BY <1>1, <1>2, <1>7, <1>9, <1>10, <1>11 DEF RecsTell, RecTells
<1>17. \A t \in Recs : HasConn(t)' => HasConn(t)
  BY <1>2, <1>7, <1>10 DEF HasConn
<1>18. ConnsTell'
  BY <1>1, <1>2, <1>9, <1>11, <1>17 DEF ConnsTell, ConnTells, recordersVars
<1>19. EmptiesTell'
  BY <1>1, <1>9 DEF EmptiesTell, EmptyTells, Live, Watched
<1>20. RowsTold'
  BY <1>1, <1>2, <1>9, <1>10, <1>11 DEF RowsTold, RowTells, Listing, NoStoreFaults
<1>21. RunningTells' /\ OwedTells' /\ OwnConn'
  BY <1>1, <1>9, <1>10, <1>17, OwnConnKept DEF RunningTells, OwedTells
<1> QED
  BY <1>3, <1>6, <1>12, <1>13, <1>14, <1>15, <1>16, <1>18, <1>19, <1>20, <1>21, Together

-----------------------------------------------------------------------------
(* A step that hands over nothing the invariant counts.                    *)
LEMMA PendingRecs ==
  ASSUME ItemsTell, NEW ops, NEW s, Pending(ops, s),
         ops \cap {"check", "judge", "look", "list", "idle", "kick"} = {}
  PROVE  s \in Recs
<1>1. PICK g \in Goroutines : \E i \in DOMAIN run[g] : run[g][i].op \in ops /\ run[g][i].s = s
  BY DEF Pending, Runner
<1>2. PICK i \in DOMAIN run[g] : run[g][i].op \in ops /\ run[g][i].s = s
  BY <1>1
<1>3. ItemTells(run[g][i])
  BY DEF ItemsTell
<1>4. run[g][i].op \notin {"check", "judge", "look", "list", "idle", "kick"}
  BY <1>2
<1> QED
  BY <1>2, <1>3, <1>4 DEF ItemTells

LEMMA PlainStep ==
  ASSUME RecordingInv, NEW w \in Goroutines, NEW q \in Seq(Item), Moved(w, q),
         \A t \in Recs : Kept(t),
         UNCHANGED <<recordersVars, running, old, used, conn>>, shutdown => shutdown',
         run[w] # <<>> => run[w][1].op \notin Counted \cup {"leave"},
         \A i \in DOMAIN q : q[i].op \notin Counted \cup {"leave"},
         allowed["storeFault"] = 0 => allowed'["storeFault"] = 0,
         TypeOK', PlacesTell', human' = human,
         \A x \in Item : (\E i \in DOMAIN q : q[i] = x) => ItemTells(x)',
         \A c : c \notin human /\ Watched(c) => Watched(c)', Listing => Listing'
  PROVE  RecordingInv'
<1>0. /\ TypeOK /\ RecordersInv /\ ItemsTell /\ PlacesTell /\ LeavesTell
      /\ Once(Holding) /\ Once({"closeRow"}) /\ Once({"recover"}) /\ OnceRelogin
  BY DEF RecordingInv
<1>x. PICK X : X = {}
  OBVIOUS
<1>1. /\ \A t \in Recs : t \notin X => Kept(t)
      /\ run[w] # <<>> /\ run[w][1].op \in Counted => run[w][1].s \in X
      /\ old' = old /\ used' \in {used, used + 1}
  OBVIOUS
<1>2. owed \subseteq owed'
  BY DEF recordersVars
<1>3. /\ \A t \in Recs : t \notin X => RecTells(t)'
      /\ \A x \in Item : Waits(x, w) /\ x.s \notin X => ItemTells(x)'
  BY <1>1, <1>2, UntouchedRecs
<1>4. RecsTell' /\ ItemsTell'
  BY <1>0, <1>x, <1>3, ItemsMoved DEF RecsTell
<1>5. RowsTold'
  <2>1. \A t \in Recs : t \notin X => RowTells(t)'
    BY <1>1, UntouchedRows
  <2> QED
    BY <1>x, <2>1 DEF RowsTold
<1>6. EmptiesTell'
  <2>1. \A t \in Recs : t \notin X => EmptyTells(t)'
    BY <1>1, UntouchedEmpties
  <2> QED
    BY <1>x, <2>1 DEF EmptiesTell
<1>7. \A t \in Recs : HasConn(t)' => HasConn(t) /\ (Runs(t)' <=> Runs(t))
  BY <1>0, PendingBack DEF HasConn, Kept
<1>8. /\ OnceRelogin' /\ OwedTells' /\ RunningTells' /\ OwnConn' /\ ConnsTell'
      /\ RecordersInv'
  BY <1>7, Ordinary DEF Kept, Counted
<1>9. Once(Holding)' /\ Once({"closeRow"})' /\ Once({"recover"})'
  BY <1>0, OnceMoved DEF Counted
<1>10. LeavesTell'
  BY <1>0, PendingRecs, LeavesMoved DEF Kept, Counted, Holding, Closing
<1> QED
  BY <1>4, <1>5, <1>6, <1>8, <1>9, <1>10, Together

LEMMA NoMore == <<>> \in Seq(Item) /\ DOMAIN <<>> = {} /\ Len(<<>>) = 0
  OBVIOUS

LEMMA OneItem ==
  ASSUME NEW x \in Item
  PROVE  <<x>> \in Seq(Item) /\ DOMAIN <<x>> = {1} /\ Len(<<x>>) = 1 /\ <<x>>[1] = x
OBVIOUS

LEMMA ItemOf ==
  ASSUME NEW s \in Nat, NEW op \in Starts \cup Stops \cup Cuts \cup Recovers
  PROVE  Do(op, s) \in Item /\ Do(op, s).op = op /\ Do(op, s).s = s
BY DEF Do, Item

(* The first item of a goroutine that is at op.                            *)
LEMMA AtHead ==
  ASSUME RecordingInv, NEW w \in Goroutines, NEW op, At(w, op)
  PROVE  /\ run[w] # <<>> /\ run[w][1] \in Item /\ run[w][1].op = op
         /\ Rec(w) = run[w][1].s /\ Rec(w) \in Nat
         /\ Head(run[w]) = run[w][1]
         /\ ItemTells(run[w][1]) /\ PlaceTells(w, 1) /\ LeaveTells(w, 1)
         /\ 1 \in DOMAIN run[w]
         /\ \A g \in Goroutines : \A i \in DOMAIN run[g] : ItemTells(run[g][i])
<1>1. TypeOK /\ ItemsTell /\ PlacesTell /\ LeavesTell
  BY DEF RecordingInv
<1>2. run[w] # <<>> /\ Head(run[w]).op = op
  BY DEF At
<1>3. 1 \in DOMAIN run[w] /\ Head(run[w]) = run[w][1] /\ run[w][1] \in Item
  BY <1>1, <1>2, Queues
<1>4. run[w][1].s \in Nat
  BY <1>3 DEF Item
<1> QED
  BY <1>1, <1>2, <1>3, <1>4 DEF Rec, ItemsTell, PlacesTell, LeavesTell

-----------------------------------------------------------------------------
(* A section that hands over nothing the invariant counts, and hands on    *)
(* nothing but a kick.                                                     *)
LEMMA PlainSection ==
  ASSUME RecordingInv, NEW w \in Goroutines, NEW q \in Seq(Item), run[w] # <<>>, Goes(w, q),
         run[w][1].op \in {"receive", "capture", "editNotice", "removeNotice", "idle", "kick"},
         \/ q = <<>>
         \/ \E r \in Recorders : q = <<Do("kick", r)>> /\ w = Recovery,
         UNCHANGED <<recordersVars, running, old, used, conn, human, check, snap, shutdown>>,
         \A t \in Recs : Kept(t), TypeOK',
         allowed["storeFault"] = 0 => allowed'["storeFault"] = 0
  PROVE  RecordingInv'
<1>1. TypeOK /\ ItemsTell /\ PlacesTell
  BY DEF RecordingInv
<1>2. Moved(w, q)
  BY <1>1, GoesMoves
<1>3. Recorders \subseteq Nat
  BY RecordersAssumption
<1>4. \A i \in DOMAIN q : \E r \in Recorders : q[i] = Do("kick", r) /\ i = 1 /\ w = Recovery
  BY NoMore
<1>5. \A i \in DOMAIN q : PlaceTells(w, i)'
  BY <1>1, <1>2, <1>4, MovedNew DEF Do, PlaceTells, Recovers
<1>6. PlacesTell'
  BY <1>1, <1>2, <1>4, <1>5, PlacesMoved DEF Do
<1>7. \A c : Watched(c) => Watched(c)'
  BY <1>1, <1>2, WatchedOn
<1>8. Listing => Listing'
  BY <1>1, <1>2, ListingOn
<1>9. \A x \in Item : (\E i \in DOMAIN q : q[i] = x) => ItemTells(x)'
  BY <1>4 DEF ItemTells, Do, Opening, Closing
<1>10. run[w][1].op \notin Counted \cup {"leave"}
  BY DEF Counted, Holding, Closing
<1>11. \A i \in DOMAIN q : q[i].op \notin Counted \cup {"leave"}
  BY <1>4 DEF Do, Counted, Holding, Closing
<1> QED
  BY <1>2, <1>6, <1>7, <1>8, <1>9, <1>10, <1>11, PlainStep

LEMMA ReceiveKeeps ==
  ASSUME RecordingInv, NEW w \in Goroutines, Receive(w)
  PROVE  RecordingInv'
<1>1. TypeOK
  BY DEF RecordingInv
<1>2. /\ run[w] # <<>> /\ run[w][1].op = "receive" /\ ItemTells(run[w][1])
  BY AtHead DEF Receive
<1>3. Goes(w, <<>>)
  BY DEF Receive
<1>4. Moved(w, <<>>)
  BY <1>1, <1>2, <1>3, GoesMoves, NoMore
<1>5. TypeOK'
  BY <1>1, <1>4 DEF TypeOK, Receive, Moved, world, runtime, kept, RecordersTypeOK, recordersVars
<1>6. \A t \in Recs : Kept(t)
  BY DEF Receive, Kept, Runs, runtime, kept
<1>7. UNCHANGED <<recordersVars, running, old, used, conn, human, check, snap, shutdown, allowed>>
  BY DEF Receive, runtime, kept, world
<1> QED
  BY <1>2, <1>3, <1>5, <1>6, <1>7, NoMore, PlainSection

LEMMA CaptureKeeps ==
  ASSUME RecordingInv, NEW w \in Goroutines, Capture(w)
  PROVE  RecordingInv'
<1>1. TypeOK
  BY DEF RecordingInv
<1>2. /\ run[w] # <<>> /\ run[w][1].op = "capture" /\ ItemTells(run[w][1])
      /\ Rec(w) = run[w][1].s
  BY AtHead DEF Capture
<1>3. Rec(w) \in Recs
  BY <1>2 DEF ItemTells
<1>4. Goes(w, <<>>)
  BY DEF Capture
<1>5. Moved(w, <<>>)
  BY <1>1, <1>2, <1>4, GoesMoves, NoMore
<1>6. [rec[Rec(w)] EXCEPT !.gap = NoGap] \in Active
  <2>1. rec[Rec(w)] \in Active
    BY <1>1, <1>3 DEF TypeOK
  <2>2. NoGap \in Nat
    BY RecordingAssumption
  <2> QED
    BY <2>1, <2>2 DEF Active
<1>7. rec' = [rec EXCEPT ![Rec(w)] = [rec[Rec(w)] EXCEPT !.gap = NoGap]]
  BY DEF Capture
<1>8. rec' \in [Recs -> Active]
  BY <1>1, <1>6, <1>7 DEF TypeOK
<1>9. TypeOK'
  BY <1>1, <1>5, <1>8 DEF TypeOK, Capture, Moved, world, kept, RecordersTypeOK, recordersVars
<1>10. \A t \in Recs : Kept(t)
  BY <1>1, <1>7 DEF TypeOK, Capture, Kept, Runs, kept, Active
<1>11. UNCHANGED <<recordersVars, running, old, used, conn, human, check, snap, shutdown, allowed>>
  BY DEF Capture, kept, world
<1> QED
  BY <1>2, <1>4, <1>9, <1>10, <1>11, NoMore, PlainSection

LEMMA EditNoticeKeeps ==
  ASSUME RecordingInv, NEW w \in Goroutines, EditNotice(w)
  PROVE  RecordingInv'
<1>1. TypeOK
  BY DEF RecordingInv
<1>2. run[w] # <<>> /\ run[w][1].op \in {"editNotice", "removeNotice"}
  BY AtHead DEF EditNotice
<1>3. Goes(w, <<>>)
  BY DEF EditNotice
<1>4. Moved(w, <<>>)
  BY <1>1, <1>2, <1>3, GoesMoves, NoMore
<1>5. /\ allowed' \in [Kinds -> Nat]
      /\ allowed["storeFault"] = 0 => allowed'["storeFault"] = 0
  BY <1>1, SpendKeeps DEF EditNotice, Kinds, TypeOK
<1>6. notice' \in [Recs -> {"none", "on", "off"}]
  BY <1>1 DEF EditNotice, TypeOK
<1>7. TypeOK'
  BY <1>1, <1>4, <1>5, <1>6
     DEF TypeOK, EditNotice, Moved, world, runtime, adapter, RecordersTypeOK, recordersVars
<1>8. \A t \in Recs : Kept(t)
  BY DEF EditNotice, Kept, Runs, runtime, adapter
<1>9. UNCHANGED <<recordersVars, running, old, used, conn, human, check, snap, shutdown>>
  BY DEF EditNotice, runtime, adapter, world
<1> QED
  BY <1>2, <1>3, <1>5, <1>7, <1>8, <1>9, NoMore, PlainSection

LEMMA LookAtRecorderKeeps ==
  ASSUME RecordingInv, LookAtRecorder
  PROVE  RecordingInv'
<1>1. TypeOK /\ PlacesTell /\ Recovery \in Goroutines
  BY DEF RecordingInv, Goroutines
<1>2. /\ run[Recovery] # <<>> /\ run[Recovery][1].op = "idle" /\ ItemTells(run[Recovery][1])
      /\ Rec(Recovery) = run[Recovery][1].s
  BY <1>1, AtHead DEF LookAtRecorder
<1>3. Rec(Recovery) \in Recorders
  BY <1>2 DEF ItemTells
<1>4. PICK q : Goes(Recovery, q) /\ q \in {<<>>, <<Do("kick", Rec(Recovery))>>}
  BY DEF LookAtRecorder
<1>5. Do("kick", Rec(Recovery)) \in Item
  BY <1>3, RecordersAssumption, ItemOf DEF Recovers
<1>6. q \in Seq(Item)
  BY <1>4, <1>5, NoMore, OneItem
<1>7. Moved(Recovery, q)
  BY <1>1, <1>2, <1>4, <1>6, GoesMoves
<1>8. TypeOK'
  BY <1>1, <1>7 DEF TypeOK, LookAtRecorder, Moved, world, runtime, adapter, kept,
                    RecordersTypeOK, recordersVars
<1>9. \A t \in Recs : Kept(t)
  BY DEF LookAtRecorder, Kept, Runs, runtime, adapter, kept
<1>10. UNCHANGED <<recordersVars, running, old, used, conn, human, check, snap, shutdown, allowed>>
  BY DEF LookAtRecorder, runtime, adapter, world, kept
<1>11. \/ q = <<>>
       \/ \E r \in Recorders : q = <<Do("kick", r)>> /\ Recovery = Recovery
  BY <1>3, <1>4
<1> QED
  BY <1>1, <1>2, <1>4, <1>6, <1>8, <1>9, <1>10, <1>11, PlainSection

LEMMA KickIdleKeeps ==
  ASSUME RecordingInv, KickIdle
  PROVE  RecordingInv'
<1>1. TypeOK /\ Recovery \in Goroutines
  BY DEF RecordingInv, Goroutines
<1>2. run[Recovery] # <<>> /\ run[Recovery][1].op = "kick"
  BY <1>1, AtHead DEF KickIdle
<1>3. Goes(Recovery, <<>>)
  BY DEF KickIdle
<1>4. Moved(Recovery, <<>>)
  BY <1>1, <1>2, <1>3, GoesMoves, NoMore
<1>5. /\ allowed' \in [Kinds -> Nat]
      /\ allowed["storeFault"] = 0 => allowed'["storeFault"] = 0
  BY <1>1, SpendKeeps DEF KickIdle, Kinds, TypeOK
<1>6. at' \in [Recorders -> Place]
  <2>1. [chan |-> Out, login |-> 0] \in Place
    BY DEF Place
  <2>2. \/ at' = at
        \/ at' = [at EXCEPT ![Rec(Recovery)] = [chan |-> Out, login |-> 0]]
    BY DEF KickIdle
  <2> QED
    BY <1>1, <2>1, <2>2 DEF TypeOK
<1>7. TypeOK'
  BY <1>1, <1>4, <1>5, <1>6
     DEF TypeOK, KickIdle, Moved, runtime, adapter, kept, RecordersTypeOK, recordersVars
<1>8. \A t \in Recs : Kept(t)
  BY DEF KickIdle, Kept, Runs, runtime, adapter, kept
<1>9. UNCHANGED <<recordersVars, running, old, used, conn, human, check, snap, shutdown>>
  BY DEF KickIdle, runtime, adapter, kept
<1> QED
  BY <1>1, <1>2, <1>3, <1>5, <1>7, <1>8, <1>9, NoMore, PlainSection

-----------------------------------------------------------------------------
(* A check begins: in a start, and on a goroutine of its own.              *)
LEMMA SnapshotTaken ==
  ASSUME TypeOK, NEW w \in Goroutines, Snapped(w)
  PROVE  /\ snap' \in [Goroutines -> Snapshot]
         /\ snap'[w].human = human /\ snap'[w].seen = seen
         /\ \A g \in Goroutines \ {w} : snap'[g] = snap[g]
  BY DEF TypeOK, Snapshot, Snapped

LEMMA JudgeNext ==
  ASSUME TypeOK, NEW w \in Goroutines, NEW q, q = <<Do("judge", 0)>>, Moved(w, q),
         Len(run[w]) <= 1, PlacesTell
  PROVE  /\ q \in Seq(Item) /\ \A i \in DOMAIN q : q[i] = Do("judge", 0)
         /\ 1 \in DOMAIN run'[w] /\ run'[w][1] = Do("judge", 0)
         /\ PlacesTell' /\ ItemTells(Do("judge", 0))'
<1>1. Do("judge", 0) \in Item
  BY ItemOf DEF Stops
<1>2. q \in Seq(Item) /\ DOMAIN q = {1} /\ q[1] = Do("judge", 0)
  BY <1>1, OneItem
<1>3. run'[w] = q
  BY <1>2, Whole
<1>4. \A i \in DOMAIN q : PlaceTells(w, i)'
  BY <1>2, <1>3 DEF Do, PlaceTells, Recovers
<1>5. PlacesTell'
  BY <1>2, <1>4, PlacesFresh
<1>6. ItemTells(Do("judge", 0))'
  BY DEF ItemTells, Do, Opening, Closing
<1> QED
  BY <1>2, <1>3, <1>5, <1>6

LEMMA CheckKeeps ==
  ASSUME RecordingInv, NEW w \in Goroutines, Check(w)
  PROVE  RecordingInv'
<1> DEFINE q == <<Do("judge", 0)>>
<1>1. TypeOK /\ PlacesTell
  BY DEF RecordingInv
<1>2. run[w] # <<>> /\ run[w][1].op = "check" /\ ItemTells(run[w][1])
  BY AtHead DEF Check
<1>3. Goes(w, q) /\ Snapped(w)
  BY DEF Check
<1>4. q \in Seq(Item)
  BY ItemOf, OneItem DEF Stops
<1>5. Moved(w, q) /\ Len(run[w]) <= 1
  BY <1>1, <1>2, <1>3, <1>4, GoesMoves, Popped
<1>6. /\ \A i \in DOMAIN q : q[i] = Do("judge", 0)
      /\ 1 \in DOMAIN run'[w] /\ run'[w][1] = Do("judge", 0)
      /\ PlacesTell' /\ ItemTells(Do("judge", 0))'
  BY <1>1, <1>5, JudgeNext
<1>7. snap' \in [Goroutines -> Snapshot] /\ snap'[w].human = human
  BY <1>1, <1>3, SnapshotTaken
<1> HIDE DEF q
<1>8. TypeOK'
  BY <1>1, <1>5, <1>7 DEF TypeOK, Check, Moved, world, runtime, adapter, kept,
                          RecordersTypeOK, recordersVars
<1>9. \A t \in Recs : Kept(t)
  BY DEF Check, Kept, Runs, runtime, adapter, kept
<1>10. \A c : c \notin human /\ Watched(c) => Watched(c)'
  BY <1>6, <1>7 DEF Watched, Do
<1>11. Listing => Listing'
  BY <1>1, <1>2, <1>4, <1>5, ListingOn
<1>12. \A x \in Item : (\E i \in DOMAIN q : q[i] = x) => ItemTells(x)'
  BY <1>6
<1>13. run[w][1].op \notin Counted \cup {"leave"}
  BY <1>2 DEF Counted, Holding, Closing
<1>14. \A i \in DOMAIN q : q[i].op \notin Counted \cup {"leave"}
  BY <1>6 DEF Do, Counted, Holding, Closing
<1>15. UNCHANGED <<recordersVars, running, old, used, conn, human, shutdown, allowed>>
  BY DEF Check, world, runtime, adapter, kept
<1> QED
  BY <1>4, <1>5, <1>6, <1>8, <1>9, <1>10, <1>11, <1>12, <1>13, <1>14, <1>15, PlainStep

LEMMA CheckEventKeeps ==
  ASSUME RecordingInv, NEW w \in Goroutines, CheckEvent(w)
  PROVE  RecordingInv'
<1> DEFINE q == <<Do("judge", 0)>>
<1>1. TypeOK /\ PlacesTell
  BY DEF RecordingInv
<1>2. Begins(w, q) /\ Snapped(w)
  BY DEF CheckEvent
<1>3. q \in Seq(Item)
  BY ItemOf, OneItem DEF Stops
<1>4. Moved(w, q) /\ run[w] = <<>>
  BY <1>1, <1>2, <1>3, BeginsMoves
<1>5. Len(run[w]) <= 1
  BY <1>4
<1>6. /\ \A i \in DOMAIN q : q[i] = Do("judge", 0)
      /\ 1 \in DOMAIN run'[w] /\ run'[w][1] = Do("judge", 0)
      /\ PlacesTell' /\ ItemTells(Do("judge", 0))'
  BY <1>1, <1>4, <1>5, JudgeNext
<1>7. snap' \in [Goroutines -> Snapshot] /\ snap'[w].human = human
  BY <1>1, <1>2, SnapshotTaken
<1> HIDE DEF q
<1>8. TypeOK'
  BY <1>1, <1>4, <1>7 DEF TypeOK, CheckEvent, Moved, runtime, adapter, kept,
                          RecordersTypeOK, recordersVars
<1>9. \A t \in Recs : Kept(t)
  BY DEF CheckEvent, Kept, Runs, runtime, adapter, kept
<1>10. \A c : c \notin human /\ Watched(c) => Watched(c)'
  BY <1>6, <1>7 DEF Watched, Do
<1>11. Listing => Listing'
  BY <1>1, <1>3, <1>4, ListingOn
<1>12. \A x \in Item : (\E i \in DOMAIN q : q[i] = x) => ItemTells(x)'
  BY <1>6
<1>13. \A i \in DOMAIN q : q[i].op \notin Counted \cup {"leave"}
  BY <1>6 DEF Do, Counted, Holding, Closing
<1>14. UNCHANGED <<recordersVars, running, old, used, conn, human, shutdown, allowed>>
  BY DEF CheckEvent, runtime, adapter, kept
<1> QED
  BY <1>3, <1>4, <1>6, <1>8, <1>9, <1>10, <1>11, <1>12, <1>13, <1>14, PlainStep

(* The limit of a gap is due.                                              *)
LEMMA LimitFiresKeeps ==
  ASSUME RecordingInv, NEW w \in Goroutines, NEW a \in armed, LimitFires(w, a)
  PROVE  RecordingInv'
<1> DEFINE x == [op |-> "gapLimit", s |-> a[1], k |-> a[2]]
           q == <<x>>
<1>1. TypeOK /\ PlacesTell
  BY DEF RecordingInv
<1>2. Begins(w, q)
  BY DEF LimitFires
<1>3. a[1] \in Recs /\ a[2] \in Nat
  BY <1>1 DEF TypeOK
<1>4. a[1] \in Nat
  BY <1>3, RecordingAssumption
<1>5. x \in Item
  BY <1>3, <1>4 DEF Item, Cuts
<1>6. q \in Seq(Item) /\ DOMAIN q = {1} /\ Len(q) = 1 /\ q[1] = x
  BY <1>5, OneItem
<1>7. x.op = "gapLimit" /\ x.s = a[1]
  OBVIOUS
<1> HIDE DEF x
<1> HIDE DEF q
<1>8. Moved(w, q) /\ run[w] = <<>>
  BY <1>1, <1>2, <1>6, BeginsMoves
<1>9. Len(run[w]) <= 1
  BY <1>8
<1>10. run'[w] = q
  BY <1>1, <1>6, <1>8, <1>9, Whole
<1>11. \A i \in DOMAIN q : PlaceTells(w, i)'
  BY <1>6, <1>7, <1>10 DEF PlaceTells, Recovers
<1>12. PlacesTell'
  BY <1>1, <1>6, <1>8, <1>9, <1>11, PlacesFresh
<1>13. TypeOK'
  BY <1>1, <1>8 DEF TypeOK, LimitFires, Moved, world, runtime, kept,
                    RecordersTypeOK, recordersVars
<1>14. \A t \in Recs : Kept(t)
  BY DEF LimitFires, Kept, Runs, runtime, adapter, kept
<1>15. UNCHANGED <<recordersVars, running, old, used, conn, human, check, snap, shutdown, allowed>>
  BY DEF LimitFires, runtime, kept, world
<1>16. \A c : Watched(c) => Watched(c)'
  BY <1>1, <1>6, <1>8, <1>15, WatchedOn
<1>17. Listing => Listing'
  BY <1>1, <1>6, <1>8, ListingOn
<1>18. ItemTells(x)'
  BY <1>3, <1>7 DEF ItemTells, Opening, Closing
<1>19. \A y \in Item : (\E i \in DOMAIN q : q[i] = y) => ItemTells(y)'
  BY <1>6, <1>18
<1>20. \A i \in DOMAIN q : q[i].op \notin Counted \cup {"leave"}
  BY <1>6, <1>7 DEF Counted, Holding, Closing
<1> QED
  BY <1>6, <1>8, <1>12, <1>13, <1>14, <1>15, <1>16, <1>17, <1>19, <1>20, PlainStep

-----------------------------------------------------------------------------
(* A section about the recordings in X: what it has to show of them.       *)
LEMMA Touched ==
  ASSUME RecordingInv, NEW w \in Goroutines, NEW q \in Seq(Item), Moved(w, q), NEW X,
         \A t \in Recs : t \notin X => Kept(t),
         run[w] # <<>> /\ run[w][1].op \in Counted => run[w][1].s \in X,
         old' = old, used' \in {used, used + 1}, shutdown' = shutdown, owed \subseteq owed',
         \A s \in Recs : s \in X => RecTells(s)' /\ EmptyTells(s)' /\ RowTells(s)',
         \A x \in Item : Waits(x, w) /\ ItemTells(x) /\ x.s \in X => ItemTells(x)',
         \A x \in Item : (\E i \in DOMAIN q : q[i] = x) => ItemTells(x)',
         human' = human, \A c : c \notin human /\ Watched(c) => Watched(c)',
         Listing => Listing', allowed["storeFault"] = 0 => allowed'["storeFault"] = 0
  PROVE  ItemsTell' /\ RecsTell' /\ EmptiesTell' /\ RowsTold'
<1>1. TypeOK /\ ItemsTell
  BY DEF RecordingInv
<1>2. /\ \A t \in Recs : t \notin X => RecTells(t)'
      /\ \A x \in Item : Waits(x, w) /\ x.s \notin X => ItemTells(x)'
  BY UntouchedRecs
<1>3. \A t \in Recs : t \notin X => RowTells(t)'
  BY UntouchedRows
<1>4. \A t \in Recs : t \notin X => EmptyTells(t)'
  BY UntouchedEmpties
<1>5. \A x \in Item : Waits(x, w) => ItemTells(x)'
  BY <1>1, <1>2 DEF Waits, ItemsTell
<1>6. ItemsTell'
  BY <1>1, <1>5, ItemsMoved
<1> QED
  BY <1>2, <1>3, <1>4, <1>6 DEF RecsTell, EmptiesTell, RowsTold

(* Items that say nothing of where their recording stands.                 *)
Heavy == Opening \cup Closing \cup {"leave", "capture", "closeRow", "recover"}

LEMMA LightKept ==
  ASSUME NEW x \in Item, ItemTells(x), x.op \notin Heavy,
         x.s \in Recs => rec'[x.s].recorder = rec[x.s].recorder, owed \subseteq owed'
  PROVE  ItemTells(x)'
BY DEF ItemTells, Heavy, Opening, Closing

(* While a start is under way nothing else waits that counts on it.        *)
LEMMA StartAlone ==
  ASSUME RecordingInv, NEW w \in Goroutines, run[w] # <<>>,
         run[w][1].op \in {"join", "joined", "notice", "row", "enter"},
         NEW x \in Item, Waits(x, w), x.s = run[w][1].s
  PROVE  x.op \notin Heavy
<1>1. /\ TypeOK /\ ItemsTell /\ PlacesTell /\ LeavesTell /\ Once(Holding) /\ RecsTell
  BY DEF RecordingInv
<1> DEFINE s == run[w][1].s
<1>2. PICK g \in Goroutines : \E i \in DOMAIN run[g] : run[g][i] = x /\ ~(g = w /\ i = 1)
  BY DEF Waits
<1>3. PICK i \in DOMAIN run[g] : run[g][i] = x /\ ~(g = w /\ i = 1)
  BY <1>2
<1>4. 1 \in DOMAIN run[w] /\ run[w][1] \in Item
  BY <1>1, Queues
<1>5. ItemTells(run[w][1]) /\ ItemTells(x)
  BY <1>1, <1>3, <1>4 DEF ItemsTell
<1>6. run[w][1].op \in Opening \cap Holding
  BY DEF Opening, Holding
<1>7. s \in Recs /\ Runs(s) /\ ~rec[s].entered
  BY <1>5, <1>6 DEF ItemTells, Opening
<1>8. RecTells(s)
  BY <1>1, <1>7 DEF RecsTell
<1>9. \A j \in DOMAIN run[g] : run[g][j].op \in Holding /\ run[g][j].s = s => g = w /\ j = 1
  BY <1>1, <1>4, <1>6 DEF Once
<1>10. x.op \notin Holding
  BY <1>3, <1>9
<1>11. x.op # "receive"
  <2> SUFFICES ASSUME x.op = "receive" PROVE FALSE
    OBVIOUS
  <2>1. i = 1 /\ Len(run[g]) = 3 /\ run[g][2] = Do("enter", s)
    BY <1>1, <1>3 DEF PlacesTell, PlaceTells
  <2>2. 2 \in DOMAIN run[g] /\ run[g][2].op = "enter" /\ run[g][2].s = s
    BY <1>1, <2>1, Queues DEF Do
  <2> QED
    BY <1>9, <2>2 DEF Holding
<1>12. x.op # "leave"
  BY SMTT(30), <1>1, <1>3, <1>7, <1>9, Queues DEF LeavesTell, LeaveTells, Holding
<1>13. x.op \notin {"capture", "closeRow"}
  BY Zenon, <1>5, <1>7, <1>8 DEF ItemTells, RecTells, Ends
<1>14. x.op # "recover"
  BY <1>5, <1>7, <1>8 DEF ItemTells, RecTells, Runs
<1> QED
  BY <1>10, <1>11, <1>12, <1>13, <1>14 DEF Heavy, Holding, Opening

(* Nor while a recording that goes on has no stop under way.               *)
LEMMA LiveAlone ==
  ASSUME RecordingInv, NEW w \in Goroutines, NEW x \in Item, Waits(x, w), x.s \in Recs,
         Live(x.s)
  PROVE  x.op \notin Heavy
<1>1. ItemTells(x) /\ RecTells(x.s)
  BY DEF RecordingInv, ItemsTell, RecsTell, Waits
<1>2. Unended(x.s) /\ rec[x.s].entered
  BY <1>1 DEF RecTells, Live, Unended
<1>3. x.op \notin Opening
  BY <1>1, <1>2 DEF ItemTells
<1>4. x.op \notin Closing \cup {"leave"}
  BY <1>1, <1>2 DEF ItemTells
<1>5. x.op \notin {"capture", "closeRow"}
  BY <1>1, <1>2 DEF ItemTells, Unended, Ends
<1>6. x.op # "recover"
  BY <1>1, <1>2 DEF ItemTells, RecTells
<1> QED
  BY <1>3, <1>4, <1>5, <1>6 DEF Heavy

(* The one item that holds recording s is the first of w.                  *)
LEMMA HolderAlone ==
  ASSUME RecordingInv, NEW w \in Goroutines, run[w] # <<>>, run[w][1].op \in Holding,
         NEW g \in Goroutines, NEW i \in DOMAIN run[g], ~(g = w /\ i = 1),
         run[g][i].s = run[w][1].s
  PROVE  /\ run[g][i].op \notin Opening \cup Closing
         /\ run[g][i].op = "leave" => ~Runs(run[w][1].s)
<1>1. TypeOK /\ PlacesTell /\ LeavesTell /\ Once(Holding)
  BY DEF RecordingInv
<1>2. 1 \in DOMAIN run[w]
  BY <1>1, Queues
<1>3. \A j \in DOMAIN run[g] :
        run[g][j].op \in Holding /\ run[g][j].s = run[w][1].s => g = w /\ j = 1
  BY <1>1, <1>2 DEF Once
<1>4. run[g][i].op \notin Holding
  BY <1>3
<1>5. run[g][i].op # "receive"
  <2> SUFFICES ASSUME run[g][i].op = "receive" PROVE FALSE
    OBVIOUS
  <2>1. i = 1 /\ Len(run[g]) = 3 /\ run[g][2] = Do("enter", run[g][i].s)
    BY <1>1 DEF PlacesTell, PlaceTells
  <2>2. 2 \in DOMAIN run[g] /\ run[g][2].op = "enter" /\ run[g][2].s = run[w][1].s
    BY <1>1, <2>1, Queues DEF Do
  <2> QED
    BY <1>3, <2>2 DEF Holding
<1>6. run[g][i].op = "leave" => ~Runs(run[w][1].s)
  BY SMTT(30), <1>1, <1>3, Queues DEF LeavesTell, LeaveTells, Holding
<1> QED
  BY <1>4, <1>5, <1>6 DEF Holding, Opening

(* A recorder runs one recording at a time.                                *)
LEMMA RunsAlone ==
  ASSUME TypeOK, RunningTells, NEW s, NEW t, Runs(s), Runs(t), rec[s].recorder = rec[t].recorder
  PROVE  s = t
BY DEF Runs

(* A recorder is freed of the recording it runs.                           *)
LEMMA FreedOf ==
  ASSUME TypeOK, RunningTells, NEW s \in Recs, Runs(s), rec[s].recorder \in Recorders,
         Freed(s), NEW t \in Recs, t # s, rec'[t].recorder = rec[t].recorder
  PROVE  Runs(t)' <=> Runs(t)
<1>1. running' = [running EXCEPT ![rec[s].recorder] = NoRec]
  BY DEF Freed
<1>2. rec[t].recorder \in Recorders \cup {NoRecorder}
  BY DEF TypeOK, Active
<1>3. NoRec # t
  BY RecordingAssumption
<1>4. rec[t].recorder # NoRecorder /\ rec[t].recorder # rec[s].recorder
        => running'[rec[t].recorder] = running[rec[t].recorder]
  BY <1>1, <1>2 DEF TypeOK
<1>5. rec[t].recorder = rec[s].recorder
        => running'[rec[t].recorder] = NoRec /\ running[rec[t].recorder] = s
  BY <1>1 DEF TypeOK, Runs
<1> QED
  BY <1>3, <1>4, <1>5 DEF Runs

LEMMA FreedTypes ==
  ASSUME TypeOK, RunningTells, NEW s \in Recs, Freed(s), rec[s].recorder \in Recorders
  PROVE  /\ running' \in [Recorders -> Recs \cup {NoRec}]
         /\ running'[rec[s].recorder] = NoRec
         /\ \A r \in Recorders : running'[r] \in {running[r], NoRec}
BY DEF TypeOK, Freed

-----------------------------------------------------------------------------
(* A section of a start that is not over.                                  *)
LEMMA StartOf ==
  ASSUME RecordingInv, NEW w \in Goroutines, NEW op \in {"join", "joined", "notice", "row"},
         At(w, op), NEW s, s = Rec(w)
  PROVE  /\ run[w] # <<>> /\ run[w][1].op = op /\ run[w][1].s = s /\ Len(run[w]) = 1
         /\ s \in Recs /\ rec[s] \in Active /\ rec[s].recorder \in Recorders
         /\ Runs(s) /\ ~rec[s].entered /\ ~rec[s].stopping /\ rec[s].ended = "no"
         /\ running[rec[s].recorder] = s
         /\ row[s] = "none" /\ s \notin old /\ s <= used /\ RecTells(s)
         /\ conn[s] = IF op = "join" THEN "none"
                      ELSE IF op = "joined" THEN "joining" ELSE "open"
         /\ ~Pending({"leave"}, s)
<1>1. TypeOK /\ PlacesTell /\ RecsTell /\ RunningTells
  BY DEF RecordingInv
<1>2. /\ run[w] # <<>> /\ run[w][1].op = op /\ run[w][1].s = s /\ ItemTells(run[w][1])
  BY AtHead
<1>3. Len(run[w]) = 1
  BY <1>1, <1>2, Popped DEF Alone
<1>4. /\ s \in Recs /\ Runs(s) /\ ~rec[s].entered /\ row[s] = "none"
      /\ conn[s] = IF op = "join" THEN "none"
                   ELSE IF op = "joined" THEN "joining" ELSE "open"
  BY <1>2 DEF ItemTells, Opening
<1>5. RecTells(s) /\ rec[s] \in Active /\ s \in Nat /\ used \in Nat
  BY <1>1, <1>4, RecordingAssumption DEF RecsTell, TypeOK
<1>6. rec[s].recorder \in Recorders /\ running[rec[s].recorder] = s
  BY <1>4, <1>5 DEF Active, Runs
<1>7. rec[s].ended = "no" /\ ~rec[s].stopping
  BY <1>4, <1>5 DEF RecTells
<1>8. s \notin old /\ s <= used
  BY <1>4, <1>5 DEF RecTells, Runs
<1>9. ~Pending({"leave"}, s)
  BY <1>2, <1>4, HolderAlone DEF Pending, Runner, Holding
<1> QED
  BY <1>2, <1>3, <1>4, <1>5, <1>6, <1>7, <1>8, <1>9

(* What such a section hands on.                                           *)
LEMMA StartGoesOn ==
  ASSUME RecordingInv, NEW w \in Goroutines, NEW op \in {"join", "joined", "notice", "row"},
         At(w, op), NEW s, s = Rec(w), NEW q \in Seq(Item), Goes(w, q),
         \A t \in Recs : t # s => Kept(t),
         UNCHANGED <<owed, old, used, shutdown, human, check, snap>>,
         allowed["storeFault"] = 0 => allowed'["storeFault"] = 0,
         /\ rec'[s].recorder = rec[s].recorder /\ rec'[s].entered = rec[s].entered
         /\ rec'[s].ended = rec[s].ended /\ rec'[s].stopping = rec[s].stopping,
         Runs(s)' => \E i \in DOMAIN q : q[i].op \in Holding /\ q[i].s = s,
         RowTells(s)',
         \A i \in DOMAIN q : q[i].op \notin {"closeRow", "recover"},
         \A i, j \in DOMAIN q : q[i].op \in Holding /\ q[j].op \in Holding => i = j,
         \A i \in DOMAIN q : q[i].op \in Holding => q[i].s = s,
         \A x \in Item : (\E i \in DOMAIN q : q[i] = x) => ItemTells(x)',
         \A i \in DOMAIN q : q[i].op = "release" =>
           \E j \in 1 .. i - 1 : q[j].op = "leave" /\ q[j].s = q[i].s,
         \A i \in DOMAIN q : \A t \in Nat : q[i].op = "leave" /\ t = q[i].s /\ Runs(t)' =>
           \E j \in i + 1 .. Len(q) : q[j].op \in Closing /\ q[j].s = t
  PROVE  /\ ItemsTell' /\ LeavesTell' /\ RecsTell' /\ EmptiesTell' /\ RowsTold'
         /\ Once(Holding)' /\ Once({"closeRow"})' /\ Once({"recover"})'
<1>1. /\ TypeOK /\ PlacesTell /\ LeavesTell /\ ItemsTell
      /\ Once(Holding) /\ Once({"closeRow"}) /\ Once({"recover"})
  BY DEF RecordingInv
<1>2. /\ run[w] # <<>> /\ run[w][1].op = op /\ run[w][1].s = s
      /\ s \in Recs /\ rec[s].recorder \in Recorders /\ Runs(s)
      /\ ~rec[s].entered /\ ~rec[s].stopping /\ rec[s].ended = "no" /\ s \notin old /\ s <= used
      /\ ~Pending({"leave"}, s)
  BY StartOf
<1>3. Moved(w, q)
  BY <1>1, <1>2, GoesMoves
<1>4. run[w][1].op \in Holding /\ 1 \in DOMAIN run[w]
  BY <1>1, <1>2, Queues DEF Holding
<1>5. \A g \in Goroutines : \A i \in DOMAIN run[g] :
        run[g][i].op \in Holding /\ run[g][i].s = s => g = w /\ i = 1
  BY <1>1, <1>2, <1>4 DEF Once
<1>6. RecTells(s)' /\ EmptyTells(s)'
  <2>1. Runs(s)' => Pending(Holding, s)'
    BY <1>1, <1>3, PendingNew
  <2>2. s \in Nat /\ used \in Nat
    BY <1>1, <1>2, RecordingAssumption DEF TypeOK
  <2> QED
    BY <1>2, <2>1, <2>2 DEF RecTells, EmptyTells, Live, Unended
<1>7. \A x \in Item : Waits(x, w) /\ ItemTells(x) /\ x.s = s => ItemTells(x)'
  BY <1>2, StartAlone, LightKept
<1>8. \A c : Watched(c) => Watched(c)'
  BY <1>1, <1>2, <1>3, WatchedOn
<1>9. Listing => Listing'
  BY <1>1, <1>2, <1>3, ListingOn
<1>10. ItemsTell' /\ RecsTell' /\ EmptiesTell' /\ RowsTold'
  <2>1. PICK X : X = {s}
    OBVIOUS
  <2>2. \A t \in Recs : t \notin X => Kept(t)
    BY <2>1
  <2>3. \A t \in Recs : t \in X => RecTells(t)' /\ EmptyTells(t)' /\ RowTells(t)'
    BY <1>6, <2>1
  <2>4. \A x \in Item : Waits(x, w) /\ ItemTells(x) /\ x.s \in X => ItemTells(x)'
    BY <1>7, <2>1
  <2>5. run[w] # <<>> /\ run[w][1].op \in Counted => run[w][1].s \in X
    BY <1>2, <2>1
  <2> QED
    BY <1>3, <1>8, <1>9, <2>2, <2>3, <2>4, <2>5, Touched
<1>11. Once(Holding)'
  BY <1>1, <1>3, <1>5, OnceMoved
<1>12. Once({"closeRow"})'
  BY <1>1, <1>3, OnceMoved
<1>13. Once({"recover"})'
  BY <1>1, <1>3, OnceMoved
<1>14. LeavesTell'
  <2>1. \A t \in Nat : Pending({"release"}, t) /\ conn[t] = "none" => conn'[t] = "none"
    <3> SUFFICES ASSUME NEW t \in Nat, Pending({"release"}, t), conn[t] = "none"
                 PROVE  conn'[t] = "none"
      OBVIOUS
    <3>1. t \in Recs
      BY <1>1, PendingRecs
    <3>2. t # s
      BY <1>2, <1>5 DEF Pending, Runner, Holding, Closing
    <3> QED
      BY <3>1, <3>2 DEF Kept
  <2>2. \A t \in Nat : Pending({"leave"}, t) /\ Runs(t)' => Runs(t)
    BY <1>1, <1>2, PendingRecs DEF Kept
  <2> QED
    BY <1>1, <1>2, <1>3, <2>1, <2>2, LeavesMoved
<1> QED
  BY <1>10, <1>11, <1>12, <1>13, <1>14

LEMMA StartKeeps ==
  ASSUME RecordingInv, NEW w \in Goroutines, NEW op \in {"join", "joined", "notice", "row"},
         At(w, op), NEW s, s = Rec(w), NEW q \in Seq(Item), Goes(w, q),
         \A t \in Recs : t # s => Kept(t), rec' = rec, TypeOK', PlacesTell',
         UNCHANGED <<recordersVars, old, used, shutdown, human, check, snap>>,
         allowed["storeFault"] = 0 => allowed'["storeFault"] = 0,
         \A r \in Recorders : running'[r] \in {running[r], NoRec},
         conn'[s] # "none" => conn[s] # "none",
         q = <<>> => conn'[s] = "none" /\ ~Runs(s)',
         q # <<>> => Runs(s)',
         RowTells(s)',
         \A i \in DOMAIN q : q[i].op \notin {"closeRow", "recover", "relogin"},
         \A i, j \in DOMAIN q : q[i].op \in Holding /\ q[j].op \in Holding => i = j,
         \A i \in DOMAIN q : q[i].op \in Holding => q[i].s = s,
         q # <<>> => \E i \in DOMAIN q : q[i].op \in Holding,
         \A x \in Item : (\E i \in DOMAIN q : q[i] = x) => ItemTells(x)',
         \A i \in DOMAIN q : q[i].op = "release" =>
           \E j \in 1 .. i - 1 : q[j].op = "leave" /\ q[j].s = q[i].s,
         \A i \in DOMAIN q : q[i].op = "leave" =>
           /\ q[i].s = s /\ conn[s] # "none"
           /\ \E j \in i + 1 .. Len(q) : q[j].op \in Closing /\ q[j].s = s
  PROVE  RecordingInv'
<1>1. TypeOK
  BY DEF RecordingInv
<1>2. /\ run[w] # <<>> /\ run[w][1].op = op /\ run[w][1].s = s /\ s \in Recs /\ Runs(s)
  BY StartOf
<1>3. Moved(w, q)
  BY <1>1, <1>2, GoesMoves
<1>4. \A t \in Recs : HasConn(t)' => HasConn(t) /\ (Runs(t)' <=> Runs(t))
  BY <1>1, <1>2, <1>3, PendingBack, StartOf, NoMore DEF HasConn, Kept
<1>5. owed' = owed
  BY DEF recordersVars
<1>6. /\ ItemsTell' /\ LeavesTell' /\ RecsTell' /\ EmptiesTell' /\ RowsTold'
      /\ Once(Holding)' /\ Once({"closeRow"})' /\ Once({"recover"})'
  BY <1>5, StartGoesOn
<1>7. /\ OnceRelogin' /\ OwedTells' /\ RunningTells' /\ OwnConn' /\ ConnsTell'
      /\ RecordersInv'
  BY <1>2, <1>3, <1>4, Ordinary
<1> QED
  BY <1>6, <1>7, Together

LEMMA DoParts ==
  ASSUME NEW op, NEW s
  PROVE  Do(op, s).op = op /\ Do(op, s).s = s
BY DEF Do

(* A start that fails late leaves again and gives its recorder back.       *)
LEMMA Appended ==
  ASSUME NEW q \in Seq(Item), NEW x \in Item
  PROVE  LET r == q \o <<x>>
         IN /\ r \in Seq(Item) /\ Len(r) = Len(q) + 1 /\ r[Len(q) + 1] = x
            /\ \A i \in 1 .. Len(q) : r[i] = q[i]
<1> DEFINE o == <<x>>
           n == Len(q)
           c == q \o o
<1>1. o \in Seq(Item) /\ Len(o) = 1 /\ o[1] = x
  BY OneItem
<1>2. n \in Nat
  OBVIOUS
<1>3. /\ c \in Seq(Item) /\ Len(c) = n + 1
      /\ \A i \in 1 .. n + 1 : c[i] = IF i <= n THEN q[i] ELSE o[i - n]
  BY <1>1, ConcatProperties
<1> HIDE DEF o, n, c
<1>4. c[n + 1] = o[1]
  BY <1>2, <1>3
<1>5. \A i \in 1 .. n : c[i] = q[i]
  BY <1>2, <1>3
<1> QED
  BY <1>1, <1>3, <1>4, <1>5 DEF o, n, c

UndoneAs(q, s) ==
  /\ q \in Seq(Item) /\ q # <<>> /\ Len(q) \in {2, 3}
  /\ q[1] = Do("leave", s) /\ q[2] = Do("release", s)
  /\ Len(q) = 3 => q[3] = Do("removeNotice", s)

LEMMA UndoneItems ==
  ASSUME NEW s \in Nat
  PROVE  UndoneAs(Undone(s), s) /\ UndoneAs(Undone(s) \o <<Do("removeNotice", s)>>, s)
<1> DEFINE a == Do("leave", s)
           b == Do("release", s)
           c == Do("removeNotice", s)
           q == <<a, b>>
           r == q \o <<c>>
<1>1. a \in Item /\ b \in Item /\ c \in Item
  BY ItemOf DEF Stops
<1> HIDE DEF a, b, c
<1>2. q \in Seq(Item) /\ q # <<>> /\ Len(q) = 2 /\ q[1] = a /\ q[2] = b
  BY <1>1
<1> HIDE DEF q
<1>3. /\ r \in Seq(Item) /\ Len(r) = Len(q) + 1 /\ r[Len(q) + 1] = c
      /\ \A i \in 1 .. Len(q) : r[i] = q[i]
  BY <1>1, <1>2, Appended
<1> HIDE DEF r
<1>4. Len(r) = 3 /\ r[3] = c /\ r[1] = q[1] /\ r[2] = q[2]
  BY <1>2, <1>3
<1>5. r # <<>>
  BY <1>3, <1>4, EmptySeq
<1>6. Undone(s) = q /\ Undone(s) \o <<Do("removeNotice", s)>> = r
  BY DEF Undone, q, r, a, b, c
<1>7. UndoneAs(q, s)
  BY <1>2 DEF UndoneAs, a, b
<1>8. UndoneAs(r, s)
  BY <1>2, <1>3, <1>4, <1>5 DEF UndoneAs, a, b, c
<1> QED
  BY <1>6, <1>7, <1>8

LEMMA UndoneKeeps ==
  ASSUME RecordingInv, NEW w \in Goroutines, NEW op \in {"join", "joined", "notice", "row"},
         At(w, op), NEW s, s = Rec(w), NEW q, Goes(w, q), UndoneAs(q, s),
         \A t \in Recs : t # s => Kept(t), rec' = rec, TypeOK',
         UNCHANGED <<recordersVars, running, old, used, shutdown, human, check, snap>>,
         allowed["storeFault"] = 0 => allowed'["storeFault"] = 0,
         conn[s] # "none", RowTells(s)'
  PROVE  RecordingInv'
<1>1. TypeOK /\ PlacesTell
  BY DEF RecordingInv
<1>2. /\ run[w] # <<>> /\ run[w][1].op = op /\ run[w][1].s = s /\ s \in Recs /\ Runs(s)
      /\ ~rec[s].entered /\ rec[s].recorder \in Recorders
  BY StartOf
<1>3. s \in Nat
  BY <1>2, RecordingAssumption
<1>4. /\ q \in Seq(Item) /\ q # <<>> /\ DOMAIN q = 1 .. Len(q) /\ Len(q) \in {2, 3}
      /\ q[1] = Do("leave", s) /\ q[2] = Do("release", s)
      /\ Len(q) = 3 => q[3] = Do("removeNotice", s)
  BY DEF UndoneAs
<1> DEFINE n == Len(q)
<1>n. n \in {2, 3} /\ DOMAIN q = 1 .. n
  BY <1>4
<1>i. /\ q[1].s = s /\ q[1].op = "leave" /\ q[2].s = s /\ q[2].op = "release"
      /\ n = 3 => q[3].s = s /\ q[3].op = "removeNotice"
  BY <1>4, DoParts
<1> HIDE DEF n
<1>6. 1 \in DOMAIN q /\ 2 \in DOMAIN q
  BY <1>n
<1>5. \A i \in DOMAIN q : /\ i \in {1, 2, 3} /\ q[i].s = s
                          /\ i = 1 => q[i].op = "leave"
                          /\ i = 2 => q[i].op = "release"
                          /\ i = 3 => q[i].op = "removeNotice"
  BY <1>i, <1>n
<1>7. Moved(w, q)
  BY <1>1, <1>2, <1>4, GoesMoves
<1>8. PlacesTell'
  BY <1>1, <1>2, <1>4, <1>5, <1>7, PlacesLoose DEF Loose
<1>9. Runs(s)'
  BY <1>2 DEF Runs
<1>10. \A x \in Item : (\E i \in DOMAIN q : q[i] = x) => ItemTells(x)'
  BY <1>2, <1>5, <1>9 DEF ItemTells, Opening, Closing, Unended
<1>11. \A i, j \in DOMAIN q : q[i].op \in Holding /\ q[j].op \in Holding => i = j
  BY <1>5 DEF Holding, Closing
<1>12. \E i \in DOMAIN q : q[i].op \in Holding
  BY <1>5, <1>6 DEF Holding, Closing
<1>13. \A i \in DOMAIN q : q[i].op = "release" =>
         \E j \in 1 .. i - 1 : q[j].op = "leave" /\ q[j].s = q[i].s
  BY <1>5, <1>6
<1>14. \A i \in DOMAIN q : q[i].op = "leave" =>
         /\ q[i].s = s /\ conn[s] # "none"
         /\ \E j \in i + 1 .. Len(q) : q[j].op \in Closing /\ q[j].s = s
  BY <1>4, <1>5, <1>i DEF Closing
<1>15. \A i \in DOMAIN q : q[i].op \notin {"closeRow", "recover", "relogin"}
  BY <1>5
<1>16. \A r \in Recorders : running'[r] \in {running[r], NoRec}
  OBVIOUS
<1>17. \A i \in DOMAIN q : q[i].op \in Holding => q[i].s = s
  BY <1>5
<1>18. conn'[s] # "none" => conn[s] # "none"
  OBVIOUS
<1>19. q = <<>> => conn'[s] = "none" /\ ~Runs(s)'
  BY <1>4
<1>20. /\ UNCHANGED <<recordersVars, old, used, shutdown, human, check, snap>>
       /\ q # <<>> => Runs(s)'
       /\ q # <<>> => \E i \in DOMAIN q : q[i].op \in Holding
  BY <1>9, <1>12
<1>21. q \in Seq(Item)
  BY <1>4
<1> QED
  BY <1>20, <1>21, <1>8, <1>17, <1>18, <1>19, <1>10, <1>11, <1>13, <1>14, <1>15, <1>16, StartKeeps

-----------------------------------------------------------------------------
(* The join is answered.                                                   *)
OneAs(q, nxt, s) == q = <<Do(nxt, s)>>

LEMMA OneNext ==
  ASSUME RecordingInv, NEW w \in Goroutines, NEW op \in {"join", "joined", "notice", "row"},
         At(w, op), NEW s, s = Rec(w), NEW q, Goes(w, q),
         NEW nxt \in {"joined", "notice", "row"}, OneAs(q, nxt, s)
  PROVE  /\ q \in Seq(Item) /\ q # <<>> /\ DOMAIN q = {1}
         /\ \A i \in DOMAIN q : q[i].op = nxt /\ q[i].s = s
         /\ PlacesTell' /\ Moved(w, q)
<1>1. TypeOK /\ PlacesTell
  BY DEF RecordingInv
<1>2. run[w] # <<>> /\ s \in Recs /\ Len(run[w]) = 1
  BY StartOf
<1>3. s \in Nat
  BY <1>2, RecordingAssumption
<1>4. PICK x : x = Do(nxt, s)
  OBVIOUS
<1>5. x \in Item /\ x.op = nxt /\ x.s = s
  BY <1>3, <1>4, ItemOf DEF Starts
<1>6. q \in Seq(Item) /\ DOMAIN q = {1} /\ Len(q) = 1 /\ q[1] = x
  BY <1>4, <1>5, OneItem DEF OneAs
<1>7. q # <<>>
  BY <1>6, NoMore
<1>8. Moved(w, q)
  BY <1>1, <1>2, <1>6, GoesMoves
<1>9. Len(run[w]) <= 1
  BY <1>2
<1>10. run'[w] = q
  BY <1>1, <1>6, <1>8, <1>9, Whole
<1>11. \A i \in DOMAIN q : PlaceTells(w, i)'
  BY <1>5, <1>6, <1>10 DEF PlaceTells, Recovers
<1>12. PlacesTell'
  BY <1>1, <1>6, <1>8, <1>9, <1>11, PlacesFresh
<1> QED
  BY <1>5, <1>6, <1>7, <1>8, <1>12

(* A start goes on to its next call.                                       *)
LEMMA NextKeeps ==
  ASSUME RecordingInv, NEW w \in Goroutines, NEW op \in {"joined", "notice"},
         At(w, op), NEW s, s = Rec(w), NEW q, Goes(w, q),
         NEW nxt \in {"notice", "row"}, OneAs(q, nxt, s),
         \A t \in Recs : t # s => Kept(t), rec' = rec, TypeOK',
         UNCHANGED <<recordersVars, running, old, used, shutdown, human, check, snap>>,
         allowed["storeFault"] = 0 => allowed'["storeFault"] = 0,
         conn'[s] = "open", row'[s] = row[s]
  PROVE  RecordingInv'
<1>1. /\ q \in Seq(Item) /\ q # <<>> /\ DOMAIN q = {1}
      /\ \A i \in DOMAIN q : q[i].op = nxt /\ q[i].s = s
      /\ PlacesTell'
  BY OneNext
<1>2. /\ s \in Recs /\ Runs(s) /\ ~rec[s].entered /\ row[s] = "none" /\ conn[s] # "none"
      /\ s \notin old
  BY StartOf
<1>3. Runs(s)'
  BY <1>2 DEF Runs
<1>4. RowTells(s)'
  BY <1>2 DEF RecordingInv, RowsTold, RowTells, NoStoreFaults
<1>5. \A x \in Item : (\E i \in DOMAIN q : q[i] = x) => ItemTells(x)'
  BY <1>1, <1>2, <1>3 DEF ItemTells, Opening, Closing
<1>6. /\ \A i \in DOMAIN q : q[i].op \notin {"closeRow", "recover", "relogin", "release",
                                            "leave"}
      /\ \A i, j \in DOMAIN q : q[i].op \in Holding /\ q[j].op \in Holding => i = j
      /\ \A i \in DOMAIN q : q[i].op \in Holding /\ q[i].s = s
      /\ \E i \in DOMAIN q : q[i].op \in Holding
  BY <1>1 DEF Holding
<1>7. \A r \in Recorders : running'[r] \in {running[r], NoRec}
  OBVIOUS
<1>8. UNCHANGED <<recordersVars, old, used, shutdown, human, check, snap>>
  OBVIOUS
<1>9. op \in {"join", "joined", "notice", "row"}
  OBVIOUS
<1>10. /\ \A i \in DOMAIN q : q[i].op = "release" =>
            \E j \in 1 .. i - 1 : q[j].op = "leave" /\ q[j].s = q[i].s
       /\ \A i \in DOMAIN q : q[i].op = "leave" =>
            /\ q[i].s = s /\ conn[s] # "none"
            /\ \E j \in i + 1 .. Len(q) : q[j].op \in Closing /\ q[j].s = s
       /\ \A i \in DOMAIN q : q[i].op \notin {"closeRow", "recover", "relogin"}
       /\ \A i \in DOMAIN q : q[i].op \in Holding => q[i].s = s
  BY <1>6
<1>11. /\ q = <<>> => conn'[s] = "none" /\ ~Runs(s)'
       /\ conn'[s] # "none" => conn[s] # "none"
  BY <1>1, <1>2
<1>12. q \in Seq(Item) /\ PlacesTell'
  BY <1>1
<1>13. /\ \A i, j \in DOMAIN q : q[i].op \in Holding /\ q[j].op \in Holding => i = j
       /\ \E i \in DOMAIN q : q[i].op \in Holding
  BY <1>6
<1> QED
  BY SMTT(30), <1>3, <1>4, <1>5, <1>7, <1>8, <1>9, <1>10, <1>11, <1>12, <1>13, StartKeeps

(* A start that fails early is gone.                                       *)
LEMMA GoneKeeps ==
  ASSUME RecordingInv, NEW w \in Goroutines, NEW op \in {"join", "joined"},
         At(w, op), NEW s, s = Rec(w), Goes(w, <<>>), Freed(s),
         \A t \in Recs : t # s => conn'[t] = conn[t], rec' = rec, TypeOK', conn'[s] = "none",
         UNCHANGED <<recordersVars, row, old, used, shutdown, human, check, snap>>,
         allowed["storeFault"] = 0 => allowed'["storeFault"] = 0
  PROVE  RecordingInv'
<1>1. TypeOK /\ PlacesTell /\ RunningTells
  BY DEF RecordingInv
<1>2. /\ s \in Recs /\ Runs(s) /\ rec[s].recorder \in Recorders /\ row[s] = "none"
      /\ run[w] # <<>> /\ run[w][1].op = op /\ s \notin old
  BY StartOf
<1>3. Moved(w, <<>>)
  BY <1>1, <1>2, GoesMoves, NoMore
<1>4. PlacesTell'
  BY <1>1, <1>3, NoMore, PlacesLoose
<1>5. \A t \in Recs : t # s => Kept(t)
  BY <1>1, <1>2, FreedOf DEF Kept
<1>6. /\ running'[rec[s].recorder] = NoRec
      /\ \A r \in Recorders : running'[r] \in {running[r], NoRec}
  BY <1>1, <1>2, FreedTypes
<1>7. ~Runs(s)'
  BY <1>2, <1>6, RecordingAssumption DEF Runs
<1>8. RowTells(s)'
  BY <1>2 DEF RecordingInv, RowsTold, RowTells, NoStoreFaults
<1>9. UNCHANGED <<recordersVars, old, used, shutdown, human, check, snap>>
  OBVIOUS
<1>10. op \in {"join", "joined", "notice", "row"}
  OBVIOUS
<1> QED
  BY <1>4, <1>5, <1>6, <1>7, <1>8, <1>9, <1>10, NoMore, StartKeeps

LEMMA JoinedKeeps ==
  ASSUME RecordingInv, NEW w \in Goroutines, Joined(w)
  PROVE  RecordingInv'
<1>1. TypeOK /\ RunningTells
  BY DEF RecordingInv
<1>2. PICK s : s = Rec(w)
  OBVIOUS
<1>3. At(w, "joined")
  BY DEF Joined
<1>4. /\ s \in Recs /\ rec[s] \in Active /\ rec[s].recorder \in Recorders /\ Runs(s)
      /\ conn[s] = "joining" /\ row[s] = "none" /\ run[w] # <<>>
  BY <1>2, <1>3, StartOf
<1>5. s \in Nat
  BY <1>4, RecordingAssumption
<1>6. UNCHANGED <<recordersVars, seen, human, check, rec, shutdown, ear, armed, row,
                  notice, used, old, snap>>
  BY DEF Joined, kept
<1>7. /\ allowed' \in [Kinds -> Nat]
      /\ allowed["storeFault"] = 0 => allowed'["storeFault"] = 0
  BY <1>1, SpendKeeps DEF Joined, Kinds, TypeOK
<1> DEFINE in == /\ at' = [at EXCEPT ![rec[s].recorder] =
                             [chan |-> rec[s].chan, login |-> rec[s].via]]
                 /\ conn' = [conn EXCEPT ![s] = "open"]
                 /\ UNCHANGED running
<1>8. \/ in /\ (Goes(w, <<Do("notice", s)>>) \/ Goes(w, Undone(s)))
      \/ /\ conn' = [conn EXCEPT ![s] = "none"] /\ Freed(s) /\ Goes(w, <<>>)
         /\ UNCHANGED at
  BY <1>2 DEF Joined
<1>9. ASSUME in, NEW q \in Seq(Item), Goes(w, q)
      PROVE  /\ TypeOK' /\ \A t \in Recs : t # s => Kept(t)
             /\ conn'[s] = "open"
  BY ZenonT(30), <1>1, <1>4, <1>6, <1>7, <1>9, GoesMoves DEF Place, Active, TypeOK, Moved,
     RecordersTypeOK, recordersVars, Kept, Runs
<1>10. CASE in /\ Goes(w, <<Do("notice", s)>>)
  BY <1>2, <1>3, <1>6, <1>7, <1>9, <1>10, OneNext, NextKeeps DEF OneAs
<1>11. CASE in /\ Goes(w, Undone(s))
  <2>1. PICK q : q = Undone(s)
    OBVIOUS
  <2>2. Goes(w, q)
    BY <1>11, <2>1
  <2>3. UndoneAs(q, s) /\ q \in Seq(Item)
    BY <1>5, <2>1, UndoneItems DEF UndoneAs
  <2>4. TypeOK' /\ (\A t \in Recs : t # s => Kept(t)) /\ conn'[s] = "open"
    BY <1>9, <1>11, <2>2, <2>3
  <2>5. UNCHANGED <<recordersVars, running, old, used, shutdown, human, check, snap>>
    BY <1>6, <1>11
  <2>6. RowTells(s)'
    BY <1>4, <1>6, <1>7 DEF RecordingInv, RowsTold, RowTells, NoStoreFaults
  <2> QED
    BY <1>2, <1>3, <1>4, <1>6, <1>7, <2>2, <2>3, <2>4, <2>5, <2>6, UndoneKeeps
<1>12. CASE conn' = [conn EXCEPT ![s] = "none"] /\ Freed(s) /\ Goes(w, <<>>) /\ UNCHANGED at
  <2>1. Moved(w, <<>>)
    BY <1>1, <1>4, <1>12, GoesMoves, NoMore
  <2>2. running' \in [Recorders -> Recs \cup {NoRec}]
    BY <1>1, <1>4, <1>12, FreedTypes
  <2>3. conn' \in [Recs -> {"none", "joining", "open", "hung"}]
    BY <1>1, <1>12 DEF TypeOK
  <2>4. TypeOK'
    BY <1>1, <1>6, <1>7, <1>12, <2>1, <2>2, <2>3
       DEF TypeOK, Moved, RecordersTypeOK, recordersVars
  <2>5. conn'[s] = "none" /\ \A t \in Recs : t # s => conn'[t] = conn[t]
    BY <1>1, <1>4, <1>12 DEF TypeOK
  <2>6. UNCHANGED <<recordersVars, row, old, used, shutdown, human, check, snap>>
    BY <1>6
  <2> QED
    BY <1>2, <1>3, <1>6, <1>7, <1>12, <2>4, <2>5, <2>6, GoneKeeps
<1> QED
  BY <1>8, <1>10, <1>11, <1>12

LEMMA NoticeKeeps ==
  ASSUME RecordingInv, NEW w \in Goroutines, Notice(w)
  PROVE  RecordingInv'
<1>1. TypeOK
  BY DEF RecordingInv
<1>2. PICK s : s = Rec(w)
  OBVIOUS
<1>3. At(w, "notice")
  BY DEF Notice
<1>4. /\ s \in Recs /\ run[w] # <<>> /\ conn[s] = "open" /\ row[s] = "none" /\ Runs(s)
  BY <1>2, <1>3, StartOf
<1>5. s \in Nat
  BY <1>4, RecordingAssumption
<1>6. /\ allowed' \in [Kinds -> Nat]
      /\ allowed["storeFault"] = 0 => allowed'["storeFault"] = 0
  BY <1>1, SpendKeeps DEF Notice, Kinds, TypeOK
<1>7. notice' \in [Recs -> {"none", "on", "off"}]
  BY <1>1 DEF Notice, TypeOK
<1>8. PICK q : /\ Goes(w, q)
               /\ OneAs(q, "row", s) \/ q = Undone(s)
  BY <1>2 DEF Notice, OneAs
<1>9. q \in Seq(Item) /\ (OneAs(q, "row", s) \/ UndoneAs(q, s))
  <2>1. CASE OneAs(q, "row", s)
    BY <1>2, <1>3, <1>8, <2>1, OneNext
  <2>2. CASE q = Undone(s)
    BY <1>5, <2>2, UndoneItems DEF UndoneAs
  <2> QED
    BY <1>8, <2>1, <2>2
<1>10. Moved(w, q)
  BY <1>1, <1>4, <1>8, <1>9, GoesMoves
<1>11. TypeOK'
  BY <1>1, <1>6, <1>7, <1>10
     DEF TypeOK, Notice, Moved, world, runtime, adapter, RecordersTypeOK, recordersVars
<1>12. UNCHANGED <<recordersVars, running, rec, conn, row, old, used, shutdown, human,
                   check, snap>>
  BY DEF Notice, world, runtime, adapter
<1>13. \A t \in Recs : t # s => Kept(t)
  BY <1>12 DEF Kept, Runs
<1>14. RowTells(s)'
  BY <1>4, <1>6, <1>12 DEF RecordingInv, RowsTold, RowTells, NoStoreFaults
<1>15. UNCHANGED <<recordersVars, running, old, used, shutdown, human, check, snap>>
  BY <1>12
<1>16. CASE OneAs(q, "row", s)
  <2>1. rec' = rec /\ conn'[s] = "open" /\ row'[s] = row[s]
    BY <1>4, <1>12
  <2> QED
    BY <1>2, <1>3, <1>6, <1>8, <1>11, <1>13, <1>15, <1>16, <2>1, NextKeeps
<1>17. CASE UndoneAs(q, s)
  BY <1>2, <1>3, <1>4, <1>6, <1>8, <1>11, <1>12, <1>13, <1>14, <1>15, <1>17, UndoneKeeps
<1> QED
  BY <1>9, <1>16, <1>17

(* The row is written: the recording goes in, and its own check follows.   *)
InAs(q, s) ==
  /\ q \in Seq(Item) /\ Len(q) = 3 /\ q # <<>>
  /\ q[1] = Do("receive", s) /\ q[2] = Do("enter", s) /\ q[3] = Do("check", s)

LEMMA InItems ==
  ASSUME NEW s \in Nat
  PROVE  InAs(<<Do("receive", s), Do("enter", s), Do("check", s)>>, s)
<1> DEFINE a == Do("receive", s)
           b == Do("enter", s)
           c == Do("check", s)
           q == <<a, b, c>>
<1>1. a \in Item /\ b \in Item /\ c \in Item
  BY ItemOf DEF Starts
<1> HIDE DEF a, b, c
<1>2. q \in Seq(Item) /\ q # <<>> /\ Len(q) = 3 /\ q[1] = a /\ q[2] = b /\ q[3] = c
  BY <1>1
<1> HIDE DEF q
<1>3. InAs(q, s)
  BY <1>2 DEF InAs, a, b, c
<1> QED
  BY <1>3 DEF q, a, b, c

LEMMA InKeeps ==
  ASSUME RecordingInv, NEW w \in Goroutines, At(w, "row"), NEW s, s = Rec(w),
         NEW q, Goes(w, q), InAs(q, s),
         \A t \in Recs : t # s => Kept(t), rec' = rec, TypeOK', row'[s] = "open",
         UNCHANGED <<recordersVars, running, conn, old, used, shutdown, human, check, snap>>,
         allowed["storeFault"] = 0 => allowed'["storeFault"] = 0
  PROVE  RecordingInv'
<1>1. TypeOK /\ PlacesTell
  BY DEF RecordingInv
<1>2. /\ s \in Recs /\ run[w] # <<>> /\ conn[s] = "open" /\ Runs(s) /\ ~rec[s].entered
      /\ s \notin old /\ Len(run[w]) = 1
  BY StartOf
<1>3. /\ q \in Seq(Item) /\ Len(q) = 3 /\ q # <<>>
      /\ q[1] = Do("receive", s) /\ q[2] = Do("enter", s) /\ q[3] = Do("check", s)
  BY DEF InAs
<1>4. DOMAIN q = 1 .. 3
  BY <1>3
<1>5. /\ q[1].op = "receive" /\ q[1].s = s /\ q[2].op = "enter" /\ q[2].s = s
      /\ q[3].op = "check" /\ q[3].s = s
  BY <1>3, DoParts
<1>6. \A i \in DOMAIN q : i \in {1, 2, 3}
  BY <1>4
<1>7. Moved(w, q)
  BY <1>1, <1>2, <1>3, GoesMoves
<1>8. Len(run[w]) <= 1
  BY <1>2
<1>9. run'[w] = q
  BY <1>1, <1>3, <1>7, <1>8, Whole
<1>10. \A i \in DOMAIN q : PlaceTells(w, i)'
  BY <1>3, <1>5, <1>6, <1>9 DEF PlaceTells, Recovers
<1>11. PlacesTell'
  BY <1>1, <1>3, <1>7, <1>8, <1>10, PlacesFresh
<1>12. Runs(s)'
  BY <1>2 DEF Runs
<1>13. 1 \in DOMAIN q /\ 2 \in DOMAIN q
  BY <1>4
<1>14. RowTells(s)'
  BY <1>1, <1>2, <1>3, <1>5, <1>7, <1>13, PendingNew DEF RecordingInv, RowsTold, RowTells,
     NoStoreFaults
<1>15. \A x \in Item : (\E i \in DOMAIN q : q[i] = x) => ItemTells(x)'
  BY <1>2, <1>5, <1>6, <1>12 DEF ItemTells, Opening, Closing
<1>16. \A i \in DOMAIN q : q[i].op \notin {"closeRow", "recover", "relogin", "release", "leave"}
  BY <1>5, <1>6
<1>17. \A i \in DOMAIN q : q[i].op \in Holding => i = 2 /\ q[i].s = s
  BY <1>5, <1>6 DEF Holding, Closing
<1>18. \E i \in DOMAIN q : q[i].op \in Holding
  BY <1>5, <1>13 DEF Holding
<1>19. /\ \A i \in DOMAIN q : q[i].op = "release" =>
            \E j \in 1 .. i - 1 : q[j].op = "leave" /\ q[j].s = q[i].s
       /\ \A i \in DOMAIN q : q[i].op = "leave" =>
            /\ q[i].s = s /\ conn[s] # "none"
            /\ \E j \in i + 1 .. Len(q) : q[j].op \in Closing /\ q[j].s = s
       /\ \A i \in DOMAIN q : q[i].op \notin {"closeRow", "recover", "relogin"}
       /\ \A i \in DOMAIN q : q[i].op \in Holding => q[i].s = s
       /\ \A i, j \in DOMAIN q : q[i].op \in Holding /\ q[j].op \in Holding => i = j
  BY <1>16, <1>17
<1>20. /\ UNCHANGED <<recordersVars, old, used, shutdown, human, check, snap>>
       /\ \A r \in Recorders : running'[r] \in {running[r], NoRec}
       /\ q = <<>> => conn'[s] = "none" /\ ~Runs(s)'
       /\ conn'[s] # "none" => conn[s] # "none"
       /\ q \in Seq(Item)
  BY <1>3
<1> QED
  BY <1>11, <1>12, <1>14, <1>15, <1>18, <1>19, <1>20, StartKeeps

LEMMA RowKeeps ==
  ASSUME RecordingInv, NEW w \in Goroutines, Row(w)
  PROVE  RecordingInv'
<1>1. TypeOK
  BY DEF RecordingInv
<1>2. PICK s : s = Rec(w)
  OBVIOUS
<1>3. At(w, "row")
  BY DEF Row
<1>4. /\ s \in Recs /\ run[w] # <<>> /\ conn[s] = "open" /\ row[s] = "none" /\ Runs(s)
  BY <1>2, <1>3, StartOf
<1>5. s \in Nat
  BY <1>4, RecordingAssumption
<1>6. UNCHANGED <<recordersVars, running, rec, conn, old, used, shutdown, human, check, snap>>
  BY DEF Row, world, runtime, adapter
<1>7. row' = [row EXCEPT ![s] = "open"] \/ row' = row
  BY <1>2 DEF Row
<1>8. /\ row' \in [Recs -> Ends \cup {"none", "open"}]
      /\ \A t \in Recs : t # s => row'[t] = row[t]
  BY <1>1, <1>4, <1>7 DEF TypeOK
<1>9. \A t \in Recs : t # s => Kept(t)
  BY <1>6, <1>8 DEF Kept, Runs
<1>10. RowTells(s)
  BY <1>4 DEF RecordingInv, RowsTold
<1>11. ASSUME NEW q \in Seq(Item), Goes(w, q), allowed' \in [Kinds -> Nat]
       PROVE  TypeOK'
  BY <1>1, <1>4, <1>8, <1>11, GoesMoves DEF TypeOK, Row, Moved, world, runtime, adapter,
     RecordersTypeOK, recordersVars
<1>12. PICK q : /\ Goes(w, q)
                /\ \/ /\ row' = [row EXCEPT ![s] = "open"] /\ UNCHANGED allowed
                      /\ q = <<Do("receive", s), Do("enter", s), Do("check", s)>>
                   \/ q = Undone(s) \o <<Do("removeNotice", s)>> /\ Spend("storeFault")
  BY <1>2 DEF Row
<1>13. \/ row' = [row EXCEPT ![s] = "open"] /\ UNCHANGED allowed /\ InAs(q, s)
       \/ UndoneAs(q, s) /\ Spend("storeFault")
  BY <1>5, <1>12, InItems, UndoneItems
<1>14. Goes(w, q)
  BY <1>12
<1>15. CASE row' = [row EXCEPT ![s] = "open"] /\ UNCHANGED allowed /\ InAs(q, s)
  <2>1. q \in Seq(Item) /\ allowed' \in [Kinds -> Nat]
    BY <1>1, <1>15 DEF InAs, TypeOK
  <2>2. TypeOK'
    BY <1>11, <1>14, <2>1
  <2>3. row'[s] = "open"
    BY <1>1, <1>4, <1>15 DEF TypeOK
  <2>4. /\ UNCHANGED <<recordersVars, running, conn, old, used, shutdown, human, check, snap>>
        /\ rec' = rec
    BY <1>6
  <2> QED
    BY <1>2, <1>3, <1>9, <1>14, <1>15, <2>2, <2>3, <2>4, InKeeps
<1>16. CASE UndoneAs(q, s) /\ Spend("storeFault")
  <2>1. allowed' \in [Kinds -> Nat] /\ allowed["storeFault"] # 0
    BY <1>1, <1>16, SpendKeeps DEF Kinds, Spend, TypeOK
  <2>2. TypeOK'
    BY <1>11, <1>14, <1>16, <2>1 DEF UndoneAs
  <2>3. RowTells(s)'
    BY <1>10, <2>1 DEF RowTells, NoStoreFaults
  <2>4. /\ UNCHANGED <<recordersVars, running, old, used, shutdown, human, check, snap>>
        /\ rec' = rec /\ conn[s] # "none"
    BY <1>4, <1>6
  <2> QED
    BY <1>2, <1>3, <1>9, <1>14, <1>16, <2>1, <2>2, <2>3, <2>4, UndoneKeeps
<1> QED
  BY <1>13, <1>15, <1>16

-----------------------------------------------------------------------------
(* The recorder is asked to join.                                          *)
LEMMA JoinKeeps ==
  ASSUME RecordingInv, NEW w \in Goroutines, Join(w)
  PROVE  RecordingInv'
<1>1. /\ TypeOK /\ RunningTells /\ RecordersInv /\ ConnsTell /\ OwnConn
  BY DEF RecordingInv
<1>2. PICK s : s = Rec(w)
  OBVIOUS
<1>3. PICK r : r = rec[s].recorder
  OBVIOUS
<1>4. At(w, "join")
  BY DEF Join
<1>5. /\ s \in Recs /\ rec[s] \in Active /\ r \in Recorders /\ Runs(s)
      /\ conn[s] = "none" /\ row[s] = "none" /\ run[w] # <<>> /\ s \notin old
      /\ run[w][1].op = "join" /\ ~rec[s].entered /\ ~Pending({"leave"}, s)
  BY <1>2, <1>3, <1>4, StartOf
<1>6. UNCHANGED <<recordersVars, at, seen, human, check, shutdown, ear, armed, row,
                  notice, used, old, snap, allowed>>
  BY DEF Join, kept, world
<1>7. ASSUME state[r] # "online" \/ session[r] = NoLogin, Freed(s), Goes(w, <<>>),
             UNCHANGED <<rec, conn>>
      PROVE  RecordingInv'
  <2>1. Moved(w, <<>>)
    BY <1>1, <1>5, <1>7, GoesMoves, NoMore
  <2>2. running' \in [Recorders -> Recs \cup {NoRec}]
    BY <1>1, <1>3, <1>5, <1>7, FreedTypes
  <2>3. TypeOK'
    BY <1>1, <1>6, <1>7, <2>1, <2>2 DEF TypeOK, Moved, RecordersTypeOK, recordersVars
  <2>4. conn'[s] = "none" /\ \A t \in Recs : t # s => conn'[t] = conn[t]
    BY <1>5, <1>7
  <2>5. /\ UNCHANGED <<recordersVars, row, old, used, shutdown, human, check, snap>>
        /\ rec' = rec /\ allowed["storeFault"] = 0 => allowed'["storeFault"] = 0
    BY <1>6, <1>7
  <2> QED
    BY <1>2, <1>4, <1>7, <2>3, <2>4, <2>5, GoneKeeps
<1>8. ASSUME state[r] = "online", session[r] # NoLogin,
             rec' = [rec EXCEPT ![s].via = session[r]],
             conn' = [conn EXCEPT ![s] = "joining"],
             NEW q, OneAs(q, "joined", s), Goes(w, q), UNCHANGED running
      PROVE  RecordingInv'
  <2>1. /\ q \in Seq(Item) /\ q # <<>> /\ DOMAIN q = {1}
        /\ \A i \in DOMAIN q : q[i].op = "joined" /\ q[i].s = s
        /\ PlacesTell' /\ Moved(w, q)
    BY <1>2, <1>4, <1>8, OneNext
  <2>2. session[r] \in Nat /\ session[r] <= logins[r]
    BY <1>1, <1>5 DEF RecordersInv, InOrder, LoginsInOrder, RecordersTypeOK
  <2>3. [rec[s] EXCEPT !.via = session[r]] \in Active
    BY <1>5, <2>2 DEF Active
  <2>4. rec' = [rec EXCEPT ![s] = [rec[s] EXCEPT !.via = session[r]]]
    BY <1>8
  <2>5. rec' \in [Recs -> Active]
    BY <1>1, <2>3, <2>4 DEF TypeOK
  <2>6. conn' \in [Recs -> {"none", "joining", "open", "hung"}]
    BY <1>1, <1>8 DEF TypeOK
  <2>7. TypeOK'
    BY <1>1, <1>6, <1>8, <2>1, <2>5, <2>6
       DEF TypeOK, Moved, RecordersTypeOK, recordersVars
  <2>8. /\ rec'[s] = [rec[s] EXCEPT !.via = session[r]] /\ conn'[s] = "joining"
        /\ \A t \in Recs : t # s => rec'[t] = rec[t] /\ conn'[t] = conn[t]
    BY <1>1, <1>5, <1>8, <2>4 DEF TypeOK
  <2>9. /\ rec'[s].recorder = r /\ rec'[s].via = session[r]
        /\ rec'[s].entered = rec[s].entered /\ rec'[s].ended = rec[s].ended
        /\ rec'[s].stopping = rec[s].stopping
    BY <1>3, <1>5, <2>8 DEF Active
  <2>10. \A t \in Recs : t # s => Kept(t)
    BY <1>6, <1>8, <2>8 DEF Kept, Runs
  <2>11. Runs(s)'
    BY <1>3, <1>5, <1>8, <2>9 DEF Runs
  <2>12. RowTells(s)'
    BY <1>5, <1>6 DEF RecordingInv, RowsTold, RowTells, NoStoreFaults
  <2>13. \A x \in Item : (\E i \in DOMAIN q : q[i] = x) => ItemTells(x)'
    <3> SUFFICES ASSUME NEW x \in Item, x.op = "joined", x.s = s PROVE ItemTells(x)'
      BY <2>1
    <3> QED
      BY <1>5, <1>6, <2>8, <2>9, <2>11 DEF ItemTells, Opening, Closing
  <2>14. /\ ItemsTell' /\ LeavesTell' /\ RecsTell' /\ EmptiesTell' /\ RowsTold'
         /\ Once(Holding)' /\ Once({"closeRow"})' /\ Once({"recover"})'
    <3>1. /\ \A i \in DOMAIN q : q[i].op \notin {"closeRow", "recover"}
          /\ \A i, j \in DOMAIN q : q[i].op \in Holding /\ q[j].op \in Holding => i = j
          /\ \A i \in DOMAIN q : q[i].op \in Holding => q[i].s = s
          /\ \A i \in DOMAIN q : q[i].op = "release" =>
               \E j \in 1 .. i - 1 : q[j].op = "leave" /\ q[j].s = q[i].s
          /\ \A i \in DOMAIN q : \A t \in Nat : q[i].op = "leave" /\ t = q[i].s /\ Runs(t)' =>
               \E j \in i + 1 .. Len(q) : q[j].op \in Closing /\ q[j].s = t
      BY <2>1
    <3>2. \E i \in DOMAIN q : q[i].op \in Holding /\ q[i].s = s
      BY <2>1 DEF Holding
    <3>3. /\ rec'[s].recorder = rec[s].recorder /\ rec'[s].entered = rec[s].entered
          /\ rec'[s].ended = rec[s].ended /\ rec'[s].stopping = rec[s].stopping
      BY <1>3, <2>9
    <3>4. /\ UNCHANGED <<owed, old, used, shutdown, human, check, snap>>
          /\ allowed["storeFault"] = 0 => allowed'["storeFault"] = 0
      BY <1>6 DEF recordersVars
    <3>5. q \in Seq(Item)
      BY <2>1
    <3> QED
      BY <1>2, <1>4, <1>8, <2>10, <2>12, <2>13, <3>1, <3>2, <3>3, <3>4, <3>5, StartGoesOn
  <2>15. OnceRelogin' /\ OwedTells' /\ RunningTells' /\ RecordersInv'
    BY <1>3, <1>5, <1>6, <1>8, <2>1, <2>8, <2>9, SameWay
  <2>16. \A t \in Recs : t # s /\ HasConn(t)' => HasConn(t) /\ (Runs(t)' <=> Runs(t))
    BY <1>1, <2>1, <2>8, <2>10, PendingBack DEF HasConn, Kept
  <2>17. ConnsTell'
    <3>1. ASSUME NEW t \in Recs, t # s PROVE ConnTells(t)'
      BY <1>1, <1>6, <2>8, <2>16, <3>1 DEF ConnsTell, ConnTells, recordersVars
    <3>2. ConnTells(s)'
      BY <1>5, <1>6, <1>8, <2>2, <2>9, <2>11 DEF ConnTells, recordersVars
    <3> QED
      BY <3>1, <3>2 DEF ConnsTell
  <2>18. OwnConn'
    <3>1. ASSUME NEW t \in Recs, t # s, HasConn(t)', rec[t].recorder = r
          PROVE  rec[t].via # session[r]
      <4>1. ~Runs(t)
        BY <1>1, <1>3, <1>5, <3>1, RunsAlone
      <4>2. HasConn(t) /\ ConnTells(t)
        BY <1>1, <2>16, <3>1 DEF ConnsTell
      <4>3. session[r] > rec[t].via /\ rec[t].via \in Nat
        BY <1>1, <1>8, <3>1, <4>1, <4>2 DEF ConnTells, TypeOK, Active
      <4> QED
        BY <2>2, <4>3
    <3>2. ASSUME NEW t \in Recs, NEW u \in Recs, t # u, HasConn(t)', HasConn(u)',
                 rec'[t].recorder = rec'[u].recorder, t # s, u # s
          PROVE  rec'[t].via # rec'[u].via
      BY <1>1, <2>8, <2>16, <3>2 DEF OwnConn
    <3>3. ASSUME NEW t \in Recs, t # s, HasConn(t)', rec'[t].recorder = r
          PROVE  rec'[t].via # rec'[s].via
      BY <2>8, <2>9, <3>1, <3>3
    <3> QED
      BY <2>9, <3>2, <3>3 DEF OwnConn
  <2> QED
    BY <2>1, <2>7, <2>14, <2>15, <2>17, <2>18, Together
<1>9. \/ /\ state[r] = "online" /\ session[r] # NoLogin
         /\ rec' = [rec EXCEPT ![s].via = session[r]]
         /\ conn' = [conn EXCEPT ![s] = "joining"]
         /\ Goes(w, <<Do("joined", s)>>) /\ UNCHANGED running
      \/ /\ state[r] # "online" \/ session[r] = NoLogin
         /\ Freed(s) /\ Goes(w, <<>>) /\ UNCHANGED <<rec, conn>>
  BY <1>2, <1>3 DEF Join
<1>10. ASSUME state[r] = "online", session[r] # NoLogin,
              rec' = [rec EXCEPT ![s].via = session[r]],
              conn' = [conn EXCEPT ![s] = "joining"],
              Goes(w, <<Do("joined", s)>>), UNCHANGED running
       PROVE  RecordingInv'
  BY <1>8, <1>10 DEF OneAs
<1> QED
  BY <1>7, <1>9, <1>10

-----------------------------------------------------------------------------
(* A section that hands on nothing: what follows for the places and the    *)
(* counts.                                                                 *)
LEMMA PoppedPlaces ==
  ASSUME RecordingInv, NEW w \in Goroutines, run[w] # <<>>, Goes(w, <<>>)
  PROVE  /\ Moved(w, <<>>) /\ PlacesTell'
         /\ Once(Holding)' /\ Once({"closeRow"})' /\ Once({"recover"})'
<1>1. /\ TypeOK /\ PlacesTell /\ Once(Holding) /\ Once({"closeRow"}) /\ Once({"recover"})
  BY DEF RecordingInv
<1>2. Moved(w, <<>>)
  BY <1>1, GoesMoves, NoMore
<1>3. PlacesTell'
  BY <1>1, <1>2, NoMore, PlacesLoose
<1>4. Once(Holding)'
  BY <1>1, <1>2, NoMore, OnceMoved
<1>5. Once({"closeRow"})'
  BY <1>1, <1>2, NoMore, OnceMoved
<1>6. Once({"recover"})'
  BY <1>1, <1>2, NoMore, OnceMoved
<1> QED
  BY <1>2, <1>3, <1>4, <1>5, <1>6

LEMMA PoppedLeaves ==
  ASSUME RecordingInv, NEW w \in Goroutines, run[w] # <<>>, Goes(w, <<>>), NEW s \in Recs,
         \A t \in Recs : t # s => conn'[t] = conn[t] /\ (Runs(t)' => Runs(t)),
         Pending({"release"}, s) /\ conn[s] = "none" => conn'[s] = "none",
         run[w][1].op = "leave" => conn'[run[w][1].s] = "none",
         Pending({"leave"}, s) /\ Runs(s)' => Runs(s)
  PROVE  LeavesTell'
<1>1. /\ TypeOK /\ LeavesTell /\ ItemsTell
  BY DEF RecordingInv
<1>2. Moved(w, <<>>)
  BY <1>1, GoesMoves, NoMore
<1>3. \A t \in Nat : Pending({"release"}, t) /\ conn[t] = "none" => conn'[t] = "none"
  BY <1>1, PendingRecs
<1>4. \A t \in Nat : Pending({"leave"}, t) /\ Runs(t)' => Runs(t)
  BY <1>1, PendingRecs
<1> QED
  BY <1>1, <1>2, <1>3, <1>4, NoMore, LeavesMoved

(* The recording goes in: its own check is still to come.                  *)
LEMMA EnterKeeps ==
  ASSUME RecordingInv, NEW w \in Goroutines, Enter(w)
  PROVE  RecordingInv'
<1>1. /\ TypeOK /\ RecsTell /\ PlacesTell
  BY DEF RecordingInv
<1>2. PICK s : s = Rec(w)
  OBVIOUS
<1>3. /\ run[w] # <<>> /\ run[w][1].op = "enter" /\ run[w][1].s = s
      /\ ItemTells(run[w][1]) /\ PlaceTells(w, 1)
  BY <1>2, AtHead DEF Enter
<1>4. Goes(w, <<>>)
  BY DEF Enter
<1>5. /\ s \in Recs /\ Runs(s) /\ ~rec[s].entered /\ row[s] = "open" /\ conn[s] = "open"
  BY <1>3 DEF ItemTells, Opening
<1>6. /\ RecTells(s) /\ rec[s] \in Active /\ rec[s].recorder \in Recorders
      /\ running[rec[s].recorder] = s
  BY <1>1, <1>5 DEF RecsTell, TypeOK, Active, Runs
<1>7. /\ Moved(w, <<>>) /\ PlacesTell'
      /\ Once(Holding)' /\ Once({"closeRow"})' /\ Once({"recover"})'
  BY <1>3, <1>4, PoppedPlaces
<1>8. running' = running
  BY <1>1, <1>2, <1>6 DEF Enter, TypeOK
<1>9. UNCHANGED <<recordersVars, at, seen, human, check, shutdown, conn, ear, armed, row,
                  notice, used, old, snap, allowed>>
  BY DEF Enter, world, adapter, kept
<1>10. [rec[s] EXCEPT !.entered = TRUE] \in Active
  BY <1>6 DEF Active
<1>11. rec' = [rec EXCEPT ![s] = [rec[s] EXCEPT !.entered = TRUE]]
  BY <1>2 DEF Enter
<1>12. rec' \in [Recs -> Active]
  BY <1>1, <1>10, <1>11 DEF TypeOK
<1>13. TypeOK'
  BY <1>1, <1>7, <1>8, <1>9, <1>12 DEF TypeOK, Moved, RecordersTypeOK, recordersVars
<1>14. /\ \A t \in Recs : t # s => rec'[t] = rec[t]
       /\ rec'[s] = [rec[s] EXCEPT !.entered = TRUE]
  BY <1>1, <1>5, <1>11 DEF TypeOK
<1>15. /\ rec'[s].entered /\ rec'[s].recorder = rec[s].recorder /\ rec'[s].via = rec[s].via
       /\ rec'[s].stopping = rec[s].stopping /\ rec'[s].ended = rec[s].ended
       /\ rec'[s].chan = rec[s].chan
  BY <1>6, <1>14 DEF Active
<1>16. \A t \in Recs : t # s => Kept(t)
  BY <1>8, <1>9, <1>14 DEF Kept, Runs
<1>17. \A t \in Recs : Runs(t)' <=> Runs(t)
  BY ZenonT(60), <1>8, <1>14, <1>15 DEF Runs
<1>18. /\ rec[s].ended = "no" /\ ~rec[s].stopping /\ s \notin old /\ s <= used
  BY <1>1, <1>5, <1>6, RecordingAssumption DEF TypeOK, RecTells, Runs
<1>19. Unended(s)'
  BY <1>15, <1>18 DEF Unended
<1>20. RecTells(s)'
  <2>1. s \in Nat /\ used \in Nat
    BY <1>1, <1>5, RecordingAssumption DEF TypeOK
  <2> QED
    BY <1>5, <1>6, <1>9, <1>15, <1>17, <1>18, <1>19, <2>1 DEF RecTells
<1>21. Moved(w, <<>>) /\ run'[w] # <<>> /\ \E i \in DOMAIN run'[w] : run'[w][i].op = "check"
  <2>1. Len(run[w]) = 2 /\ run[w][2].op = "check"
    BY <1>3 DEF PlaceTells
  <2>2. run'[w] \in Seq(Item) /\ Len(run'[w]) = 1 /\ run'[w][1] = run[w][2]
    BY <1>3, <1>7, <2>1, NoMore DEF Moved
  <2>3. 1 \in DOMAIN run'[w]
    BY <2>2
  <2> QED
    BY <1>7, <2>1, <2>2, <2>3, NoMore
<1>22. EmptyTells(s)'
  BY <1>21 DEF EmptyTells, Watched
<1>23. RowTells(s)'
  BY <1>5, <1>9, <1>18, <1>19 DEF RecordingInv, RowsTold, RowTells, NoStoreFaults
<1>24. \A x \in Item : Waits(x, w) /\ ItemTells(x) /\ x.s = s => ItemTells(x)'
  BY <1>3, <1>9, <1>15, StartAlone, LightKept DEF recordersVars
<1>25. \A c : Watched(c) => Watched(c)'
  BY <1>1, <1>3, <1>7, <1>9, NoMore, WatchedOn
<1>26. Listing => Listing'
  BY <1>1, <1>3, <1>7, NoMore, ListingOn
<1>27. ItemsTell' /\ RecsTell' /\ EmptiesTell' /\ RowsTold'
  <2>1. PICK X : X = {s}
    OBVIOUS
  <2>2. \A t \in Recs : t \notin X => Kept(t)
    BY <1>16, <2>1
  <2>3. \A t \in Recs : t \in X => RecTells(t)' /\ EmptyTells(t)' /\ RowTells(t)'
    BY <1>20, <1>22, <1>23, <2>1
  <2>4. \A x \in Item : Waits(x, w) /\ ItemTells(x) /\ x.s \in X => ItemTells(x)'
    BY <1>24, <2>1
  <2>5. run[w] # <<>> /\ run[w][1].op \in Counted => run[w][1].s \in X
    BY <1>3, <2>1
  <2>6. old' = old /\ used' = used /\ shutdown' = shutdown /\ owed \subseteq owed'
        /\ human' = human /\ (allowed["storeFault"] = 0 => allowed'["storeFault"] = 0)
    BY <1>9 DEF recordersVars
  <2>7. \A x \in Item : (\E i \in DOMAIN <<>> : <<>>[i] = x) => ItemTells(x)'
    BY NoMore
  <2> QED
    BY <1>7, <1>25, <1>26, <2>2, <2>3, <2>4, <2>5, <2>6, <2>7, NoMore, Touched
<1>28. LeavesTell'
  BY <1>3, <1>4, <1>5, <1>9, <1>17, PoppedLeaves
<1>29. /\ OnceRelogin' /\ OwedTells' /\ RunningTells' /\ OwnConn' /\ ConnsTell'
       /\ RecordersInv'
  <2>1. \A t \in Recs : rec'[t].recorder = rec[t].recorder /\ rec'[t].via = rec[t].via
    BY <1>14, <1>15
  <2>2. \A t \in Recs : HasConn(t)' => HasConn(t) /\ (Runs(t)' <=> Runs(t))
    BY <1>1, <1>7, <1>9, <1>17, NoMore, PendingBack DEF HasConn
  <2>3. \A r \in Recorders : running'[r] \in {running[r], NoRec}
    BY <1>8
  <2>4. run[w] # <<>> => run[w][1].op # "relogin"
    BY <1>3
  <2>5. UNCHANGED recordersVars /\ \A i \in DOMAIN <<>> : <<>>[i].op # "relogin"
    BY <1>9, NoMore
  <2> QED
    BY <1>7, <2>1, <2>2, <2>3, <2>4, <2>5, NoMore, Ordinary
<1> QED
  BY <1>7, <1>13, <1>27, <1>28, <1>29, Together

-----------------------------------------------------------------------------
(* A section about recording s that leaves the record as it is.            *)
LEMMA PopKeeps ==
  ASSUME RecordingInv, NEW w \in Goroutines, run[w] # <<>>, NEW q \in Seq(Item), Goes(w, q),
         \A i \in DOMAIN q : q[i].op = "editNotice" /\ q[i].s \in Recs,
         NEW s \in Recs, run[w][1].s = s,
         run[w][1].op \in {"leave", "closeRow", "release", "recover"},
         rec' = rec, UNCHANGED <<recordersVars, old, used, shutdown, human, check, snap>>,
         allowed["storeFault"] = 0 => allowed'["storeFault"] = 0,
         \A t \in Recs : t # s => Kept(t), TypeOK', RecTells(s)', RowTells(s)',
         \A x \in Item : Waits(x, w) /\ ItemTells(x) /\ x.s = s => ItemTells(x)',
         Runs(s)' => Runs(s), HasConn(s)' => HasConn(s) /\ (Runs(s)' <=> Runs(s)),
         \A r \in Recorders : running'[r] \in {running[r], NoRec},
         Pending({"release"}, s) /\ conn[s] = "none" => conn'[s] = "none",
         run[w][1].op = "leave" => conn'[s] = "none"
  PROVE  RecordingInv'
<1>1. /\ TypeOK /\ PlacesTell /\ EmptiesTell /\ ItemsTell /\ LeavesTell
      /\ Once(Holding) /\ Once({"closeRow"}) /\ Once({"recover"})
  BY DEF RecordingInv
<1>2. Moved(w, q)
  BY <1>1, GoesMoves
<1>3. \A i \in DOMAIN q : q[i].op \notin {"idle", "kick"} \cup Holding
                          /\ q[i].op \notin {"closeRow"} /\ q[i].op \notin {"recover"}
                          /\ q[i].op \in Loose
  BY DEF Holding, Closing, Loose
<1>4. PlacesTell'
  BY <1>1, <1>2, <1>3, PlacesLoose
<1>5. Once(Holding)'
  BY <1>1, <1>2, <1>3, OnceMoved
<1>6. Once({"closeRow"})'
  BY <1>1, <1>2, <1>3, OnceMoved
<1>7. Once({"recover"})'
  BY <1>1, <1>2, <1>3, OnceMoved
<1>8. \A c : Watched(c) => Watched(c)'
  BY <1>1, <1>2, WatchedOn
<1>9. Listing => Listing'
  BY <1>1, <1>2, ListingOn
<1>10. EmptyTells(s)'
  BY <1>1, <1>8 DEF EmptiesTell, EmptyTells, Live
<1>11. ItemsTell' /\ RecsTell' /\ EmptiesTell' /\ RowsTold'
  <2>1. PICK X : X = {s}
    OBVIOUS
  <2>2. \A t \in Recs : t \notin X => Kept(t)
    BY <2>1
  <2>3. \A t \in Recs : t \in X => RecTells(t)' /\ EmptyTells(t)' /\ RowTells(t)'
    BY <1>10, <2>1
  <2>4. \A x \in Item : Waits(x, w) /\ ItemTells(x) /\ x.s \in X => ItemTells(x)'
    BY <2>1
  <2>5. run[w] # <<>> /\ run[w][1].op \in Counted => run[w][1].s \in X
    BY <2>1
  <2>6. owed \subseteq owed'
    BY DEF recordersVars
  <2>7. \A x \in Item : (\E i \in DOMAIN q : q[i] = x) => ItemTells(x)'
    BY DEF ItemTells, Opening, Closing
  <2> QED
    BY <1>2, <1>8, <1>9, <2>2, <2>3, <2>4, <2>5, <2>6, <2>7, Touched
<1>12. LeavesTell'
  BY <1>1, <1>2, PendingRecs, LeavesMoved DEF Kept
<1>13. /\ OnceRelogin' /\ OwedTells' /\ RunningTells' /\ OwnConn' /\ ConnsTell'
       /\ RecordersInv'
  BY <1>1, <1>2, PendingBack, Ordinary DEF HasConn, Kept
<1> QED
  BY <1>4, <1>5, <1>6, <1>7, <1>11, <1>12, <1>13, Together

(* The recorder is given back: its leave is over.                          *)
LEMMA ReleaseKeeps ==
  ASSUME RecordingInv, NEW w \in Goroutines, Release(w)
  PROVE  RecordingInv'
<1>1. /\ TypeOK /\ RecsTell /\ PlacesTell /\ RunningTells /\ LeavesTell /\ RowsTold
  BY DEF RecordingInv
<1>2. PICK s : s = Rec(w)
  OBVIOUS
<1>3. /\ run[w] # <<>> /\ run[w][1].op = "release" /\ run[w][1].s = s
      /\ ItemTells(run[w][1]) /\ LeaveTells(w, 1)
  BY <1>2, AtHead DEF Release
<1>4. Goes(w, <<>>) /\ Freed(s)
  BY <1>2 DEF Release
<1>5. s \in Recs /\ Runs(s) /\ ~Unended(s)
  BY <1>3 DEF ItemTells, Closing
<1>6. /\ RecTells(s) /\ rec[s] \in Active /\ rec[s].recorder \in Recorders /\ RowTells(s)
  BY <1>1, <1>5 DEF RecsTell, RowsTold, TypeOK, Active, Runs
<1>7. UNCHANGED <<recordersVars, at, seen, human, check, shutdown, rec, conn, ear, armed, row,
                  notice, used, old, snap, allowed>>
  BY DEF Release, world, adapter, kept
<1>8. Moved(w, <<>>)
  BY <1>3, <1>4, PoppedPlaces
<1>9. /\ running' \in [Recorders -> Recs \cup {NoRec}]
      /\ running'[rec[s].recorder] = NoRec
      /\ \A r \in Recorders : running'[r] \in {running[r], NoRec}
  BY <1>1, <1>4, <1>5, <1>6, FreedTypes
<1>10. TypeOK'
  BY <1>1, <1>7, <1>8, <1>9 DEF TypeOK, Moved, RecordersTypeOK, recordersVars
<1>11. ~Runs(s)'
  BY <1>5, <1>7, <1>9, RecordingAssumption DEF Runs
<1>12. \A t \in Recs : t # s => Kept(t)
  BY <1>1, <1>4, <1>5, <1>6, <1>7, FreedOf DEF Kept
<1>13. \A g \in Goroutines : \A i \in DOMAIN run[g] :
         ~(g = w /\ i = 1) /\ run[g][i].s = s =>
           run[g][i].op \notin Opening \cup Closing \cup {"leave"}
  BY <1>3, <1>5, HolderAlone DEF Holding, Closing
<1>14. ~HasConn(s)'
  <2>1. conn[s] = "none"
    BY <1>3 DEF LeaveTells
  <2>2. ~Pending({"leave"}, s)
    BY <1>3, <1>13 DEF Pending, Runner
  <2>3. ~Pending({"leave"}, s)'
    BY <1>1, <1>8, <2>2, NoMore, PendingBack
  <2> QED
    BY <1>7, <2>1, <2>3 DEF HasConn
<1>15. RecTells(s)'
  BY <1>5, <1>6, <1>7, <1>11 DEF RecTells, Unended
<1>16. RowTells(s)'
  <2>1. Pending({"enter", "closeRow"}, s) => Pending({"enter", "closeRow"}, s)'
    BY <1>1, <1>3, <1>8, NoMore, PendingOn
  <2>2. Pending({"recover"}, s) => Pending({"recover"}, s)'
    BY <1>1, <1>3, <1>8, NoMore, PendingOn
  <2>3. Listing => Listing'
    BY <1>1, <1>3, <1>8, NoMore, ListingOn
  <2> QED
    BY <1>5, <1>6, <1>7, <2>1, <2>2, <2>3 DEF RowTells, NoStoreFaults, Unended
<1>17. \A x \in Item : Waits(x, w) /\ ItemTells(x) /\ x.s = s => ItemTells(x)'
  BY <1>7, <1>13 DEF Waits, ItemTells, recordersVars
<1>18. /\ <<>> \in Seq(Item)
       /\ \A i \in DOMAIN <<>> : <<>>[i].op = "editNotice" /\ <<>>[i].s \in Recs
  BY NoMore
<1>19. run[w][1].op \in {"leave", "closeRow", "release", "recover"} /\ run[w][1].op # "leave"
  BY <1>3
<1> QED
  BY <1>3, <1>4, <1>5, <1>7, <1>9, <1>10, <1>11, <1>12, <1>14, <1>15, <1>16, <1>17, <1>18,
     <1>19, PopKeeps

-----------------------------------------------------------------------------
(* How recordings end, and what recovery does.                             *)


(* The row gets its end.                                                   *)
LEMMA CloseRowKeeps ==
  ASSUME RecordingInv, NEW w \in Goroutines, CloseRow(w)
  PROVE  RecordingInv'
<1>1. /\ TypeOK /\ RecsTell /\ RowsTold /\ Once({"closeRow"})
  BY DEF RecordingInv
<1>2. PICK s : s = Rec(w)
  OBVIOUS
<1>3. /\ run[w] # <<>> /\ run[w][1].op = "closeRow" /\ run[w][1].s = s
      /\ ItemTells(run[w][1]) /\ 1 \in DOMAIN run[w]
  BY <1>2, AtHead DEF CloseRow
<1>4. Goes(w, <<>>)
  BY DEF CloseRow
<1>5. s \in Recs /\ rec[s].ended \in Ends /\ row[s] = "open"
  BY <1>3 DEF ItemTells
<1>6. RecTells(s) /\ RowTells(s) /\ s \in Nat /\ used \in Nat
  BY <1>1, <1>5, RecordingAssumption DEF RecsTell, RowsTold, TypeOK
<1>7. rec[s].entered /\ ~Unended(s) /\ s \notin old /\ s <= used
  BY <1>5, <1>6 DEF RecTells, Unended, Ends
<1>8. UNCHANGED <<recordersVars, at, seen, human, check, running, rec, shutdown, conn, ear,
                  armed, notice, used, old, snap>>
  BY DEF CloseRow, world, adapter, runtime
<1>9. row' = [row EXCEPT ![s] = rec[s].ended] \/ row' = row
  BY <1>2 DEF CloseRow
<1>10. /\ row' \in [Recs -> Ends \cup {"none", "open"}]
       /\ row'[s] \in {row[s], rec[s].ended}
       /\ \A t \in Recs : t # s => row'[t] = row[t]
  BY <1>1, <1>5, <1>9 DEF TypeOK
<1>11. /\ allowed' \in [Kinds -> Nat]
       /\ allowed["storeFault"] = 0 => allowed' = allowed
       /\ row' = row => allowed["storeFault"] # 0
  BY SMTT(30), <1>1, <1>2, <1>5, SpendKeeps DEF CloseRow, Kinds, TypeOK, Ends, Spend
<1>12. Moved(w, <<>>)
  BY <1>3, <1>4, PoppedPlaces
<1>13. TypeOK'
  BY <1>1, <1>8, <1>10, <1>11, <1>12 DEF TypeOK, Moved, RecordersTypeOK, recordersVars
<1>14. \A t \in Recs : t # s => Kept(t)
  BY <1>8, <1>10 DEF Kept, Runs
<1>15. Runs(s)' <=> Runs(s)
  BY <1>8 DEF Runs
<1>16. RecTells(s)'
  <2>1. Pending(Holding, s) => Pending(Holding, s)'
    BY <1>1, <1>3, <1>12, NoMore, PendingOn DEF Holding, Closing
  <2> QED
    BY <1>6, <1>7, <1>8, <1>15, <2>1 DEF RecTells, Unended
<1>17. RowTells(s)'
  BY <1>1, <1>5, <1>6, <1>9, <1>10, <1>11 DEF Ends, TypeOK, RowTells, NoStoreFaults
<1>18. \A x \in Item : Waits(x, w) /\ ItemTells(x) /\ x.s = s => ItemTells(x)'
  BY <1>1, <1>3, <1>7, <1>8, <1>15 DEF Waits, Once, ItemTells, recordersVars, Unended
<1>19. HasConn(s)' => HasConn(s)
  BY <1>1, <1>8, <1>12, NoMore, PendingBack DEF HasConn
<1>20. /\ <<>> \in Seq(Item)
       /\ \A i \in DOMAIN <<>> : <<>>[i].op = "editNotice" /\ <<>>[i].s \in Recs
  BY NoMore
<1>21. run[w][1].op \in {"leave", "closeRow", "release", "recover"} /\ run[w][1].op # "leave"
  BY <1>3
<1>22. /\ \A r \in Recorders : running'[r] \in {running[r], NoRec}
       /\ conn[s] = "none" => conn'[s] = "none"
       /\ allowed["storeFault"] = 0 => allowed'["storeFault"] = 0
       /\ rec' = rec /\ UNCHANGED <<recordersVars, old, used, shutdown, human, check, snap>>
  BY <1>8, <1>11
<1> QED
  BY <1>3, <1>4, <1>5, <1>13, <1>14, <1>15, <1>16, <1>17, <1>18, <1>19, <1>20, <1>21, <1>22,
     PopKeeps

(* Recovery closes a row of the last process.                              *)
LEMMA RecoverKeeps ==
  ASSUME RecordingInv, Recover
  PROVE  RecordingInv'
<1>1. /\ TypeOK /\ RecsTell /\ RowsTold /\ Once({"recover"}) /\ Recovery \in Goroutines
  BY DEF RecordingInv, Goroutines
<1> DEFINE w == Recovery
<1>2. PICK s : s = Rec(w)
  OBVIOUS
<1>3. /\ run[w] # <<>> /\ run[w][1].op = "recover" /\ run[w][1].s = s
      /\ ItemTells(run[w][1]) /\ 1 \in DOMAIN run[w]
  BY <1>1, <1>2, AtHead DEF Recover
<1>5. s \in Recs /\ s \in old /\ row[s] = "open"
  BY <1>3 DEF ItemTells
<1>6. RecTells(s) /\ RowTells(s) /\ s \in Nat /\ used \in Nat
  BY <1>1, <1>5, RecordingAssumption DEF RecsTell, RowsTold, TypeOK
<1>7. ~rec[s].entered /\ ~Unended(s) /\ ~Runs(s) /\ s <= used /\ rec[s].ended = "no"
  BY <1>5, <1>6 DEF RecTells, Unended, Runs
<1>8. UNCHANGED <<recordersVars, at, seen, human, check, running, rec, shutdown, conn, ear,
                  armed, notice, used, old, snap>>
  BY DEF Recover, world, adapter, runtime
<1>4. PICK q : /\ Goes(w, q) /\ (OneAs(q, "editNotice", s) \/ q = <<>>)
               /\ \/ UNCHANGED allowed /\ row' = [row EXCEPT ![s] = "restart"]
                  \/ Spend("storeFault")
               /\ row' = [row EXCEPT ![s] = "restart"] \/ row' = row
  BY <1>2 DEF Recover, OneAs
<1>9. q \in Seq(Item) /\ \A i \in DOMAIN q : q[i].op = "editNotice" /\ q[i].s \in Recs
  <2>1. CASE q = <<>>
    BY <2>1, NoMore
  <2>2. CASE OneAs(q, "editNotice", s)
    BY <1>5, <1>6, <2>2, ItemOf, OneItem DEF Stops, OneAs
  <2> QED
    BY <1>4, <2>1, <2>2
<1>10. /\ row' \in [Recs -> Ends \cup {"none", "open"}]
       /\ row'[s] \in {row[s], "restart"}
       /\ \A t \in Recs : t # s => row'[t] = row[t]
  BY <1>1, <1>4, <1>5 DEF TypeOK, Ends
<1>11. /\ allowed' \in [Kinds -> Nat]
       /\ allowed["storeFault"] = 0 => allowed' = allowed
       /\ row' = row => allowed["storeFault"] # 0
  BY <1>1, <1>4, <1>5, SpendKeeps DEF Kinds, TypeOK, Spend
<1>12. Moved(w, q)
  BY <1>1, <1>3, <1>4, <1>9, GoesMoves
<1>13. TypeOK'
  BY <1>1, <1>8, <1>10, <1>11, <1>12 DEF TypeOK, Moved, RecordersTypeOK, recordersVars
<1>14. \A t \in Recs : t # s => Kept(t)
  BY <1>8, <1>10 DEF Kept, Runs
<1>15. Runs(s)' <=> Runs(s)
  BY <1>8 DEF Runs
<1>16. RecTells(s)'
  BY <1>6, <1>7, <1>8, <1>15 DEF RecTells, Unended
<1>17. RowTells(s)'
  BY <1>1, <1>4, <1>5, <1>6, <1>11 DEF TypeOK, RowTells, NoStoreFaults
<1>18. \A x \in Item : Waits(x, w) /\ ItemTells(x) /\ x.s = s => ItemTells(x)'
  BY <1>1, <1>3, <1>7, <1>8, <1>15 DEF Waits, Once, ItemTells, Ends, recordersVars,
     Unended
<1>19. HasConn(s)' => HasConn(s)
  BY <1>1, <1>8, <1>9, <1>12, PendingBack DEF HasConn
<1>21. run[w][1].op \in {"leave", "closeRow", "release", "recover"} /\ run[w][1].op # "leave"
  BY <1>3
<1>22. /\ \A r \in Recorders : running'[r] \in {running[r], NoRec}
       /\ conn[s] = "none" => conn'[s] = "none"
       /\ allowed["storeFault"] = 0 => allowed'["storeFault"] = 0
       /\ rec' = rec /\ UNCHANGED <<recordersVars, old, used, shutdown, human, check, snap>>
       /\ w \in Goroutines
  BY <1>1, <1>8, <1>11
<1> HIDE DEF w
<1> QED
  BY <1>3, <1>4, <1>5, <1>9, <1>13, <1>14, <1>15, <1>16, <1>17, <1>18, <1>19, <1>21, <1>22,
     PopKeeps

(* A leave that is answered in time.                                       *)
LEMMA LeftTypes ==
  ASSUME TypeOK, NEW s, Left(s)
  PROVE  at' \in [Recorders -> Place]
  BY DEF Place, TypeOK, Left

(* While a leave waits no start of its recording is under way.             *)
LEMMA LeaveAlone ==
  ASSUME RecordingInv, NEW w \in Goroutines, run[w] # <<>>, run[w][1].op = "leave",
         NEW g \in Goroutines, NEW i \in DOMAIN run[g], run[g][i].s = run[w][1].s
  PROVE  run[g][i].op \notin Opening
<1>1. /\ TypeOK /\ ItemsTell /\ PlacesTell /\ LeavesTell /\ Once(Holding)
  BY DEF RecordingInv
<1> SUFFICES ASSUME run[g][i].op \in Opening PROVE FALSE
  OBVIOUS
<1>2. 1 \in DOMAIN run[w] /\ DOMAIN run[w] = 1 .. Len(run[w]) /\ Len(run[w]) \in Nat
  BY <1>1, Queues
<1>3. Runs(run[w][1].s)
  BY <1>1 DEF ItemsTell, ItemTells
<1>4. PICK j \in 2 .. Len(run[w]) : run[w][j].op \in Closing /\ run[w][j].s = run[w][1].s
  BY <1>1, <1>2, <1>3 DEF LeavesTell, LeaveTells
<1>5. j \in DOMAIN run[w] /\ run[w][j].op \in Holding /\ run[w][j].op \notin Opening
  BY <1>2, <1>4 DEF Holding, Closing, Opening
<1>6. \A k \in DOMAIN run[g] : run[g][k].op \in Holding /\ run[g][k].s = run[w][1].s
                                 => g = w /\ k = j
  BY <1>1, <1>4, <1>5 DEF Once
<1>7. run[g][i].op = "receive"
  BY <1>5, <1>6 DEF Holding, Opening
<1>8. i = 1 /\ Len(run[g]) = 3 /\ run[g][2] = Do("enter", run[g][i].s)
  BY <1>1, <1>7 DEF PlacesTell, PlaceTells
<1>9. 2 \in DOMAIN run[g] /\ run[g][2].op = "enter" /\ run[g][2].s = run[w][1].s
  BY <1>1, <1>8, Queues, DoParts
<1> QED
  BY <1>5, <1>6, <1>9 DEF Holding, Opening

LEMMA LeaveInTime ==
  ASSUME RecordingInv, NEW w \in Goroutines, Leave(w), NEW s, s = Rec(w),
         conn' = [conn EXCEPT ![s] = "none"], ear' = [ear EXCEPT ![s] = "off"],
         Left(s), Goes(w, <<>>), UNCHANGED allowed
  PROVE  RecordingInv'
<1>1. /\ TypeOK /\ RecsTell /\ RowsTold
  BY DEF RecordingInv
<1>3. /\ run[w] # <<>> /\ run[w][1].op = "leave" /\ run[w][1].s = s
      /\ ItemTells(run[w][1]) /\ 1 \in DOMAIN run[w]
  BY AtHead DEF Leave
<1>5. s \in Recs /\ ~Unended(s)
  BY <1>3 DEF ItemTells
<1>6. RecTells(s) /\ RowTells(s)
  BY <1>1, <1>5 DEF RecsTell, RowsTold
<1>8. UNCHANGED <<recordersVars, seen, human, check, running, rec, shutdown, row,
                  armed, notice, used, old, snap>>
  BY DEF Leave, runtime, kept
<1>12. Moved(w, <<>>)
  BY <1>3, PoppedPlaces
<1>13. TypeOK'
  BY <1>1, <1>8, <1>12, LeftTypes DEF TypeOK, Moved, RecordersTypeOK, recordersVars
<1>10. conn'[s] = "none" /\ \A t \in Recs : t # s => conn'[t] = conn[t]
  BY <1>1, <1>5 DEF TypeOK
<1>14. \A t \in Recs : t # s => Kept(t)
  BY <1>8, <1>10 DEF Kept, Runs
<1>15. Runs(s)' <=> Runs(s)
  BY <1>8 DEF Runs
<1>16. RecTells(s)'
  <2>1. Pending(Holding, s) => Pending(Holding, s)'
    BY <1>1, <1>3, <1>12, NoMore, PendingOn DEF Holding, Closing
  <2> QED
    BY <1>5, <1>6, <1>8, <1>10, <1>15, <2>1 DEF RecTells, Unended
<1>17. RowTells(s)'
  BY <1>1, <1>3, <1>6, <1>8, <1>12, NoMore, PendingOn, ListingOn DEF RowTells,
     NoStoreFaults, Unended
<1>18. \A x \in Item : Waits(x, w) /\ ItemTells(x) /\ x.s = s => ItemTells(x)'
  BY <1>3, <1>8, <1>15, LeaveAlone DEF Waits, ItemTells, recordersVars, Unended
<1>19. HasConn(s)
  BY <1>3 DEF Pending, Runner, HasConn
<1>20. /\ <<>> \in Seq(Item)
       /\ \A i \in DOMAIN <<>> : <<>>[i].op = "editNotice" /\ <<>>[i].s \in Recs
  BY NoMore
<1>21. run[w][1].op \in {"leave", "closeRow", "release", "recover"}
  BY <1>3
<1>22. /\ \A r \in Recorders : running'[r] \in {running[r], NoRec}
       /\ allowed["storeFault"] = 0 => allowed'["storeFault"] = 0
       /\ rec' = rec /\ UNCHANGED <<recordersVars, old, used, shutdown, human, check, snap>>
  BY <1>8
<1> QED
  BY <1>3, <1>5, <1>10, <1>13, <1>14, <1>15, <1>16, <1>17, <1>18, <1>19, <1>20, <1>21, <1>22,
     PopKeeps

-----------------------------------------------------------------------------
(* A leave that hangs: its release, further back in the queue, is late.    *)
Late(x, s) == IF x.op = "release" /\ x.s = s THEN Do("releaseLate", s) ELSE x

LateFor(w, s) ==
  /\ run' \in [Goroutines -> Seq(Item)]
  /\ \A g \in Goroutines \ {w} : run'[g] = run[g]
  /\ Len(run'[w]) = Len(run[w]) - 1
  /\ \A i \in 1 .. Len(run[w]) - 1 : run'[w][i] = Late(run[w][i + 1], s)

LEMMA RanLateMoves ==
  ASSUME TypeOK, NEW w \in Goroutines, NEW s \in Nat, run[w] # <<>>,
         run' = [run EXCEPT ![w] = RanLate(Tail(@), s)]
  PROVE  LateFor(w, s)
<1> DEFINE o == run[w]
           t == Tail(o)
           q == RanLate(t, s)
<1>1. o \in Seq(Item) /\ Len(o) \in Nat /\ Len(o) >= 1
  BY Queues
<1>2. t \in Seq(Item) /\ Len(t) = Len(o) - 1 /\ \A i \in 1 .. Len(o) - 1 : t[i] = o[i + 1]
  BY <1>1
<1>3. DOMAIN t = 1 .. Len(o) - 1
  BY <1>2
<1> HIDE DEF o, t
<1>4. Do("releaseLate", s) \in Item
  BY ItemOf DEF Stops
<1>5. \A i \in 1 .. Len(o) - 1 : Late(t[i], s) \in Item
  BY <1>2, <1>3, <1>4 DEF Late
<1>6. q = [i \in 1 .. Len(o) - 1 |-> Late(t[i], s)]
  BY <1>3 DEF RanLate, Late
<1>7. q \in Seq(Item) /\ Len(q) = Len(o) - 1
  BY <1>1, <1>5, <1>6
<1>8. \A i \in 1 .. Len(o) - 1 : q[i] = Late(o[i + 1], s)
  BY <1>2, <1>6
<1>9. run' = [run EXCEPT ![w] = q]
  BY DEF q, t, o
<1> HIDE DEF q
<1>10. run'[w] = q /\ run' \in [Goroutines -> Seq(Item)]
       /\ \A g \in Goroutines \ {w} : run'[g] = run[g]
  BY <1>7, <1>9 DEF TypeOK
<1> QED
  BY <1>7, <1>8, <1>10 DEF LateFor, o

(* Where an item of the next state was, and where one of this state goes.  *)
LEMMA LateItems ==
  ASSUME TypeOK, NEW w \in Goroutines, NEW s \in Nat, run[w] # <<>>, LateFor(w, s),
         NEW g \in Goroutines, NEW i \in DOMAIN run'[g]
  PROVE  LET k == IF g = w THEN i + 1 ELSE i
         IN /\ i \in Nat /\ k \in DOMAIN run[g] /\ ~(g = w /\ k = 1)
            /\ run'[g][i].s = run[g][k].s
            /\ \/ run'[g][i] = run[g][k]
               \/ /\ g = w /\ run[g][k].op = "release" /\ run[g][k].s = s
                  /\ run'[g][i].op = "releaseLate"
            /\ run'[g][i].op = "release" => ~(g = w /\ run[g][k].s = s)
            /\ run'[g][i] \in Item
<1> DEFINE n == Len(run[w])
           m == Len(run'[w])
<1>1. /\ run[g] \in Seq(Item) /\ DOMAIN run[g] = 1 .. Len(run[g])
      /\ n \in Nat /\ DOMAIN run[w] = 1 .. n
  BY Queues
<1>2. run'[g] \in Seq(Item) /\ run'[w] \in Seq(Item)
  BY DEF LateFor
<1>3. DOMAIN run'[g] = 1 .. Len(run'[g]) /\ i \in Nat /\ i >= 1 /\ run'[g][i] \in Item
  BY <1>2
<1>4. ASSUME g # w PROVE run'[g] = run[g]
  BY <1>4 DEF LateFor
<1>5. ASSUME g = w PROVE i \in 1 .. n - 1
  BY <1>2, <1>3, <1>5 DEF LateFor
<1>6. CASE g # w
  BY <1>1, <1>3, <1>4, <1>6
<1>7. CASE g = w
  BY <1>1, <1>3, <1>5, <1>7, DoParts DEF LateFor, Late
<1> QED
  BY <1>6, <1>7

LEMMA LateOn ==
  ASSUME TypeOK, NEW w \in Goroutines, NEW s \in Nat, run[w] # <<>>, LateFor(w, s),
         NEW g \in Goroutines, NEW k \in DOMAIN run[g], ~(g = w /\ k = 1)
  PROVE  LET i == IF g = w THEN k - 1 ELSE k
         IN /\ k \in Nat /\ i \in DOMAIN run'[g] /\ run'[g][i].s = run[g][k].s
            /\ \/ run'[g][i] = run[g][k]
               \/ run[g][k].op = "release" /\ run'[g][i].op = "releaseLate"
<1> DEFINE n == Len(run[w])
           m == Len(run'[w])
<1>1. /\ run[g] \in Seq(Item) /\ DOMAIN run[g] = 1 .. Len(run[g])
      /\ n \in Nat /\ DOMAIN run[w] = 1 .. n
  BY Queues
<1>2. CASE g # w
  BY <1>1, <1>2 DEF LateFor
<1>3. CASE g = w
  <2>1. run'[w] \in Seq(Item) /\ m = n - 1
    BY DEF LateFor
  <2>2. DOMAIN run'[w] = 1 .. m
    BY <2>1
  <2>3. k \in 1 .. n /\ k # 1
    BY <1>1, <1>3
  <2>4. k - 1 \in 1 .. m /\ k - 1 \in 1 .. n - 1 /\ k - 1 + 1 = k /\ k \in Nat
    <3> HIDE DEF n, m
    <3> QED
      BY <1>1, <2>1, <2>3
  <2>5. PICK i : i = k - 1
    OBVIOUS
  <2>6. run'[w][i] = Late(run[w][i + 1], s) /\ i + 1 = k /\ i \in DOMAIN run'[w]
    BY <2>2, <2>4, <2>5 DEF LateFor
  <2>7. run'[w][i] = run[w][k] \/ /\ run[w][k].op = "release" /\ run[w][k].s = s
                                  /\ run'[w][i] = Do("releaseLate", s)
    BY <2>6 DEF Late
  <2>8. /\ run'[w][i].s = run[w][k].s
        /\ \/ run'[w][i] = run[w][k]
           \/ run[w][k].op = "release" /\ run'[w][i].op = "releaseLate"
    BY <2>7, DoParts
  <2> QED
    BY <1>3, <2>4, <2>5, <2>6, <2>8
<1> QED
  BY <1>2, <1>3

(* Ops that a late release neither joins nor leaves.                       *)
Even(ops) == "release" \in ops <=> "releaseLate" \in ops

LEMMA LatePending ==
  ASSUME TypeOK, NEW w \in Goroutines, NEW s \in Nat, run[w] # <<>>, LateFor(w, s),
         NEW ops, Even(ops), NEW t
  PROVE  /\ Pending(ops, t)' => Pending(ops, t)
         /\ Pending(ops, t) /\ ~(run[w][1].op \in ops /\ run[w][1].s = t) => Pending(ops, t)'
  BY SMTT(30), LateItems, LateOn DEF Pending, Runner, Even

LEMMA LateOnce ==
  ASSUME TypeOK, NEW w \in Goroutines, NEW s \in Nat, run[w] # <<>>, LateFor(w, s),
         NEW ops, Even(ops), Once(ops)
  PROVE  Once(ops)'
<1> SUFFICES ASSUME NEW g \in Goroutines, NEW h \in Goroutines,
                    NEW i \in DOMAIN run'[g], NEW j \in DOMAIN run'[h],
                    run'[g][i].op \in ops, run'[h][j].op \in ops,
                    run'[g][i].s = run'[h][j].s
             PROVE  g = h /\ i = j
  BY DEF Once
<1>1. PICK k : k = IF g = w THEN i + 1 ELSE i
  OBVIOUS
<1>2. PICK l : l = IF h = w THEN j + 1 ELSE j
  OBVIOUS
<1>3. /\ i \in Nat /\ k \in DOMAIN run[g] /\ run'[g][i].s = run[g][k].s
      /\ \/ run'[g][i] = run[g][k]
         \/ run[g][k].op = "release" /\ run'[g][i].op = "releaseLate"
  BY <1>1, LateItems
<1>4. /\ j \in Nat /\ l \in DOMAIN run[h] /\ run'[h][j].s = run[h][l].s
      /\ \/ run'[h][j] = run[h][l]
         \/ run[h][l].op = "release" /\ run'[h][j].op = "releaseLate"
  BY <1>2, LateItems
<1>5. run[g][k].op \in ops /\ run[h][l].op \in ops
  BY <1>3, <1>4 DEF Even
<1>6. run[g][k].s = run[h][l].s /\ k \in DOMAIN run[g] /\ l \in DOMAIN run[h]
  BY <1>3, <1>4
<1>7. g = h /\ k = l
  BY <1>5, <1>6 DEF Once
<1> QED
  BY <1>1, <1>2, <1>3, <1>4, <1>7

LEMMA LatePlaces ==
  ASSUME RecordingInv, NEW w \in Goroutines, NEW s \in Nat, run[w] # <<>>,
         run[w][1].op = "leave", LateFor(w, s)
  PROVE  PlacesTell'
<1>1. TypeOK /\ PlacesTell
  BY DEF RecordingInv
<1> SUFFICES ASSUME NEW g \in Goroutines, NEW i \in DOMAIN run'[g]
             PROVE  PlaceTells(g, i)'
  BY DEF PlacesTell
<1>2. CASE g # w
  BY SMTT(30), <1>1, <1>2 DEF LateFor, PlacesTell, PlaceTells
<1>3. CASE g = w
  <2> DEFINE n == Len(run[w])
             m == Len(run'[w])
  <2>1. PICK k : k = i + 1
    OBVIOUS
  <2>2. /\ i \in Nat /\ k \in DOMAIN run[w] /\ k # 1
        /\ run'[w][i].s = run[w][k].s
        /\ \/ run'[w][i] = run[w][k]
           \/ run[w][k].op = "release" /\ run'[w][i].op = "releaseLate"
    BY <1>1, <1>3, <2>1, LateItems
  <2>3. PlaceTells(w, k)
    BY <1>1, <2>2 DEF PlacesTell
  <2>4. DOMAIN run[w] = 1 .. n /\ n \in Nat /\ m = n - 1
    BY <1>1, Queues DEF LateFor
  <2>5. k \in 1 .. n /\ 1 \in 1 .. n /\ n # 1
    BY <2>2, <2>4
  <2>6. run[w][k].op \notin Alone \cup {"receive", "list"}
    <3>1. run[w][k].op \notin Alone
      BY <2>3, <2>5 DEF PlaceTells, Alone
    <3>2. run[w][k].op # "receive"
      BY <2>2, <2>3 DEF PlaceTells
    <3>3. run[w][k].op # "list"
      BY <2>2, <2>3, <2>4 DEF PlaceTells
    <3> QED
      BY <3>1, <3>2, <3>3
  <2>7. ASSUME run'[w][i].op = "enter"
        PROVE  m = i + 1 /\ run'[w][i + 1].op = "check"
    <3>1. n = k + 1 /\ run[w][k + 1].op = "check"
      BY <2>2, <2>3, <2>7 DEF PlaceTells
    <3>2. i + 1 \in 1 .. n - 1 /\ i + 1 + 1 = k + 1 /\ m = i + 1
      BY <2>1, <2>2, <2>4, <3>1
    <3>3. run'[w][i + 1] = Late(run[w][i + 1 + 1], s)
      BY <3>2 DEF LateFor
    <3>4. run'[w][i + 1] = run[w][k + 1]
      BY <3>1, <3>2, <3>3 DEF Late
    <3> QED
      BY <3>1, <3>2, <3>4
  <2>8. run'[w][i].op = "check" => m = i
    BY <2>1, <2>2, <2>3, <2>4 DEF PlaceTells
  <2>9. run'[w][i].op \in Recovers => w = Recovery
    BY <2>2, <2>3 DEF PlaceTells, Recovers
  <2>10. run'[w][i].op \notin Alone \cup {"receive", "list"}
    BY <2>2, <2>6 DEF Alone
  <2> QED
    BY <1>3, <2>7, <2>8, <2>9, <2>10 DEF PlaceTells, Alone
<1> QED
  BY <1>2, <1>3

LEMMA LateLeaves ==
  ASSUME RecordingInv, NEW w \in Goroutines, NEW s \in Recs, run[w] # <<>>,
         run[w][1].op = "leave", run[w][1].s = s, LateFor(w, s),
         \A t \in Recs : (Runs(t)' <=> Runs(t)) /\ (t # s => conn'[t] = conn[t])
  PROVE  LeavesTell'
<1>1. /\ TypeOK /\ ItemsTell /\ LeavesTell /\ Once(Holding) /\ s \in Nat
  BY RecordingAssumption DEF RecordingInv
<1>2. 1 \in DOMAIN run[w] /\ DOMAIN run[w] = 1 .. Len(run[w]) /\ Len(run[w]) \in Nat
  BY <1>1, Queues
<1> SUFFICES ASSUME NEW g \in Goroutines, NEW i \in DOMAIN run'[g]
             PROVE  LeaveTells(g, i)'
  BY DEF LeavesTell
<1>3. PICK k : k = IF g = w THEN i + 1 ELSE i
  OBVIOUS
<1>4. PICK t : t = run[g][k].s
  OBVIOUS
<1>5. /\ i \in Nat /\ k \in DOMAIN run[g] /\ ~(g = w /\ k = 1)
      /\ run'[g][i].s = t
      /\ run'[g][i] # run[g][k] => run'[g][i].op = "releaseLate"
      /\ run'[g][i].op = "release" => ~(g = w /\ t = s)
  BY <1>1, <1>3, <1>4, LateItems
<1>6. LeaveTells(g, k) /\ ItemTells(run[g][k])
  BY <1>1, <1>5 DEF LeavesTell, ItemsTell
<1>7. ASSUME NEW j \in DOMAIN run[g], ~(g = w /\ j = 1)
      PROVE  LET l == IF g = w THEN j - 1 ELSE j
             IN /\ l \in DOMAIN run'[g] /\ run'[g][l].s = run[g][j].s
                /\ run[g][j].op = "leave" => run'[g][l].op = "leave"
                /\ run[g][j].op \in Closing => run'[g][l].op \in Closing
  BY <1>1, <1>7, LateOn DEF Closing
<1>8. /\ k \in Nat /\ DOMAIN run[g] = 1 .. Len(run[g]) /\ Len(run[g]) \in Nat
      /\ DOMAIN run'[g] = 1 .. Len(run'[g]) /\ Len(run'[g]) \in Nat
  BY <1>1, <1>5, Queues DEF LateFor
<1>9. ASSUME run'[g][i].op = "release"
      PROVE  conn'[t] = "none" \/ \E j \in 1 .. i - 1 : run'[g][j].op = "leave"
                                                     /\ run'[g][j].s = t
  <2>1. run'[g][i] = run[g][k] /\ t \in Recs
    BY <1>4, <1>5, <1>6, <1>9 DEF ItemTells
  <2>2. t # s
    BY SMTT(60), <1>1, <1>2, <1>4, <1>5, <1>6, <1>9, <2>1 DEF ItemTells, Closing, LeavesTell,
       LeaveTells, Holding, Once
  <2>3. CASE conn[t] = "none"
    BY <2>1, <2>2, <2>3
  <2>4. CASE conn[t] # "none"
    <3>1. PICK j \in 1 .. k - 1 : run[g][j].op = "leave" /\ run[g][j].s = t
      BY <1>4, <1>6, <1>9, <2>1, <2>4 DEF LeaveTells
    <3>2. j \in DOMAIN run[g] /\ ~(g = w /\ j = 1)
      BY <1>5, <1>8, <2>2, <3>1
    <3>3. PICK l : l = IF g = w THEN j - 1 ELSE j
      OBVIOUS
    <3>4. l \in DOMAIN run'[g] /\ run'[g][l].op = "leave" /\ run'[g][l].s = t
      BY <1>7, <3>1, <3>2, <3>3
    <3>5. l \in 1 .. i - 1
      BY <1>3, <1>5, <1>8, <3>1, <3>3, <3>4
    <3> QED
      BY <3>4, <3>5
  <2> QED
    BY <2>3, <2>4
<1>10. ASSUME run'[g][i].op = "leave", Runs(t)'
       PROVE  \E j \in i + 1 .. Len(run'[g]) : run'[g][j].op \in Closing /\ run'[g][j].s = t
  <2>1. run[g][k].op = "leave" /\ t \in Recs
    BY <1>4, <1>5, <1>6, <1>10 DEF ItemTells
  <2>2. PICK j \in k + 1 .. Len(run[g]) : run[g][j].op \in Closing /\ run[g][j].s = t
    BY <1>4, <1>6, <1>10, <2>1 DEF LeaveTells
  <2>3. j \in DOMAIN run[g] /\ ~(g = w /\ j = 1)
    BY <1>5, <1>8, <2>2
  <2>4. PICK l : l = IF g = w THEN j - 1 ELSE j
    OBVIOUS
  <2>5. l \in DOMAIN run'[g] /\ run'[g][l].op \in Closing /\ run'[g][l].s = t
    BY <1>7, <2>2, <2>3, <2>4
  <2>6. l \in i + 1 .. Len(run'[g])
    BY <1>3, <1>5, <1>8, <2>2, <2>4, <2>5
  <2> QED
    BY <2>5, <2>6
<1> QED
  BY <1>5, <1>9, <1>10 DEF LeaveTells

(* A leave that runs past its deadline.                                    *)
LEMMA LeaveHung ==
  ASSUME RecordingInv, NEW w \in Goroutines, Leave(w), NEW s, s = Rec(w),
         conn' = [conn EXCEPT ![s] = "hung"], UNCHANGED <<ear, at>>,
         run' = [run EXCEPT ![w] = RanLate(Tail(@), s)], Spend("hang")
  PROVE  RecordingInv'
<1>1. /\ TypeOK /\ RecsTell /\ RowsTold /\ ItemsTell /\ EmptiesTell /\ ConnsTell /\ OwnConn
      /\ RecordersInv /\ OnceRelogin /\ OwedTells /\ RunningTells
      /\ Once(Holding) /\ Once({"closeRow"}) /\ Once({"recover"})
  BY DEF RecordingInv
<1>2. /\ run[w] # <<>> /\ run[w][1].op = "leave" /\ run[w][1].s = s
      /\ ItemTells(run[w][1]) /\ 1 \in DOMAIN run[w]
  BY AtHead DEF Leave
<1>3. s \in Recs /\ s \in Nat /\ ~Unended(s) /\ rec[s].recorder \in Recorders
  BY <1>2, RecordingAssumption DEF ItemTells
<1>4. UNCHANGED <<recordersVars, at, seen, human, check, running, rec, shutdown, row,
                  ear, armed, notice, used, old, snap>>
  BY DEF Leave, runtime, kept
<1>5. LateFor(w, s)
  BY <1>1, <1>2, <1>3, RanLateMoves
<1>25. TypeOK /\ run[w] # <<>> /\ s \in Nat /\ LateFor(w, s)
  BY <1>1, <1>2, <1>3, <1>5
<1>6. conn'[s] = "hung" /\ \A t \in Recs : t # s => conn'[t] = conn[t]
  BY <1>1, <1>3 DEF TypeOK
<1>7. allowed' \in [Kinds -> Nat] /\ (allowed["storeFault"] = 0 => allowed'["storeFault"] = 0)
  BY <1>1, SpendKeeps DEF Kinds
<1>8. TypeOK'
  BY <1>1, <1>4, <1>5, <1>7 DEF TypeOK, LateFor, RecordersTypeOK, recordersVars
<1>9. \A t \in Recs : t # s => Kept(t)
  BY <1>4, <1>6 DEF Kept, Runs
<1>10. \A t : Runs(t)' <=> Runs(t)
  BY <1>4 DEF Runs
<1>11. ASSUME NEW ops, Even(ops), "leave" \notin ops, NEW t
       PROVE  Pending(ops, t)' <=> Pending(ops, t)
  BY <1>2, <1>25, <1>11, LatePending
<1>12. /\ Even(Holding) /\ Even({"enter", "closeRow"}) /\ Even({"closeRow"})
       /\ Even({"recover"}) /\ Even({"relogin"}) /\ Even({"leave"})
       /\ "leave" \notin Holding \cup {"enter", "closeRow", "recover", "relogin"}
  BY DEF Even, Holding, Closing
<1>13. /\ Once(Holding)' /\ Once({"closeRow"})' /\ Once({"recover"})'
  BY <1>1, <1>25, <1>12, LateOnce
<1>14. OnceRelogin'
  <2>1. ASSUME NEW g \in Goroutines, NEW i \in DOMAIN run'[g], run'[g][i].op = "relogin"
        PROVE  LET k == IF g = w THEN i + 1 ELSE i
               IN i \in Nat /\ k \in DOMAIN run[g] /\ run'[g][i] = run[g][k]
    BY SMTT(30), <1>25, <2>1, LateItems
  <2> SUFFICES ASSUME NEW g \in Goroutines, NEW h \in Goroutines,
                      NEW i \in DOMAIN run'[g], NEW j \in DOMAIN run'[h],
                      run'[g][i].op = "relogin", run'[h][j].op = "relogin",
                      rec[run'[g][i].s].recorder = rec[run'[h][j].s].recorder
               PROVE  g = h /\ i = j
    BY <1>4 DEF OnceRelogin
  <2>2. PICK k : k = IF g = w THEN i + 1 ELSE i
    OBVIOUS
  <2>3. PICK l : l = IF h = w THEN j + 1 ELSE j
    OBVIOUS
  <2>4. /\ i \in Nat /\ k \in DOMAIN run[g] /\ run'[g][i] = run[g][k]
        /\ j \in Nat /\ l \in DOMAIN run[h] /\ run'[h][j] = run[h][l]
    BY SMTT(30), <2>1, <2>2, <2>3
  <2>5. g = h /\ k = l
    BY <1>1, <2>4 DEF OnceRelogin
  <2> QED
    BY <2>2, <2>3, <2>4, <2>5
<1>15. PlacesTell'
  BY <1>2, <1>3, <1>5, LatePlaces
<1>16. LeavesTell'
  BY ZenonT(30), <1>2, <1>3, <1>5, <1>6, <1>10, LateLeaves
<1>17. ItemsTell'
  <2> SUFFICES ASSUME NEW g \in Goroutines, NEW i \in DOMAIN run'[g]
               PROVE  ItemTells(run[g][i])'
    BY DEF ItemsTell
  <2>1. PICK k : k = IF g = w THEN i + 1 ELSE i
    OBVIOUS
  <2>2. PICK x : x = run[g][k]
    OBVIOUS
  <2>3. PICK y : y = run'[g][i]
    OBVIOUS
  <2>4. /\ k \in DOMAIN run[g] /\ y.s = x.s /\ y \in Item
        /\ y = x \/ (x.op = "release" /\ x.s = s /\ y.op = "releaseLate")
    BY <1>25, <2>1, <2>2, <2>3, LateItems
  <2>5. ItemTells(x) /\ x \in Item
    BY <1>1, <2>2, <2>4, Queues DEF ItemsTell
  <2>6. ASSUME x.s = s PROVE ItemTells(y)'
    <3>1. x.op \notin Opening
      BY <1>2, <2>2, <2>4, <2>6, LeaveAlone
    <3>2. CASE y = x
      BY <1>4, <1>10, <2>5, <3>1, <3>2 DEF ItemTells, recordersVars, Unended
    <3>3. CASE x.op = "release" /\ y.op = "releaseLate"
      BY <1>3, <1>4, <1>10, <2>4, <2>5, <2>6, <3>3 DEF ItemTells, Unended, Closing, Opening
    <3> QED
      BY <2>4, <3>2, <3>3
  <2>7. ASSUME x.s # s PROVE ItemTells(y)'
    BY <1>4, <1>9, <2>4, <2>5, <2>7, ItemKept DEF ItemTells, recordersVars
  <2> QED
    BY <2>3, <2>6, <2>7 DEF ItemTells
<1>18. RecsTell'
  <2> SUFFICES ASSUME NEW t \in Recs PROVE RecTells(t)'
    BY DEF RecsTell
  <2>1. Pending(Holding, t)' <=> Pending(Holding, t)
    BY <1>11, <1>12
  <2>2. RecTells(t) /\ used \in Nat
    BY <1>1 DEF RecsTell, TypeOK
  <2>3. CASE t = s
    BY <1>3, <1>4, <1>10, <2>1, <2>2, <2>3, RecordingAssumption DEF RecTells, Unended
  <2>4. CASE t # s
    BY <1>4, <1>9, <2>1, <2>2, <2>4, RecKept
  <2> QED
    BY <2>3, <2>4
<1>19. RowsTold'
  <2> SUFFICES ASSUME NEW t \in Recs PROVE RowTells(t)'
    BY DEF RowsTold
  <2>1. /\ Pending({"enter", "closeRow"}, t)' <=> Pending({"enter", "closeRow"}, t)
        /\ Pending({"recover"}, t)' <=> Pending({"recover"}, t)
    BY <1>11, <1>12
  <2>2. Listing => Listing'
    BY <1>1, <1>2, <1>3, <1>5, LateOn DEF Listing
  <2>3. RowTells(t)
    BY <1>1 DEF RowsTold
  <2> QED
    BY <1>4, <1>7, <2>1, <2>2, <2>3 DEF RowTells, NoStoreFaults, Unended
<1>20. EmptiesTell'
  BY <1>1, <1>2, <1>4, <1>25, LateOn DEF EmptiesTell, EmptyTells, Live, Watched
<1>21. \A t \in Recs : HasConn(t)' => HasConn(t)
  <2> SUFFICES ASSUME NEW t \in Recs, HasConn(t)' PROVE HasConn(t)
    OBVIOUS
  <2>1. CASE t = s
    BY <1>2, <2>1 DEF HasConn, Pending, Runner
  <2>2. CASE t # s
    BY <1>6, <1>12, <1>25, <2>2, LatePending DEF HasConn
  <2> QED
    BY <2>1, <2>2
<1>22. ConnsTell' /\ OwnConn'
  BY <1>1, <1>4, <1>10, <1>21 DEF ConnsTell, ConnTells, OwnConn, recordersVars
<1>23. OwedTells'
  BY <1>1, <1>4, <1>11, <1>12 DEF OwedTells, recordersVars
<1>24. RunningTells' /\ RecordersInv'
  BY <1>1, <1>4, StepInv DEF RunningTells
<1> QED
  BY <1>8, <1>13, <1>14, <1>15, <1>16, <1>17, <1>18, <1>19, <1>20, <1>22, <1>23, <1>24,
     Together

LEMMA LeaveKeeps ==
  ASSUME RecordingInv, NEW w \in Goroutines, Leave(w)
  PROVE  RecordingInv'
  BY LeaveInTime, LeaveHung DEF Leave

(* Nothing waits yet for a recording that has not been started.            *)
LEMMA NotYet ==
  ASSUME RecordingInv, NEW s \in Recs, s > used, NEW g \in Goroutines, NEW i \in DOMAIN run[g],
         run[g][i].s = s
  PROVE  run[g][i].op \notin Heavy \cup {"relogin"}
<1>1. RecTells(s) /\ ItemTells(run[g][i]) /\ owed \subseteq Recorders
  BY DEF RecordingInv, RecsTell, ItemsTell, TypeOK, RecordersTypeOK
<1>2. rec[s].recorder \notin Recorders /\ ~Runs(s) /\ s \notin old
  BY <1>1, RecordingAssumption DEF RecTells, Runs, TypeOK, RecordingInv
<1>3. rec[s].ended = "no"
  BY <1>1 DEF RecTells
<1> QED
  BY <1>1, <1>2, <1>3 DEF ItemTells, Heavy, Opening, Closing, Ends

LEMMA FirstFree ==
  ASSUME TypeOK, Free("online") \cup Free("offline") # {}, NEW r,
         r = Min(IF Free("online") # {} THEN Free("online") ELSE Free("offline"))
  PROVE  r \in Recorders /\ running[r] = NoRec /\ state[r] \in {"online", "offline"}
  BY RecordersAssumption, LeastOf DEF Free

(* A start reserves a free recorder.                                       *)
LEMMA StartsKeep ==
  ASSUME RecordingInv, NEW w \in Goroutines, NEW c \in Channels, Start(w, c)
  PROVE  RecordingInv'
<1>1. /\ TypeOK /\ RecsTell /\ RowsTold /\ ItemsTell /\ EmptiesTell /\ ConnsTell /\ OwnConn
      /\ RecordersInv /\ OnceRelogin /\ OwedTells /\ RunningTells /\ PlacesTell /\ LeavesTell
      /\ Once(Holding) /\ Once({"closeRow"}) /\ Once({"recover"})
  BY DEF RecordingInv
<1>2. PICK s : s = used + 1
  OBVIOUS
<1>3. PICK r : r = Min(IF Free("online") # {} THEN Free("online") ELSE Free("offline"))
  OBVIOUS
<1>4. PICK q : q = <<Do("join", s)>>
  OBVIOUS
<1>5. /\ s \in Recs /\ Begins(w, q) /\ running' = [running EXCEPT ![r] = s]
      /\ rec' = [rec EXCEPT ![s].chan = c, ![s].recorder = r] /\ used' = s
      /\ UNCHANGED <<recordersVars, at, seen, human, check, shutdown, conn, ear, armed, row,
                     notice, old, snap, allowed>>
  BY <1>2, <1>3, <1>4 DEF Start, world, adapter
<1>6. r \in Recorders /\ running[r] = NoRec
  BY <1>1, <1>3, FirstFree DEF Start
<1>7. s \in Nat /\ used \in Nat /\ s > used /\ RecTells(s) /\ RowTells(s)
  BY <1>1, <1>2, <1>5 DEF RecsTell, RowsTold, TypeOK
<1>8. /\ s \notin old /\ rec[s].recorder = NoRecorder /\ ~rec[s].entered /\ conn[s] = "none"
      /\ row[s] = "none" /\ ~rec[s].stopping /\ rec[s].ended = "no" /\ ~Runs(s)
  BY <1>7 DEF RecTells, Runs
<1>9. PICK x : x = Do("join", s)
  OBVIOUS
<1>10. x \in Item /\ x.op = "join" /\ x.s = s
  BY <1>7, <1>9, ItemOf DEF Starts
<1>11. q \in Seq(Item) /\ DOMAIN q = {1} /\ Len(q) = 1 /\ q[1] = x
  BY <1>4, <1>9, <1>10, OneItem
<1>12. Moved(w, q) /\ run[w] = <<>>
  BY <1>1, <1>5, <1>11, BeginsMoves
<1>13. rec' \in [Recs -> Active] /\ running' \in [Recorders -> Recs \cup {NoRec}]
  <2>1. rec[s] \in Active
    BY <1>1, <1>5 DEF TypeOK
  <2>2. [rec[s] EXCEPT !.chan = c, !.recorder = r] \in Active
    BY <1>6, <2>1 DEF Active
  <2>3. rec' = [rec EXCEPT ![s] = [rec[s] EXCEPT !.chan = c, !.recorder = r]]
    BY ZenonT(30), <1>1, <1>5, <2>1 DEF TypeOK, Active
  <2> QED
    BY <1>1, <1>5, <1>6, <2>2, <2>3 DEF TypeOK
<1>14. /\ rec'[s].recorder = r /\ ~rec'[s].entered /\ ~rec'[s].stopping /\ rec'[s].ended = "no"
       /\ running'[r] = s
       /\ \A t \in Recs : t # s => rec'[t] = rec[t]
       /\ \A p \in Recorders : p # r => running'[p] = running[p]
  BY <1>1, <1>5, <1>6, <1>8 DEF TypeOK, Active
<1>15. TypeOK'
  BY <1>1, <1>5, <1>7, <1>12, <1>13 DEF TypeOK, Moved, RecordersTypeOK, recordersVars
<1>16. \A t \in Recs : t # s => (Runs(t)' <=> Runs(t))
  BY <1>1, <1>6, <1>14, RecordingAssumption DEF TypeOK, Active, Runs
<1>17. \A t \in Recs : t # s => Kept(t)
  BY <1>5, <1>14, <1>16 DEF Kept
<1>18. Runs(s)'
  BY <1>6, <1>14, RecordingAssumption DEF Runs
<1>19. /\ \A i \in DOMAIN q : q[i] = x
       /\ \A y \in Item : (\E i \in DOMAIN q : q[i] = y) => y = x
  BY <1>11
<1>20. ItemTells(x)'
  BY <1>5, <1>8, <1>10, <1>14, <1>18 DEF Opening, Closing, ItemTells
<1>21. RecTells(s)'
  <2>1. Pending(Holding, s)'
    <3>1. 1 \in DOMAIN q /\ q[1].op \in Holding /\ q[1].s = s
      BY <1>10, <1>11 DEF Holding
    <3> QED
      BY <1>1, <1>11, <1>12, <3>1, PendingNew
  <2>2. ~(s > used')
    BY <1>5, <1>7
  <2> QED
    BY <1>5, <1>8, <1>14, <2>1, <2>2 DEF RecTells, Unended
<1>22. EmptyTells(s)' /\ RowTells(s)'
  BY <1>5, <1>7, <1>8, <1>14 DEF EmptyTells, Live, RowTells, NoStoreFaults
<1>23. ASSUME NEW y \in Item, Waits(y, w), ItemTells(y), y.s = s
       PROVE  ItemTells(y)'
  BY <1>5, <1>7, <1>23, NotYet DEF Waits, ItemTells, Heavy
<1>24. /\ \A d : d \notin human /\ Watched(d) => Watched(d)'
       /\ Listing => Listing'
  BY <1>1, <1>5, <1>11, <1>12, WatchedOn, ListingOn
<1>25. ItemsTell' /\ RecsTell' /\ EmptiesTell' /\ RowsTold'
  <2>1. used' \in {used, used + 1} /\ owed \subseteq owed' /\ UNCHANGED <<old, shutdown, human>>
    BY <1>2, <1>5 DEF recordersVars
  <2>2. allowed["storeFault"] = 0 => allowed'["storeFault"] = 0
    BY <1>5
  <2>3. \A y \in Item : (\E i \in DOMAIN q : q[i] = y) => ItemTells(y)'
    BY <1>19, <1>20
  <2>4. PICK X : X = {s}
    OBVIOUS
  <2>5. /\ \A t \in Recs : t \notin X => Kept(t)
        /\ \A t \in Recs : t \in X => RecTells(t)' /\ EmptyTells(t)' /\ RowTells(t)'
        /\ \A y \in Item : Waits(y, w) /\ ItemTells(y) /\ y.s \in X => ItemTells(y)'
    BY <1>17, <1>21, <1>22, <1>23, <2>4
  <2> QED
    BY <1>11, <1>12, <1>24, <2>1, <2>2, <2>3, <2>5, Touched
<1>26. PlacesTell'
  BY <1>1, <1>10, <1>11, <1>12, Whole, PlacesFresh DEF PlaceTells, Recovers
<1>27. \A t : t = s => ~Pending({"leave"}, t) /\ ~Pending(Holding, t) /\ ~Pending({"relogin"}, t)
  BY <1>5, <1>7, NotYet DEF Pending, Runner, Heavy, Holding, Opening, Closing
<1>28. LeavesTell'
  <2>1. \A t \in Nat : Pending({"leave"}, t) /\ Runs(t)' => Runs(t)
    BY <1>1, <1>16, <1>27, PendingRecs
  <2>2. \A i \in DOMAIN q : q[i].op \notin {"leave", "release"}
    BY <1>10, <1>11
  <2>3. \A t \in Nat : Pending({"release"}, t) /\ conn[t] = "none" => conn'[t] = "none"
    BY <1>5
  <2> QED
    BY <1>1, <1>11, <1>12, <2>1, <2>2, <2>3, LeavesMoved
<1>29. Once(Holding)'
  BY <1>1, <1>10, <1>11, <1>12, <1>27, OnceMoved DEF Pending, Runner
<1>30. Once({"closeRow"})' /\ Once({"recover"})'
  BY <1>1, <1>10, <1>11, <1>12, OnceMoved
<1>31. OnceRelogin'
  <2>1. ASSUME NEW g \in Goroutines, NEW i \in DOMAIN run'[g], run'[g][i].op = "relogin"
        PROVE  /\ i \in DOMAIN run[g] /\ run'[g][i] = run[g][i]
               /\ rec'[run'[g][i].s].recorder = rec[run[g][i].s].recorder
    <3>1. g # w
      BY <1>1, <1>10, <1>11, <1>12, <2>1, Whole
    <3>2. run'[g] = run[g]
      BY <1>12, <3>1 DEF Moved
    <3>3. i \in Nat /\ run[g][i].s \in Recs
      BY <1>1, <2>1, <3>2, Queues DEF ItemsTell, ItemTells
    <3>4. run[g][i].s # s
      BY <1>27, <2>1, <3>2 DEF Pending, Runner
    <3> QED
      BY <1>14, <3>1, <3>2, <3>3, <3>4
  <2> QED
    BY <1>1, <2>1 DEF OnceRelogin
<1>32. OwedTells'
  <2> SUFFICES ASSUME NEW p \in owed
               PROVE  \E t \in Recs : rec'[t].recorder = p /\ Pending({"relogin"}, t)'
    BY <1>5 DEF OwedTells, recordersVars
  <2>1. PICK t \in Recs : rec[t].recorder = p /\ Pending({"relogin"}, t)
    BY <1>1 DEF OwedTells
  <2>2. t # s
    BY <1>27, <2>1
  <2>3. Pending({"relogin"}, t)'
    BY <1>1, <1>11, <1>12, <2>1, PendingOn
  <2> QED
    BY <1>14, <2>1, <2>2, <2>3
<1>33. RunningTells' /\ RecordersInv'
  <2>1. RecordersInv'
    BY <1>1, <1>5, StepInv
  <2>2. \A p \in Recorders : running'[p] # NoRec => rec'[running'[p]].recorder = p
    <3> SUFFICES ASSUME NEW p \in Recorders, running'[p] # NoRec
                 PROVE  rec'[running'[p]].recorder = p
      OBVIOUS
    <3>1. CASE p = r
      BY <1>14, <3>1
    <3>2. CASE p # r
      <4>1. running[p] \in Recs /\ running'[p] = running[p]
        BY <1>1, <1>14, <3>2 DEF TypeOK
      <4>2. rec[running[p]].recorder = p
        BY <1>1, <4>1 DEF RunningTells
      <4>3. running[p] # s
        BY <1>8, <4>2, RecordingAssumption
      <4> QED
        BY <1>14, <4>1, <4>2, <4>3
    <3> QED
      BY <3>1, <3>2
  <2> QED
    BY <2>1, <2>2 DEF RunningTells
<1>34. \A t \in Recs : HasConn(t)' => t # s /\ HasConn(t)
  BY <1>1, <1>5, <1>8, <1>10, <1>11, <1>12, <1>27, PendingBack DEF HasConn
<1>35. ConnsTell' /\ OwnConn'
  <2>1. ASSUME NEW t \in Recs PROVE ConnTells(t)'
    BY ZenonT(30), <1>1, <1>5, <1>14, <1>16, <1>34 DEF ConnsTell, ConnTells, recordersVars
  <2>2. OwnConn'
    BY <1>1, <1>14, <1>34 DEF OwnConn
  <2> QED
    BY <2>1, <2>2 DEF ConnsTell
<1> QED
  BY <1>15, <1>25, <1>26, <1>28, <1>29, <1>30, <1>31, <1>32, <1>33, <1>35, Together

-----------------------------------------------------------------------------
(* A recorder that is taken offline while its recording lets go of it.     *)
LEMMA TakenTypes ==
  ASSUME TypeOK, NEW r, TakeOffline(r)
  PROVE  /\ state' \in [Recorders -> States] /\ owed' \subseteq Recorders
         /\ owed \subseteq owed' /\ owed' \subseteq owed \cup {r}
         /\ \A p \in Recorders : p # r => state'[p] = state[p]
         /\ r \in Recorders /\ state[r] # "online" => state' = state /\ owed' = owed
         /\ r \in Recorders /\ state[r] = "online" => state'[r] = "offline" /\ r \in owed'
BY ZenonT(60) DEF TypeOK, RecordersTypeOK, TakeOffline, States

LEMMA TakenConns ==
  ASSUME RecordingInv, NEW s \in Recs, NEW r \in Recorders, r = rec[s].recorder, Runs(s),
         Freed(s), TakeOffline(r),
         UNCHANGED <<valid, session, logins, up, ending, task, held, closed, conn>>,
         \A t \in Recs : rec'[t].recorder = rec[t].recorder /\ rec'[t].via = rec[t].via,
         \A t \in Recs : HasConn(t)' => HasConn(t)
  PROVE  /\ ConnsTell' /\ OwnConn' /\ RecordersInv' /\ RunningTells'
         /\ ~Runs(s)' /\ \A t \in Recs : t # s => (Runs(t)' <=> Runs(t))
<1>1. TypeOK /\ ConnsTell /\ OwnConn /\ RecordersInv /\ RunningTells /\ WayBack
  BY InvProperties DEF RecordingInv
<1>2. /\ \A p \in Recorders : running'[p] \in {running[p], NoRec}
      /\ running'[r] = NoRec
  BY <1>1, FreedTypes
<1>3. ~Runs(s)'
  BY <1>2, RecordingAssumption DEF Runs
<1>4. \A t \in Recs : t # s => (Runs(t)' <=> Runs(t))
  BY <1>1, FreedOf
<1>5. RecordersInv'
  BY <1>1, GivenUp, StepInv
<1>6. RunningTells'
  <2> SUFFICES ASSUME NEW p \in Recorders, running'[p] # NoRec
               PROVE  rec'[running'[p]].recorder = p
    BY DEF RunningTells
  <2>1. running'[p] = running[p] /\ running[p] \in Recs
    BY <1>1, <1>2 DEF TypeOK
  <2> QED
    BY <1>1, <2>1 DEF RunningTells
<1>7. OwnConn'
  BY <1>1 DEF OwnConn
<1>8. ASSUME NEW t \in Recs PROVE ConnTells(t)'
  <2> SUFFICES ASSUME HasConn(t) PROVE ConnTells(t)'
    BY DEF ConnTells
  <2>1. /\ rec[t].recorder \in Recorders /\ rec[t].via <= logins[rec[t].recorder]
        /\ ConnTells(t) /\ rec'[t].recorder = rec[t].recorder /\ rec'[t].via = rec[t].via
    BY <1>1 DEF ConnsTell, ConnTells
  <2>2. CASE rec[t].recorder # r
    <3>1. t # s /\ state'[rec[t].recorder] = state[rec[t].recorder]
      BY <1>1, <2>1, <2>2, TakenTypes
    <3> QED
      BY <1>4, <2>1, <3>1 DEF ConnTells
  <2>3. CASE rec[t].recorder = r
    <3>1. ~Runs(t)'
      BY <1>2, <2>1, <2>3, RecordingAssumption DEF Runs
    <3>2. CASE state[r] = "online"
      <4>1. state'[r] = "offline" /\ task[r] = "none"
        BY <1>1, <3>2, TakenTypes DEF WayBack
      <4> QED
        BY <2>1, <2>3, <3>1, <4>1 DEF ConnTells
    <3>3. CASE state[r] # "online"
      <4>1. state' = state
        BY <1>1, <3>3, TakenTypes
      <4>2. CASE t = s
        BY <2>1, <2>3, <3>1, <3>3, <4>1, <4>2 DEF ConnTells
      <4>3. CASE t # s
        BY <1>4, <2>1, <4>1, <4>3 DEF ConnTells
      <4> QED
        BY <4>2, <4>3
    <3> QED
      BY <3>2, <3>3
  <2> QED
    BY <2>2, <2>3
<1> QED
  BY <1>3, <1>4, <1>5, <1>6, <1>7, <1>8 DEF ConnsTell

(* The relogin it gave is one goroutine's to call.                         *)
LEMMA TakenRelogins ==
  ASSUME RecordingInv, NEW w \in Goroutines, NEW q \in Seq(Item), Moved(w, q),
         run[w] # <<>> => run[w][1].op # "relogin",
         NEW s \in Recs, NEW r \in Recorders, r = rec[s].recorder, TakeOffline(r),
         \A t \in Recs : rec'[t].recorder = rec[t].recorder,
         \A i \in DOMAIN q : q[i].op = "relogin" => q[i].s = s /\ state[r] = "online",
         \A i, j \in DOMAIN q : q[i].op = "relogin" /\ q[j].op = "relogin" => i = j,
         state[r] = "online" => \E i \in DOMAIN q : q[i].op = "relogin" /\ q[i].s = s
  PROVE  OnceRelogin' /\ OwedTells'
<1>1. TypeOK /\ OnceRelogin /\ OwedTells /\ ItemsTell /\ WayBack
  BY InvProperties DEF RecordingInv
<1>2. state[r] = "online" => r \notin owed
  BY <1>1 DEF WayBack
<1>3. ASSUME NEW g \in Goroutines, NEW i \in DOMAIN run'[g], run'[g][i].op = "relogin"
      PROVE  LET k == IF g = w THEN i - Len(q) + 1 ELSE i
             IN \/ g = w /\ i \in DOMAIN q /\ q[i].op = "relogin"
                   /\ rec'[run'[g][i].s].recorder = r /\ r \notin owed
                \/ /\ i \in Nat /\ k \in DOMAIN run[g] /\ run[g][k].op = "relogin"
                   /\ rec'[run'[g][i].s].recorder = rec[run[g][k].s].recorder
                   /\ rec'[run'[g][i].s].recorder \in owed
  <2>1. CASE g = w /\ i <= Len(q)
    BY SMTT(30), <1>1, <1>2, <1>3, <2>1, MovedItems
  <2>2. CASE ~(g = w /\ i <= Len(q))
    <3>1. PICK k : k = IF g = w THEN i - Len(q) + 1 ELSE i
      OBVIOUS
    <3>2. i \in Nat /\ k \in DOMAIN run[g] /\ run'[g][i] = run[g][k]
      BY <1>1, <2>2, <3>1, MovedItems
    <3>3. ItemTells(run[g][k])
      BY <1>1, <3>2 DEF ItemsTell
    <3>4. run[g][k].s \in Recs /\ rec[run[g][k].s].recorder \in owed
      BY <1>3, <3>2, <3>3 DEF ItemTells
    <3> QED
      BY <1>3, <3>1, <3>2, <3>4
  <2> QED
    BY <2>1, <2>2
<1>4. OnceRelogin'
  <2> SUFFICES ASSUME NEW g \in Goroutines, NEW h \in Goroutines,
                      NEW i \in DOMAIN run'[g], NEW j \in DOMAIN run'[h],
                      run'[g][i].op = "relogin", run'[h][j].op = "relogin",
                      rec'[run'[g][i].s].recorder = rec'[run'[h][j].s].recorder
               PROVE  g = h /\ i = j
    BY DEF OnceRelogin
  <2>1. PICK k : k = IF g = w THEN i - Len(q) + 1 ELSE i
    OBVIOUS
  <2>2. PICK l : l = IF h = w THEN j - Len(q) + 1 ELSE j
    BY Zenon
  <2>3. \/ g = w /\ i \in DOMAIN q /\ q[i].op = "relogin"
           /\ rec'[run'[g][i].s].recorder \notin owed
        \/ /\ i \in Nat /\ k \in DOMAIN run[g] /\ run[g][k].op = "relogin"
           /\ rec'[run'[g][i].s].recorder = rec[run[g][k].s].recorder
           /\ rec'[run'[g][i].s].recorder \in owed
    BY ZenonT(30), <1>3, <2>1
  <2>4. \/ h = w /\ j \in DOMAIN q /\ q[j].op = "relogin"
           /\ rec'[run'[h][j].s].recorder \notin owed
        \/ /\ j \in Nat /\ l \in DOMAIN run[h] /\ run[h][l].op = "relogin"
           /\ rec'[run'[h][j].s].recorder = rec[run[h][l].s].recorder
           /\ rec'[run'[h][j].s].recorder \in owed
    BY <1>3, <2>2
  <2>5. CASE rec'[run'[g][i].s].recorder \notin owed
    BY <2>3, <2>4, <2>5
  <2>6. CASE rec'[run'[g][i].s].recorder \in owed
    <3>1. i \in Nat /\ j \in Nat /\ g = h /\ k = l
      BY <1>1, <2>3, <2>4, <2>6 DEF OnceRelogin
    <3>2. Len(q) \in Nat
      OBVIOUS
    <3> QED
      BY SMTT(30), <2>1, <2>2, <3>1, <3>2
  <2> QED
    BY <2>5, <2>6
<1>5. OwedTells'
  BY SMTT(60), <1>1, PendingOn, TakenTypes, PendingNew DEF OwedTells
<1> QED
  BY <1>4, <1>5

LEMMA ReloginItems ==
  ASSUME NEW s \in Recs
  PROVE  /\ ReloginOf(s) \in Seq(Item)
         /\ \A i \in DOMAIN ReloginOf(s) : /\ i = 1 /\ state[rec[s].recorder] = "online"
                                           /\ ReloginOf(s)[i] = Do("relogin", s)
         /\ state[rec[s].recorder] = "online" => 1 \in DOMAIN ReloginOf(s)
  BY RecordingAssumption, ItemOf, OneItem, NoMore DEF Cuts, ReloginOf

(* A release after a leave that hung: the recorder logs in afresh.         *)
LEMMA ReleaseLateKeeps ==
  ASSUME RecordingInv, NEW w \in Goroutines, ReleaseLate(w)
  PROVE  RecordingInv'
<1>1. /\ TypeOK /\ RecsTell /\ RowsTold /\ ItemsTell /\ EmptiesTell /\ PlacesTell /\ LeavesTell
      /\ Once(Holding) /\ Once({"closeRow"}) /\ Once({"recover"}) /\ RunningTells
  BY DEF RecordingInv
<1>2. PICK s : s = Rec(w)
  OBVIOUS
<1>3. PICK q : q = ReloginOf(s)
  OBVIOUS
<1>4. PICK r : r = rec[s].recorder
  OBVIOUS
<1>5. /\ run[w] # <<>> /\ run[w][1].op = "releaseLate" /\ run[w][1].s = s
      /\ ItemTells(run[w][1]) /\ 1 \in DOMAIN run[w]
  BY <1>2, AtHead DEF ReleaseLate
<1>6. s \in Recs /\ s \in Nat /\ Runs(s) /\ ~Unended(s)
  BY <1>5, RecordingAssumption DEF ItemTells, Closing
<1>7. RecTells(s) /\ RowTells(s) /\ EmptyTells(s) /\ r \in Recorders
  BY <1>1, <1>4, <1>6 DEF RecsTell, RowsTold, EmptiesTell, TypeOK, Active, Runs
<1>8. /\ Freed(s) /\ TakeOffline(r) /\ Goes(w, q)
      /\ UNCHANGED <<valid, session, logins, up, ending, task, held, closed, at, seen, human,
                     check, rec, shutdown, conn, ear, armed, row, notice, used, old, snap,
                     allowed>>
  BY <1>2, <1>3, <1>4 DEF ReleaseLate, world, adapter, kept
<1>9. /\ q \in Seq(Item)
      /\ \A i \in DOMAIN q : /\ i = 1 /\ state[r] = "online"
                             /\ q[i] = Do("relogin", s)
                             /\ q[i].op = "relogin" /\ q[i].s = s
      /\ state[r] = "online" => 1 \in DOMAIN q
  BY <1>3, <1>4, <1>6, ReloginItems, DoParts
<1>10. Moved(w, q)
  BY <1>1, <1>5, <1>8, <1>9, GoesMoves
<1>11. /\ state' \in [Recorders -> States] /\ owed' \subseteq Recorders /\ owed \subseteq owed'
       /\ state[r] = "online" => r \in owed'
  BY <1>1, <1>7, <1>8, TakenTypes
<1>12. TypeOK'
  BY <1>1, <1>4, <1>6, <1>7, <1>8, <1>10, <1>11, FreedTypes DEF TypeOK, Moved,
     RecordersTypeOK
<1>13. OnceRelogin' /\ OwedTells'
  BY <1>4, <1>5, <1>6, <1>7, <1>8, <1>9, <1>10, TakenRelogins
<1>14. \A t \in Recs : HasConn(t)' => HasConn(t)
  BY <1>1, <1>8, <1>9, <1>10, PendingBack DEF HasConn
<1>15. /\ ConnsTell' /\ OwnConn' /\ RecordersInv' /\ RunningTells'
       /\ ~Runs(s)' /\ \A t \in Recs : t # s => (Runs(t)' <=> Runs(t))
  BY <1>4, <1>6, <1>7, <1>8, <1>14, TakenConns
<1>16. \A t \in Recs : t # s => Kept(t)
  BY <1>8, <1>15 DEF Kept
<1>17. /\ \A g \in Goroutines : \A i \in DOMAIN run[g] :
            ~(g = w /\ i = 1) /\ run[g][i].s = s => run[g][i].op \notin Opening \cup Closing
       /\ \A i \in DOMAIN q : q[i].op \in Loose \ (Holding \cup {"closeRow", "recover", "leave",
                                                                "release"})
  BY <1>5, <1>6, <1>9, HolderAlone DEF Holding, Closing, Loose
<1>18. PlacesTell'
  BY <1>1, <1>5, <1>9, <1>10, <1>17, PlacesLoose
<1>19. LeavesTell'
  <2>1. \A t \in Nat : Pending({"leave"}, t) /\ Runs(t)' => Runs(t)
    BY <1>1, <1>15, PendingRecs
  <2> QED
    BY <1>1, <1>5, <1>8, <1>9, <1>10, <1>17, <2>1, LeavesMoved
<1>20. Once(Holding)' /\ Once({"closeRow"})' /\ Once({"recover"})'
  BY <1>1, <1>9, <1>10, <1>17, OnceMoved
<1>21. RecTells(s)' /\ EmptyTells(s)' /\ RowTells(s)'
  <2>1. Pending({"enter", "closeRow"}, s) => Pending({"enter", "closeRow"}, s)'
    BY <1>1, <1>5, <1>9, <1>10, PendingOn
  <2>2. Pending({"recover"}, s) => Pending({"recover"}, s)'
    BY <1>1, <1>5, <1>9, <1>10, PendingOn
  <2>3. Listing => Listing'
    BY <1>1, <1>5, <1>9, <1>10, ListingOn
  <2>4. Watched(rec[s].chan) => Watched(rec[s].chan)'
    BY <1>1, <1>5, <1>8, <1>9, <1>10, WatchedOn
  <2>5. RecTells(s)'
    BY <1>6, <1>7, <1>8, <1>15 DEF RecTells, Unended
  <2>6. EmptyTells(s)'
    BY <1>7, <1>8, <2>4 DEF EmptyTells, Live
  <2>7. RowTells(s)'
    BY <1>6, <1>7, <1>8, <2>1, <2>2, <2>3 DEF RowTells, NoStoreFaults, Unended
  <2> QED
    BY <2>5, <2>6, <2>7
<1>22. \A x \in Item : Waits(x, w) /\ ItemTells(x) /\ x.s = s => ItemTells(x)'
  BY <1>8, <1>11, <1>17 DEF Waits, ItemTells, Unended
<1>23. \A x \in Item : (\E i \in DOMAIN q : q[i] = x) => ItemTells(x)'
  BY <1>4, <1>6, <1>8, <1>9, <1>11 DEF ItemTells, Opening, Closing
<1>24. ItemsTell' /\ RecsTell' /\ EmptiesTell' /\ RowsTold'
  <2>1. /\ \A c : c \notin human /\ Watched(c) => Watched(c)'
        /\ Listing => Listing'
    BY <1>1, <1>5, <1>8, <1>9, <1>10, WatchedOn, ListingOn
  <2>2. PICK X : X = {s}
    OBVIOUS
  <2>3. /\ \A t \in Recs : t \notin X => Kept(t)
        /\ \A t \in Recs : t \in X => RecTells(t)' /\ EmptyTells(t)' /\ RowTells(t)'
        /\ \A x \in Item : Waits(x, w) /\ ItemTells(x) /\ x.s \in X => ItemTells(x)'
        /\ run[w] # <<>> /\ run[w][1].op \in Counted => run[w][1].s \in X
    BY <1>5, <1>16, <1>21, <1>22, <2>2
  <2>4. /\ used' \in {used, used + 1} /\ UNCHANGED <<old, shutdown, human>>
        /\ allowed["storeFault"] = 0 => allowed'["storeFault"] = 0
    BY <1>8
  <2> QED
    BY <1>9, <1>10, <1>11, <1>23, <2>1, <2>3, <2>4, Touched
<1> QED
  BY <1>12, <1>13, <1>15, <1>18, <1>19, <1>20, <1>24, Together

LEMMA PoppedItems ==
  ASSUME TypeOK, NEW w \in Goroutines, NEW q \in Seq(Item), Len(q) = 0, Moved(w, q),
         NEW g \in Goroutines, NEW i \in DOMAIN run'[g]
  PROVE  LET k == IF g = w THEN i + 1 ELSE i
         IN i \in Nat /\ k \in DOMAIN run[g] /\ run'[g][i] = run[g][k]
<1>1. i \in Nat /\ i > 0
  BY DEF Moved
<1>2. PICK k : k = IF g = w THEN i - Len(q) + 1 ELSE i
  OBVIOUS
<1>5. ~(g = w /\ i <= Len(q))
  BY <1>1
<1>3. k \in DOMAIN run[g] /\ run'[g][i] = run[g][k]
  BY <1>2, <1>5, MovedItems
<1>4. k = IF g = w THEN i + 1 ELSE i
  BY <1>1, <1>2
<1> QED
  BY <1>1, <1>3, <1>4

(* The relogin is called, once the leave is over.                          *)
LEMMA CallReloginKeeps ==
  ASSUME RecordingInv, NEW w \in Goroutines, CallRelogin(w)
  PROVE  RecordingInv'
<1>1. /\ TypeOK /\ RecsTell /\ RowsTold /\ ItemsTell /\ EmptiesTell /\ PlacesTell /\ ConnsTell
      /\ OwnConn /\ OnceRelogin /\ OwedTells /\ RunningTells /\ RecordersInv
  BY DEF RecordingInv
<1>2. PICK s : s = Rec(w)
  OBVIOUS
<1>3. PICK r : r = rec[s].recorder
  OBVIOUS
<1>4. /\ run[w] # <<>> /\ run[w][1].op = "relogin" /\ run[w][1].s = s
      /\ ItemTells(run[w][1]) /\ 1 \in DOMAIN run[w]
  BY <1>2, AtHead DEF CallRelogin
<1>5. s \in Recs /\ r \in owed /\ r \in Recorders
  BY <1>1, <1>3, <1>4 DEF ItemTells, TypeOK, RecordersTypeOK
<1>6. /\ Relogin(r) /\ Goes(w, <<>>)
      /\ UNCHANGED <<valid, state, session, logins, up, ending, held, closed, at, seen, human,
                     check, running, rec, shutdown, conn, ear, armed, row, notice, used, old,
                     snap, allowed>>
  BY <1>2, <1>3 DEF CallRelogin, world, runtime, adapter, kept
<1>7. owed' = owed \ {r} /\ task' = [task EXCEPT ![r] = "logBackIn"]
  BY <1>5, <1>6 DEF Relogin
<1>8. Moved(w, <<>>) /\ PlacesTell' /\ Once(Holding)' /\ Once({"closeRow"})' /\ Once({"recover"})'
  BY <1>4, <1>6, PoppedPlaces
<1>9. RecordersInv'
  BY <1>1, <1>6, Called, StepInv
<1>10. TypeOK'
  BY <1>1, <1>6, <1>8, <1>9 DEF TypeOK, Moved, RecordersInv
<1>11. \A t \in Recs : Kept(t) /\ (Runs(t)' <=> Runs(t))
  BY <1>6 DEF Kept, Runs
<1>12. LeavesTell'
  BY <1>4, <1>5, <1>6, <1>11, PoppedLeaves
<1>13. ASSUME NEW g \in Goroutines, NEW i \in DOMAIN run[g], run[g][i].op = "relogin",
              ~(g = w /\ i = 1)
       PROVE  rec[run[g][i].s].recorder # r
  BY <1>1, <1>3, <1>4, <1>13 DEF OnceRelogin
<1>14. ItemsTell'
  <2>1. ASSUME NEW x \in Item, Waits(x, w) PROVE ItemTells(x)'
    BY <1>1, <1>6, <1>7, <1>11, <1>13, <2>1, ItemKept DEF Waits, ItemsTell, ItemTells
  <2> QED
    BY <1>1, <1>8, <2>1, NoMore, ItemsMoved
<1>15. ASSUME NEW ops, "relogin" \notin ops, NEW t
       PROVE  Pending(ops, t) => Pending(ops, t)'
  BY <1>1, <1>4, <1>8, <1>15, NoMore, PendingOn
<1>16. /\ \A c : c \notin human /\ Watched(c) => Watched(c)'
       /\ Listing => Listing'
  BY <1>1, <1>4, <1>6, <1>8, NoMore, WatchedOn, ListingOn
<1>17. /\ "relogin" \notin Holding /\ "relogin" \notin {"enter", "closeRow"}
       /\ "relogin" \notin {"recover"} /\ "relogin" \notin {"leave"}
  BY DEF Holding, Closing
<1>18. RecsTell'
  BY <1>1, <1>6, <1>11, <1>15, <1>17, RecKept DEF RecsTell, TypeOK
<1>19. RowsTold'
  BY <1>1, <1>6, <1>11, <1>15, <1>16, <1>17, RowKept DEF RowsTold
<1>20. EmptiesTell'
  BY <1>1, <1>6, <1>11, <1>16, EmptyKept DEF EmptiesTell
<1>21. OnceRelogin'
  <2>1. ASSUME NEW g \in Goroutines, NEW i \in DOMAIN run'[g]
        PROVE  LET k == IF g = w THEN i + 1 ELSE i
               IN i \in Nat /\ k \in DOMAIN run[g] /\ run'[g][i] = run[g][k]
    <3>1. PICK q : q = <<>>
      OBVIOUS
    <3>2. q \in Seq(Item) /\ Len(q) = 0 /\ Moved(w, q)
      BY <1>8, <3>1, NoMore
    <3> QED
      BY <1>1, <3>2, PoppedItems
  <2> SUFFICES ASSUME NEW g \in Goroutines, NEW h \in Goroutines,
                      NEW i \in DOMAIN run'[g], NEW j \in DOMAIN run'[h],
                      run'[g][i].op = "relogin", run'[h][j].op = "relogin",
                      rec[run'[g][i].s].recorder = rec[run'[h][j].s].recorder
               PROVE  g = h /\ i = j
    BY <1>6 DEF OnceRelogin
  <2>2. PICK k : k = IF g = w THEN i + 1 ELSE i
    OBVIOUS
  <2>3. PICK l : l = IF h = w THEN j + 1 ELSE j
    OBVIOUS
  <2>4. /\ i \in Nat /\ k \in DOMAIN run[g] /\ run'[g][i] = run[g][k]
        /\ j \in Nat /\ l \in DOMAIN run[h] /\ run'[h][j] = run[h][l]
    BY <2>1, <2>2, <2>3
  <2>5. g = h /\ k = l
    BY <1>1, <2>4 DEF OnceRelogin
  <2> QED
    BY <2>2, <2>3, <2>4, <2>5
<1>22. OwedTells'
  BY <1>1, <1>3, <1>4, <1>6, <1>7, <1>8, NoMore, PendingOn DEF OwedTells
<1>23. \A t \in Recs : HasConn(t)' => HasConn(t)
  BY <1>1, <1>6, <1>8, NoMore, PendingBack DEF HasConn
<1>24. OwnConn' /\ RunningTells'
  BY <1>1, <1>6, <1>23 DEF OwnConn, RunningTells
<1>25. ConnsTell'
  BY <1>1, <1>6, <1>7, <1>11, <1>23 DEF ConnsTell, ConnTells, TypeOK, RecordersTypeOK
<1> QED
  BY <1>8, <1>9, <1>10, <1>12, <1>14, <1>18, <1>19, <1>20, <1>21, <1>22, <1>24, <1>25, Together

-----------------------------------------------------------------------------
(* A stop, or a check, takes the live recordings X, and hands on in q what *)
(* follows for each of them.                                               *)
FollowUps == {"capture", "leave", "closeRow", "release", "editNotice"}
FollowsUp(q, X) ==
  /\ q \in Seq(Item)
  /\ \A i \in DOMAIN q : q[i].op \in FollowUps /\ q[i].s \in X
  /\ \A i, j \in DOMAIN q : q[i].op \in {"closeRow", "release"} /\ q[i].op = q[j].op
                              /\ q[i].s = q[j].s => i = j
  /\ \A s \in X : /\ \E i \in DOMAIN q : q[i].op = "closeRow" /\ q[i].s = s
                  /\ \E i \in DOMAIN q : q[i].op = "release" /\ q[i].s = s
  /\ \A i \in DOMAIN q : q[i].op = "release" =>
       \E j \in 1 .. i - 1 : q[j].op = "leave" /\ q[j].s = q[i].s
  /\ \A i \in DOMAIN q : q[i].op = "leave" =>
       \E j \in i + 1 .. Len(q) : q[j].op = "release" /\ q[j].s = q[i].s

TakenAll(X) ==
  \A t \in Recs :
    /\ rec'[t].recorder = rec[t].recorder /\ rec'[t].chan = rec[t].chan
    /\ rec'[t].via = rec[t].via /\ rec'[t].entered = rec[t].entered
    /\ t \notin X => rec'[t].stopping = rec[t].stopping /\ rec'[t].ended = rec[t].ended
    /\ t \in X => rec'[t].stopping /\ rec'[t].ended \in Ends

LEMMA LiveOnes ==
  ASSUME RecordingInv, NEW s \in Recs, Runs(s), Live(s)
  PROVE  /\ Unended(s) /\ conn[s] = "open" /\ row[s] = "open" /\ s \notin old /\ s <= used
         /\ rec[s].recorder \in Recorders /\ s \in Nat /\ rec[s].entered /\ rec[s].ended = "no"
  BY RecordingAssumption DEF RecordingInv, RecsTell, TypeOK, RecTells, Live, Unended

LEMMA TakesKeep ==
  ASSUME RecordingInv, NEW w \in Goroutines, NEW q, NEW X \in SUBSET Recs, FollowsUp(q, X),
         Moved(w, q), TakenAll(X), \A s \in X : Runs(s) /\ Live(s),
         run[w] # <<>> => run[w][1].op = "judge",
         UNCHANGED <<recordersVars, running, conn, row, old, used, shutdown>>,
         allowed["storeFault"] = 0 => allowed'["storeFault"] = 0,
         TypeOK', EmptiesTell'
  PROVE  RecordingInv'
<1>1. /\ TypeOK /\ RecsTell /\ RowsTold /\ ItemsTell /\ PlacesTell /\ LeavesTell
      /\ Once(Holding) /\ Once({"closeRow"}) /\ Once({"recover"})
  BY DEF RecordingInv
<1>2. q \in Seq(Item)
  BY DEF FollowsUp
<1>3. \A s \in X : /\ Unended(s) /\ conn[s] = "open" /\ row[s] = "open" /\ s \notin old
                   /\ s <= used /\ rec[s].recorder \in Recorders /\ s \in Nat
                   /\ rec[s].entered /\ rec[s].ended = "no"
  BY LiveOnes
<1>4. \A t : Runs(t)' <=> rec'[t].recorder # NoRecorder /\ running[rec'[t].recorder] = t
  BY DEF Runs
<1>5. \A t \in Recs : Runs(t)' <=> Runs(t)
  BY <1>4 DEF Runs, TakenAll
<1>6. \A t \in Recs : t \notin X => Kept(t)
  BY <1>5 DEF Kept, TakenAll
<1>7. \A x \in Item : Waits(x, w) /\ x.s \in X => x.op \notin Heavy
  BY LiveAlone
<1>8. /\ run[w] # <<>> => run[w][1].op \notin Counted \cup {"leave", "look", "list", "relogin",
                                                            "idle", "kick"}
      /\ \A i \in DOMAIN q : q[i].op \in Loose \ {"recover", "relogin"}
      /\ \A i \in DOMAIN q : q[i].op \in Holding => q[i].op = "release"
  BY DEF Counted, Holding, Closing, Loose, FollowsUp, FollowUps
<1>9. ASSUME NEW s \in X PROVE RecTells(s)' /\ RowTells(s)'
  <2>1. s \in Recs /\ RecTells(s) /\ RowTells(s) /\ used \in Nat
    BY <1>1 DEF RecsTell, RowsTold, TypeOK
  <2>2. Pending(Holding, s)'
    <3>1. PICK i \in DOMAIN q : q[i].op = "release" /\ q[i].s = s
      BY DEF FollowsUp
    <3>2. q[i].op \in Holding
      BY <3>1 DEF Holding, Closing
    <3> QED
      BY <1>1, <1>2, <3>1, <3>2, PendingNew
  <2>3. Pending({"enter", "closeRow"}, s)'
    <3>1. PICK i \in DOMAIN q : q[i].op = "closeRow" /\ q[i].s = s
      BY DEF FollowsUp
    <3> QED
      BY <1>1, <1>2, <3>1, PendingNew
  <2>4. /\ rec'[s].stopping /\ rec'[s].ended \in Ends /\ rec'[s].ended # "no"
        /\ rec'[s].entered = rec[s].entered /\ rec'[s].recorder = rec[s].recorder
    BY <2>1 DEF TakenAll, Ends
  <2>5. RecTells(s)'
    BY <1>3, <2>1, <2>2, <2>4 DEF RecTells, Unended
  <2>6. RowTells(s)'
    BY <1>3, <2>1, <2>3 DEF RowTells, NoStoreFaults
  <2> QED
    BY <2>5, <2>6
<1>10. RecsTell'
  BY <1>2, <1>6, <1>8, <1>9, UntouchedRecs DEF recordersVars, RecsTell
<1>11. RowsTold'
  BY <1>1, <1>2, <1>6, <1>8, <1>9, ListingOn, UntouchedRows DEF RowsTold
<1>12. ItemsTell'
  <2>1. ASSUME NEW x \in Item, Waits(x, w) PROVE ItemTells(x)'
    BY ZenonT(30), <1>1, <1>2, <1>6, <1>7, <1>8, <2>1, UntouchedRecs, LightKept DEF recordersVars,
       Waits, ItemsTell, TakenAll
  <2>2. ASSUME NEW x \in Item, NEW i \in DOMAIN q, q[i] = x PROVE ItemTells(x)'
    BY ZenonT(30), <1>3, <1>5, <2>2 DEF FollowsUp, TakenAll, Ends, ItemTells, FollowUps, Opening,
       Closing, Unended
  <2> QED
    BY <1>1, <1>2, <2>1, <2>2, ItemsMoved
<1>13. PlacesTell'
  BY <1>1, <1>2, <1>8, PlacesLoose
<1>14. LeavesTell'
  <2>1. \A t \in Nat : Pending({"leave"}, t) /\ Runs(t)' => Runs(t)
    BY <1>1, <1>5, PendingRecs
  <2>2. \A i \in DOMAIN q : q[i].op = "release" =>
           \E j \in 1 .. i - 1 : q[j].op = "leave" /\ q[j].s = q[i].s
    BY DEF FollowsUp
  <2>3. \A i \in DOMAIN q : \A s \in Nat : q[i].op = "leave" /\ s = q[i].s /\ Runs(s)' =>
           \E j \in i + 1 .. Len(q) : q[j].op \in Closing /\ q[j].s = s
    BY SMTT(60) DEF FollowsUp, Closing
  <2> QED
    BY <1>1, <1>2, <1>8, <2>1, <2>2, <2>3, LeavesMoved, Zenon
<1>15. ASSUME NEW g \in Goroutines, NEW i \in DOMAIN run[g], run[g][i].s \in X,
              run[g][i].op \in Holding \cup {"closeRow"}
       PROVE  FALSE
  BY <1>1, <1>7, <1>8, <1>15, Queues DEF Counted, Holding, Heavy, Opening, Waits
<1>16. Once(Holding)'
  BY SMTT(30), <1>1, <1>2, <1>8, <1>15, OnceMoved DEF FollowsUp
<1>17. Once({"closeRow"})'
  <2>1. ASSUME NEW i \in DOMAIN q, NEW j \in DOMAIN q, q[i].op = "closeRow",
               q[j].op = "closeRow", q[i].s = q[j].s
        PROVE  i = j
    BY <2>1 DEF FollowsUp
  <2>2. \A k \in DOMAIN q : q[k].op \in {"closeRow"} =>
           \A g \in Goroutines : \A i \in DOMAIN run[g] :
             run[g][i].op \in {"closeRow"} /\ run[g][i].s = q[k].s => g = w /\ i = 1
    BY <1>15 DEF FollowsUp
  <2> QED
    BY <1>1, <1>2, <2>1, <2>2, OnceMoved
<1>18. Once({"recover"})'
  BY <1>1, <1>2, <1>8, OnceMoved
<1>19. \A t \in Recs : HasConn(t)' => HasConn(t) /\ (Runs(t)' <=> Runs(t))
  BY <1>1, <1>2, <1>3, <1>5, PendingBack DEF HasConn, FollowsUp
<1>20. /\ OnceRelogin' /\ OwedTells' /\ RunningTells' /\ OwnConn' /\ ConnsTell'
       /\ RecordersInv'
  BY <1>2, <1>8, <1>19, Ordinary DEF TakenAll
<1> QED
  BY <1>10, <1>11, <1>12, <1>13, <1>14, <1>16, <1>17, <1>18, <1>20, Together

LEMMA Concat ==
  ASSUME NEW p \in Seq(Item), NEW f \in Seq(Item)
  PROVE  LET q == p \o f
         IN /\ q \in Seq(Item) /\ Len(q) = Len(p) + Len(f)
            /\ \A i \in 1 .. Len(p) : q[i] = p[i]
            /\ \A i \in 1 .. Len(f) : q[Len(p) + i] = f[i]
<1>1. PICK q : q = p \o f
  OBVIOUS
<1>2. PICK n : n = Len(p)
  OBVIOUS
<1>3. PICK m : m = Len(f)
  OBVIOUS
<1>4. /\ n \in Nat /\ m \in Nat /\ q \in Seq(Item) /\ Len(q) = n + m
      /\ \A i \in 1 .. n + m : q[i] = IF i <= n THEN p[i] ELSE f[i - n]
  BY <1>1, <1>2, <1>3, ConcatProperties
<1>5. \A i \in 1 .. n : q[i] = p[i]
  BY <1>4
<1>6. ASSUME NEW i \in 1 .. m PROVE q[n + i] = f[i]
  BY <1>4
<1> QED
  BY <1>1, <1>2, <1>3, <1>4, <1>5, <1>6

LEMMA FinishItems ==
  ASSUME NEW s \in Nat
  PROVE  /\ Finish(s) \in Seq(Item) /\ Len(Finish(s)) = 4
         /\ Finish(s)[1] = Do("leave", s) /\ Finish(s)[2] = Do("closeRow", s)
         /\ Finish(s)[3] = Do("release", s) /\ Finish(s)[4] = Do("editNotice", s)
  BY ItemOf DEF Stops, Finish

StopAs(q, s) ==
  /\ q \in Seq(Item) /\ Len(q) = 5
  /\ q[1] = Do("capture", s) /\ q[2] = Do("leave", s) /\ q[3] = Do("closeRow", s)
  /\ q[4] = Do("release", s) /\ q[5] = Do("editNotice", s)

LEMMA StopItems ==
  ASSUME NEW s \in Nat
  PROVE  StopAs(<<Do("capture", s)>> \o Finish(s), s)
<1>1. PICK x : x = Do("capture", s)
  OBVIOUS
<1>2. x \in Item
  BY <1>1, ItemOf DEF Stops
<1>3. PICK f : f = Finish(s)
  OBVIOUS
<1>4. /\ f \in Seq(Item) /\ Len(f) = 4
      /\ f[1] = Do("leave", s) /\ f[2] = Do("closeRow", s)
      /\ f[3] = Do("release", s) /\ f[4] = Do("editNotice", s)
  BY <1>3, FinishItems
<1>5. PICK p : p = <<x>>
  OBVIOUS
<1>6. p \in Seq(Item) /\ Len(p) = 1 /\ p[1] = x
  BY <1>2, <1>5, OneItem
<1>7. PICK q : q = p \o f
  OBVIOUS
<1>8. /\ q \in Seq(Item) /\ Len(q) = 5 /\ q[1] = p[1]
      /\ q[2] = f[1] /\ q[3] = f[2] /\ q[4] = f[3] /\ q[5] = f[4]
  <2>1. q \in Seq(Item) /\ Len(q) = Len(p) + Len(f)
    BY <1>4, <1>6, <1>7, ConcatProperties
  <2>2. /\ \A i \in 1 .. Len(p) : q[i] = p[i]
        /\ \A i \in 1 .. Len(f) : q[Len(p) + i] = f[i]
    BY <1>4, <1>6, <1>7, Concat
  <2>3. /\ 1 \in 1 .. 1 /\ 1 \in 1 .. 4 /\ 2 \in 1 .. 4 /\ 3 \in 1 .. 4 /\ 4 \in 1 .. 4
        /\ 1 + 1 = 2 /\ 1 + 2 = 3 /\ 1 + 3 = 4 /\ 1 + 4 = 5
    OBVIOUS
  <2> QED
    BY <1>4, <1>6, <2>1, <2>2, <2>3
<1>9. StopAs(q, s)
  BY <1>1, <1>4, <1>6, <1>8 DEF StopAs
<1> QED
  BY <1>1, <1>3, <1>5, <1>7, <1>9

LEMMA StopFollows ==
  ASSUME NEW s \in Nat, NEW q, StopAs(q, s)
  PROVE  FollowsUp(q, {s})
<1>1. /\ DOMAIN q = 1 .. 5 /\ Len(q) = 5 /\ q \in Seq(Item)
      /\ \A i \in 1 .. 5 : q[i].s = s
      /\ q[1].op = "capture" /\ q[2].op = "leave" /\ q[3].op = "closeRow"
      /\ q[4].op = "release" /\ q[5].op = "editNotice"
  BY DoParts DEF StopAs
<1>2. \A i \in 1 .. 5 : i = 1 \/ i = 2 \/ i = 3 \/ i = 4 \/ i = 5
  OBVIOUS
<1>3. /\ \A i \in DOMAIN q : q[i].op \in FollowUps /\ q[i].s \in {s}
      /\ \A i, j \in DOMAIN q : q[i].op \in {"closeRow", "release"} /\ q[i].op = q[j].op
                                  => i = j
  BY <1>1, <1>2 DEF FollowUps
<1>4. /\ \E i \in DOMAIN q : q[i].op = "closeRow" /\ q[i].s = s
      /\ \E i \in DOMAIN q : q[i].op = "release" /\ q[i].s = s
  BY <1>1
<1>5. \A i \in DOMAIN q : q[i].op = "release" =>
        \E j \in 1 .. i - 1 : q[j].op = "leave" /\ q[j].s = q[i].s
  BY <1>1, <1>2
<1>6. \A i \in DOMAIN q : q[i].op = "leave" =>
        \E j \in i + 1 .. Len(q) : q[j].op = "release" /\ q[j].s = q[i].s
  BY <1>1, <1>2
<1> QED
  BY <1>1, <1>3, <1>4, <1>5, <1>6 DEF FollowsUp

(* A member, the cap, the disk check or the channel's deletion stops one.  *)
LEMMA StopKeeps ==
  ASSUME RecordingInv, NEW w \in Goroutines, NEW s \in Recs, Stop(w, s)
  PROVE  RecordingInv'
<1>1. TypeOK /\ PlacesTell /\ EmptiesTell
  BY DEF RecordingInv
<1>2. PICK q : q = <<Do("capture", s)>> \o Finish(s)
  OBVIOUS
<1>3. PICK end \in {"stopped", "cap", "disk", "left"} : rec' = Taken(s, end)
  BY DEF Stop
<1>4. /\ Runs(s) /\ Live(s) /\ Spend("stop") /\ Begins(w, q)
      /\ UNCHANGED <<recordersVars, at, seen, human, check, running, shutdown, conn, ear, armed,
                     row, notice, used, old, snap>>
  BY <1>2 DEF Stop, world, adapter, kept
<1>5. FollowsUp(q, {s}) /\ q \in Seq(Item)
  BY <1>2, RecordingAssumption, StopItems, StopFollows DEF StopAs
<1>6. Moved(w, q) /\ run[w] = <<>>
  BY <1>1, <1>4, <1>5, BeginsMoves
<1>7. /\ allowed' \in [Kinds -> Nat]
      /\ allowed["storeFault"] = 0 => allowed'["storeFault"] = 0
  BY <1>1, <1>4, SpendKeeps DEF Kinds
<1>8. /\ rec' \in [Recs -> Active]
      /\ rec'[s] = [rec[s] EXCEPT !.stopping = TRUE, !.ended = end]
      /\ \A t \in Recs : t # s => rec'[t] = rec[t]
  <2>1. rec[s] \in Active /\ end \in Ends
    BY <1>1, <1>3 DEF TypeOK, Ends
  <2>2. [rec[s] EXCEPT !.stopping = TRUE, !.ended = end] \in Active
    BY <2>1 DEF Active
  <2>3. rec' = [rec EXCEPT ![s] = [rec[s] EXCEPT !.stopping = TRUE, !.ended = end]]
    BY ZenonT(30), <1>1, <1>3, <2>1 DEF TypeOK, Active, Taken
  <2> QED
    BY <1>1, <2>2, <2>3 DEF TypeOK
<1>9. TypeOK'
  BY <1>1, <1>4, <1>6, <1>7, <1>8 DEF TypeOK, Moved, RecordersTypeOK, recordersVars
<1>10. TakenAll({s})
  <2>1. rec[s] \in Active /\ end \in Ends
    BY <1>1, <1>3 DEF TypeOK, Ends
  <2> QED
    BY ZenonT(60), <1>8, <2>1 DEF TakenAll, Active
<1>11. EmptiesTell'
  BY <1>1, <1>4, <1>5, <1>6, <1>8, <1>10, WatchedOn DEF EmptiesTell, TakenAll, Live,
     EmptyTells
<1>12. \A t \in {s} : Runs(t) /\ Live(t)
  BY <1>4
<1> QED
  BY <1>4, <1>5, <1>6, <1>7, <1>9, <1>10, <1>11, <1>12, TakesKeep

(* What a check hands on for the recordings q it stopped, in a row.        *)
LEMMA Fourths ==
  ASSUME NEW n \in Nat, NEW j \in 1 .. 4 * n
  PROVE  \E i \in 1 .. n, k \in 1 .. 4 : j = 4 * i - 4 + k
<1>1. PICK i : i = (j + 3) \div 4
  OBVIOUS
<1>2. PICK k : k = ((j - 1) % 4) + 1
  OBVIOUS
<1>3. i \in 1 .. n /\ k \in 1 .. 4 /\ j = 4 * i - 4 + k
  BY <1>1, <1>2
<1> QED
  BY <1>3

EndedAs(q, p) ==
  LET n == Len(p)
  IN /\ q \in Seq(Item) /\ Len(q) = 5 * n
     /\ \A j \in 1 .. n : q[j] = Do("capture", p[j])
     /\ \A i \in 1 .. n, k \in 1 .. 4 : q[n + 4 * i - 4 + k] = Finish(p[i])[k]

LEMMA EndedItems ==
  ASSUME NEW p \in Seq(Nat)
  PROVE  EndedAs([i \in DOMAIN p |-> Do("capture", p[i])]
                 \o FlattenSeq([i \in DOMAIN p |-> Finish(p[i])]), p)
<1>1. PICK a : a = [i \in DOMAIN p |-> Do("capture", p[i])]
  OBVIOUS
<1>2. PICK e : e = FlattenSeq([i \in DOMAIN p |-> Finish(p[i])])
  OBVIOUS
<1>3. PICK q : q = a \o e
  OBVIOUS
<1>4. PICK n \in Nat : n = Len(p)
  OBVIOUS
<1>5. DOMAIN p = 1 .. n /\ \A i \in 1 .. n : p[i] \in Nat
  BY <1>4
<1>6. \A i \in 1 .. n : Do("capture", p[i]) \in Item
  BY <1>5, ItemOf DEF Stops
<1>7. a \in Seq(Item) /\ Len(a) = n /\ \A j \in 1 .. n : a[j] = Do("capture", p[j])
  BY <1>1, <1>5, <1>6
<1>8. /\ e \in Seq(Item) /\ Len(e) = 4 * n
      /\ \A j \in 1 .. 4 * n : e[j] = Finish(p[(j + 3) \div 4])[((j - 1) % 4) + 1]
  BY <1>2, <1>4, EndsInARow
<1>9. /\ q \in Seq(Item) /\ Len(q) = n + 4 * n
      /\ \A j \in 1 .. n : q[j] = a[j]
      /\ \A j \in 1 .. 4 * n : q[n + j] = e[j]
  <2>1. /\ q \in Seq(Item) /\ Len(q) = Len(a) + Len(e)
        /\ \A j \in 1 .. Len(a) : q[j] = a[j]
        /\ \A j \in 1 .. Len(e) : q[Len(a) + j] = e[j]
    BY <1>3, <1>7, <1>8, Concat
  <2>2. Len(a) = n /\ Len(e) = 4 * n
    BY <1>7, <1>8
  <2> QED
    BY <2>1, <2>2
<1>10. ASSUME NEW i \in 1 .. n, NEW k \in 1 .. 4
       PROVE  q[n + 4 * i - 4 + k] = Finish(p[i])[k]
  <2>1. PICK j : j = 4 * i - 4 + k
    OBVIOUS
  <2>2. j \in 1 .. 4 * n /\ n + j = n + 4 * i - 4 + k
    BY <2>1
  <2>3. (j + 3) \div 4 = i /\ ((j - 1) % 4) + 1 = k
    BY <2>1, <2>2, FourthOf
  <2> QED
    BY ZenonT(30), <1>8, <1>9, <2>2, <2>3
<1>11. Len(q) = 5 * n
  BY <1>9
<1>12. EndedAs(q, p)
  BY ZenonT(30), <1>4, <1>7, <1>9, <1>10, <1>11 DEF EndedAs
<1> QED
  BY <1>1, <1>2, <1>3, <1>12

LEMMA EndedFollows ==
  ASSUME NEW S \in SUBSET Recs, NEW p \in SetToSeqs(S), NEW q, EndedAs(q, p)
  PROVE  FollowsUp(q, S)
<1>1. PICK n \in Nat : n = Len(p)
  <2>1. IsFiniteSet(S)
    BY RecordingAssumption, FS_Subset
  <2> QED
    BY <2>1, EachOnce
<1>2. /\ p \in Seq(S) /\ DOMAIN p = 1 .. n
      /\ \A i, j \in 1 .. n : p[i] = p[j] => i = j
      /\ \A s \in S : \E i \in 1 .. n : p[i] = s
  <2>1. IsFiniteSet(S)
    BY RecordingAssumption, FS_Subset
  <2> QED
    BY <1>1, <2>1, EachOnce
<1>3. \A i \in 1 .. n : p[i] \in S /\ p[i] \in Nat
  <2>1. \A i \in 1 .. n : p[i] \in S
    BY <1>2
  <2>2. S \subseteq Nat
    BY RecordingAssumption
  <2> QED
    BY <2>1, <2>2
<1>4. /\ q \in Seq(Item) /\ Len(q) = 5 * n /\ DOMAIN q = 1 .. 5 * n
      /\ \A j \in 1 .. n : q[j] = Do("capture", p[j])
      /\ \A i \in 1 .. n, k \in 1 .. 4 : q[n + 4 * i - 4 + k] = Finish(p[i])[k]
  BY <1>1 DEF EndedAs
<1>5. ASSUME NEW i \in 1 .. n
      PROVE  /\ q[n + 4 * i - 4 + 1].op = "leave" /\ q[n + 4 * i - 4 + 2].op = "closeRow"
             /\ q[n + 4 * i - 4 + 3].op = "release" /\ q[n + 4 * i - 4 + 4].op = "editNotice"
             /\ \A k \in 1 .. 4 : q[n + 4 * i - 4 + k].s = p[i]
  <2>1. /\ Finish(p[i])[1] = Do("leave", p[i]) /\ Finish(p[i])[2] = Do("closeRow", p[i])
        /\ Finish(p[i])[3] = Do("release", p[i]) /\ Finish(p[i])[4] = Do("editNotice", p[i])
    BY <1>3, FinishItems
  <2>2. /\ q[n + 4 * i - 4 + 1] = Finish(p[i])[1] /\ q[n + 4 * i - 4 + 2] = Finish(p[i])[2]
        /\ q[n + 4 * i - 4 + 3] = Finish(p[i])[3] /\ q[n + 4 * i - 4 + 4] = Finish(p[i])[4]
    BY SMTT(60), <1>4
  <2>3. ASSUME NEW k \in 1 .. 4 PROVE q[n + 4 * i - 4 + k].s = p[i]
    <3>1. k = 1 \/ k = 2 \/ k = 3 \/ k = 4
      OBVIOUS
    <3>2. q[n + 4 * i - 4 + k] = Finish(p[i])[k]
      BY <1>4
    <3>3. Finish(p[i])[k].s = p[i]
      BY <2>1, <3>1, DoParts
    <3> QED
      BY <3>2, <3>3
  <2> QED
    BY <2>1, <2>2, <2>3, DoParts
<1>6. ASSUME NEW a \in DOMAIN q
      PROVE  \/ a \in 1 .. n /\ q[a].op = "capture" /\ q[a].s = p[a]
             \/ \E i \in 1 .. n, k \in 1 .. 4 : a = n + 4 * i - 4 + k
  <2>1. CASE a \in 1 .. n
    BY SMTT(30), <1>4, <2>1, DoParts
  <2>2. CASE a \notin 1 .. n
    <3>1. PICK j : j = a - n
      OBVIOUS
    <3>2. j \in 1 .. 4 * n /\ a = n + j
      <4>1. a \in 1 .. 5 * n /\ n \in Nat
        BY <1>1, <1>4
      <4> QED
        BY <2>2, <3>1, <4>1
    <3>3. PICK i \in 1 .. n, k \in 1 .. 4 : j = 4 * i - 4 + k
      BY <3>2, Fourths
    <3>4. a = n + 4 * i - 4 + k
      BY <3>2, <3>3
    <3> QED
      BY <3>4
  <2> QED
    BY <2>1, <2>2
<1>7. \A a \in DOMAIN q : q[a].op \in FollowUps /\ q[a].s \in S
  <2> TAKE a \in DOMAIN q
  <2>1. CASE a \in 1 .. n /\ q[a].op = "capture" /\ q[a].s = p[a]
    BY <1>3, <2>1 DEF FollowUps
  <2>2. ASSUME NEW i \in 1 .. n, NEW k \in 1 .. 4, a = n + 4 * i - 4 + k
        PROVE  q[a].op \in FollowUps /\ q[a].s \in S
    <3>1. k = 1 \/ k = 2 \/ k = 3 \/ k = 4
      OBVIOUS
    <3>2. q[a].op \in {"leave", "closeRow", "release", "editNotice"} /\ q[a].s = p[i]
      BY <1>5, <2>2, <3>1
    <3> QED
      BY <1>3, <3>2 DEF FollowUps
  <2> QED
    BY <1>6, <2>1, <2>2
<1>8. ASSUME NEW a \in DOMAIN q, q[a].op \in {"leave", "closeRow", "release"}
      PROVE  \E i \in 1 .. n : /\ q[a].s = p[i]
                               /\ a = n + 4 * i - 4 + (IF q[a].op = "leave" THEN 1
                                                       ELSE IF q[a].op = "closeRow" THEN 2
                                                       ELSE 3)
  <2>1. PICK i \in 1 .. n, k \in 1 .. 4 : a = n + 4 * i - 4 + k
    BY <1>6, <1>8
  <2>2. k = 1 \/ k = 2 \/ k = 3 \/ k = 4
    OBVIOUS
  <2>3. /\ k = 1 <=> q[a].op = "leave"
        /\ k = 2 <=> q[a].op = "closeRow"
        /\ k = 3 <=> q[a].op = "release"
        /\ q[a].s = p[i]
    BY <1>5, <2>1, <2>2
  <2> QED
    BY <1>8, <2>1, <2>3
<1>9. ASSUME NEW a \in DOMAIN q, NEW b \in DOMAIN q, q[a].op \in {"closeRow", "release"},
             q[a].op = q[b].op, q[a].s = q[b].s
      PROVE  a = b
  <2>1. PICK d : d = IF q[a].op = "closeRow" THEN 2 ELSE 3
    OBVIOUS
  <2>2. PICK i \in 1 .. n : q[a].s = p[i] /\ a = n + 4 * i - 4 + d
    BY <1>8, <1>9, <2>1
  <2>3. PICK j \in 1 .. n : q[b].s = p[j] /\ b = n + 4 * j - 4 + d
    BY <1>8, <1>9, <2>1
  <2>4. i = j
    BY ZenonT(60), <1>2, <1>9, <2>2, <2>3
  <2> QED
    BY <2>2, <2>3, <2>4
<1>10. ASSUME NEW s \in S
       PROVE  /\ \E a \in DOMAIN q : q[a].op = "closeRow" /\ q[a].s = s
              /\ \E a \in DOMAIN q : q[a].op = "release" /\ q[a].s = s
  <2>1. PICK i \in 1 .. n : p[i] = s
    BY <1>2
  <2>2. n + 4 * i - 4 + 2 \in DOMAIN q /\ n + 4 * i - 4 + 3 \in DOMAIN q
    BY <1>4
  <2>3. 2 \in 1 .. 4 /\ 3 \in 1 .. 4
    OBVIOUS
  <2> QED
    BY <1>5, <2>1, <2>2, <2>3
<1>11. ASSUME NEW a \in DOMAIN q, q[a].op = "release"
       PROVE  \E b \in 1 .. a - 1 : q[b].op = "leave" /\ q[b].s = q[a].s
  BY <1>5, <1>8, <1>11
<1>12. ASSUME NEW a \in DOMAIN q, q[a].op = "leave"
       PROVE  \E b \in a + 1 .. Len(q) : q[b].op = "release" /\ q[b].s = q[a].s
  BY SMTT(30), <1>4, <1>5, <1>8, <1>12
<1> QED
  BY <1>4, <1>7, <1>9, <1>10, <1>11, <1>12 DEF FollowsUp

(* A check judges the live recordings by its snapshot.                     *)
JudgedRec(t, S, w) ==
  /\ rec'[t] \in Active
  /\ rec'[t].recorder = rec[t].recorder /\ rec'[t].chan = rec[t].chan
  /\ rec'[t].via = rec[t].via /\ rec'[t].entered = rec[t].entered
  /\ t \notin S => rec'[t].stopping = rec[t].stopping /\ rec'[t].ended = rec[t].ended
  /\ t \in S => rec'[t].stopping /\ rec'[t].ended \in Ends
  /\ t \notin S /\ Runs(t) /\ Live(t) => rec[t].chan \in snap[w].human

LEMMA JudgedRecs ==
  ASSUME RecordingInv, NEW w \in Goroutines, Judge(w)
  PROVE  \E S \in SUBSET Recs :
           /\ \A t \in S : Runs(t) /\ Live(t)
           /\ \A t \in Recs : JudgedRec(t, S, w)
           /\ rec' \in [Recs -> Active]
           /\ \E q \in SetToSeqs(S) :
                Goes(w, [i \in DOMAIN q |-> Do("capture", q[i])]
                        \o FlattenSeq([i \in DOMAIN q |-> Finish(q[i])]))
<1> DEFINE live == {s \in Recs : Runs(s) /\ Live(s)}
           in(s) == snap[w].seen[rec[s].recorder] = rec[s].chan
           grace(s) == rec[s].ownLeft \/ rec[s].grace
           left == {s \in live : rec[s].recorderSeen /\ ~in(s) /\ ~grace(s)}
           empty == {s \in live \ left : rec[s].chan \notin snap[w].human}
           S == left \cup empty
           over(s) == IF s \in left THEN "left" ELSE IF s \in empty THEN "empty"
                      ELSE rec[s].ended
           next(s) == [rec[s] EXCEPT !.recorderSeen = @ \/ in(s), !.ownLeft = FALSE,
                                     !.grace = grace(s), !.stopping = s \in S,
                                     !.ended = over(s)]
<1>1. TypeOK
  BY DEF RecordingInv
<1>2. rec' = [s \in Recs |-> IF s \notin live THEN rec[s]
                             ELSE [rec[s] EXCEPT
                               !.recorderSeen = @ \/ in(s),
                               !.ownLeft = FALSE, !.grace = grace(s),
                               !.stopping = s \in left \cup empty,
                               !.ended = IF s \in left THEN "left"
                                         ELSE IF s \in empty THEN "empty" ELSE @]]
  BY ZenonT(60) DEF Judge
<1>3. \E q \in SetToSeqs(S) :
        Goes(w, [i \in DOMAIN q |-> Do("capture", q[i])]
                \o FlattenSeq([i \in DOMAIN q |-> Finish(q[i])]))
  BY DEF Judge
<1>4. S \in SUBSET Recs /\ \A t \in S : t \in live
  OBVIOUS
<1>5. \A t \in live : t \in Recs /\ Runs(t) /\ Live(t)
  OBVIOUS
<1>6. \A t \in live : t \notin S => rec[t].chan \in snap[w].human
  OBVIOUS
<1>7. \A t \in S : over(t) \in Ends
  BY DEF Ends
<1>8. ASSUME NEW t \in Recs PROVE JudgedRec(t, S, w)
  <2>1. rec[t] \in Active
    BY ZenonT(30), <1>1 DEF TypeOK
  <2>2. CASE t \notin live
    BY <1>2, <1>4, <2>1, <2>2 DEF JudgedRec
  <2>3. CASE t \in live
    <3>1. PICK a \in BOOLEAN : a = (rec[t].recorderSeen \/ in(t))
      BY <2>1 DEF Active
    <3>2. PICK b \in BOOLEAN : b = grace(t)
      BY <2>1 DEF Active
    <3>3. PICK c : c = (t \in S)
      OBVIOUS
    <3>14. c \in BOOLEAN /\ (t \in S => c = TRUE) /\ (t \notin S => c = FALSE)
      <4> HIDE DEF S
      <4>1. CASE t \in S
        BY <3>3, <4>1
      <4>2. CASE t \notin S
        <5>1. (t \in S) = FALSE
          BY <4>2
        <5> QED
          BY <3>3, <4>2, <5>1
      <4> QED
        BY <4>1, <4>2
    <3>4. PICK e : e = over(t)
      OBVIOUS
    <3>5. rec'[t] = [rec[t] EXCEPT !.recorderSeen = a, !.ownLeft = FALSE, !.grace = b,
                                   !.stopping = c, !.ended = e]
      BY ZenonT(30), <1>2, <2>1, <2>3, <3>1, <3>2, <3>3, <3>4 DEF Active
    <3>6. /\ t \notin S => e = rec[t].ended
          /\ t \in S => e \in Ends
      BY <1>7, <3>4
    <3>7. ~rec[t].stopping /\ Runs(t) /\ Live(t) /\ (t \notin S => rec[t].chan \in snap[w].human)
      BY <1>5, <1>6, <2>3 DEF Live
    <3>8. e \in Ends \cup {"no"}
      BY <2>1, <3>6 DEF Active
    <3> HIDE DEF S, live, in, grace, over
    <3>9. rec'[t] \in Active
      BY ZenonT(30), <2>1, <3>5, <3>8, <3>14 DEF Active
    <3>10. /\ rec'[t].recorder = rec[t].recorder /\ rec'[t].chan = rec[t].chan
           /\ rec'[t].via = rec[t].via /\ rec'[t].entered = rec[t].entered
           /\ rec'[t].stopping = c /\ rec'[t].ended = e
      BY <2>1, <3>5 DEF Active
    <3>13. t \notin S => rec'[t].stopping = rec[t].stopping /\ rec'[t].ended = rec[t].ended
      BY <2>1, <3>6, <3>7, <3>10, <3>14 DEF Active
    <3> QED
      BY <3>6, <3>7, <3>9, <3>10, <3>13, <3>14 DEF JudgedRec
  <2> QED
    BY <2>2, <2>3
<1>9. rec' \in [Recs -> Active]
  BY Zenon, <1>2, <1>8 DEF JudgedRec
<1> HIDE DEF S, live, in, grace, over
<1> QED
  BY <1>3, <1>4, <1>5, <1>8, <1>9

LEMMA JudgeKeeps ==
  ASSUME RecordingInv, NEW w \in Goroutines, Judge(w)
  PROVE  RecordingInv'
<1>1. TypeOK /\ PlacesTell /\ EmptiesTell /\ RecsTell
  BY DEF RecordingInv
<1>2. PICK S \in SUBSET Recs :
        /\ \A t \in S : Runs(t) /\ Live(t)
        /\ \A t \in Recs : JudgedRec(t, S, w)
        /\ rec' \in [Recs -> Active]
        /\ \E p \in SetToSeqs(S) :
             Goes(w, [i \in DOMAIN p |-> Do("capture", p[i])]
                     \o FlattenSeq([i \in DOMAIN p |-> Finish(p[i])]))
  BY JudgedRecs
<1>3. PICK p \in SetToSeqs(S) :
        Goes(w, [i \in DOMAIN p |-> Do("capture", p[i])]
                \o FlattenSeq([i \in DOMAIN p |-> Finish(p[i])]))
  BY <1>2
<1>4. p \in Seq(Nat)
  BY <1>2, <1>3, RecordingAssumption, FS_Subset, EachOnce, SeqMonotonic
<1>5. PICK q : q = [i \in DOMAIN p |-> Do("capture", p[i])]
                   \o FlattenSeq([i \in DOMAIN p |-> Finish(p[i])])
  OBVIOUS
<1>6. FollowsUp(q, S) /\ q \in Seq(Item)
  <2>1. EndedAs(q, p)
    BY ZenonT(30), <1>4, <1>5, EndedItems
  <2> QED
    <3>1. FollowsUp(q, S)
      BY <1>2, <1>3, <2>1, EndedFollows
    <3> QED
      BY <3>1 DEF FollowsUp
<1>7. run[w] # <<>> /\ run[w][1].op = "judge" /\ Len(run[w]) = 1
  BY AtHead DEF Judge, PlaceTells
<1>8. Moved(w, q)
  BY <1>1, <1>3, <1>5, <1>6, <1>7, GoesMoves
<1>9. /\ UNCHANGED <<recordersVars, at, seen, human, check, running, shutdown, conn, ear, armed,
                     row, notice, used, old, allowed>>
      /\ snap' = [snap EXCEPT ![w] = NoSnap]
  BY DEF Judge, world, adapter, kept
<1>10. /\ snap' \in [Goroutines -> Snapshot]
       /\ \A g \in Goroutines \ {w} : snap'[g] = snap[g]
  BY <1>1, <1>9 DEF NoSnap, Snapshot, TypeOK
<1>11. TypeOK'
  BY <1>1, <1>2, <1>8, <1>9, <1>10 DEF TypeOK, Moved, RecordersTypeOK, recordersVars
<1>12. TakenAll(S)
  BY <1>2 DEF TakenAll, JudgedRec
<1>13. EmptiesTell'
  <2> SUFFICES ASSUME NEW t \in Recs, NEW c, Live(t)', rec'[t].chan = c, c \notin human
               PROVE  Watched(c)'
    BY <1>9 DEF EmptiesTell, EmptyTells
  <2>2. JudgedRec(t, S, w)
    BY <1>2
  <2>3. rec[t].chan = c /\ Live(t) /\ t \notin S
    BY <2>2 DEF JudgedRec, Live
  <2>4. Watched(c)
    BY <1>1, <2>3 DEF EmptiesTell, EmptyTells
  <2>5. Runs(t)
    BY <1>1, <2>3 DEF RecsTell, RecTells, Live, Unended
  <2>6. c \in snap[w].human
    BY <2>2, <2>3, <2>5 DEF JudgedRec
  <2>7. CASE check
    BY <1>9, <2>3, <2>7 DEF Watched
  <2>8. ASSUME NEW g \in Goroutines, NEW i \in DOMAIN run[g],
               \/ run[g][i].op = "check"
               \/ run[g][i].op = "judge" /\ c \notin snap[g].human
        PROVE  Watched(c)'
    <3>1. ~(g = w /\ i = 1)
      BY <1>7, <2>6, <2>8
    <3>2. g # w
      BY <1>1, <1>7, <3>1, Queues
    <3>3. \E j \in DOMAIN run'[g] : run'[g][j] = run[g][i]
      BY <1>1, <1>6, <1>8, <3>1, MovedOn
    <3> QED
      BY <1>10, <2>8, <3>2, <3>3 DEF Watched
  <2> QED
    BY <2>3, <2>4, <2>7, <2>8 DEF Watched
<1>14. /\ UNCHANGED <<recordersVars, running, conn, row, old, used, shutdown>>
       /\ allowed["storeFault"] = 0 => allowed'["storeFault"] = 0
  BY <1>9
<1> QED
  BY <1>2, <1>6, <1>7, <1>8, <1>11, <1>12, <1>13, <1>14, TakesKeep

-----------------------------------------------------------------------------
(* A gap's limit cuts a recording short.                                   *)
CutAs(q, s) ==
  /\ q \in Seq(Item)
  /\ \A i \in DOMAIN q : q[i].op \in {"editNotice", "leave", "relogin", "closeRow"}
                         /\ q[i].s = s
  /\ \A i, j \in DOMAIN q : q[i].op = "closeRow" /\ q[j].op = "closeRow" => i = j
  /\ \A i, j \in DOMAIN q : q[i].op = "relogin" /\ q[j].op = "relogin" => i = j
  /\ \E i \in DOMAIN q : q[i].op = "closeRow"
  /\ \A i \in DOMAIN q : q[i].op = "relogin" => state[rec[s].recorder] = "online"
  /\ state[rec[s].recorder] = "online" => \E i \in DOMAIN q : q[i].op = "relogin"

LEMMA CutItems ==
  ASSUME NEW s \in Recs
  PROVE  CutAs(<<Do("editNotice", s), Do("leave", s)>> \o ReloginOf(s)
               \o <<Do("closeRow", s)>>, s)
<1> DEFINE on == state[rec[s].recorder] = "online"
<1>1. PICK e : e = Do("editNotice", s)
  OBVIOUS
<1>2. PICK l : l = Do("leave", s)
  OBVIOUS
<1>3. PICK c : c = Do("closeRow", s)
  OBVIOUS
<1>4. PICK m : m = ReloginOf(s)
  OBVIOUS
<1>5. /\ e \in Item /\ l \in Item /\ c \in Item /\ e.op = "editNotice" /\ l.op = "leave"
      /\ c.op = "closeRow" /\ e.s = s /\ l.s = s /\ c.s = s
  BY <1>1, <1>2, <1>3, RecordingAssumption, ItemOf DEF Stops
<1>6. /\ m \in Seq(Item) /\ (on => 1 \in DOMAIN m)
      /\ \A i \in DOMAIN m : i = 1 /\ on /\ m[i].op = "relogin" /\ m[i].s = s
  BY <1>4, ReloginItems, DoParts
<1> HIDE DEF on
<1>7. PICK p : p = <<e, l>>
  OBVIOUS
<1>8. p \in Seq(Item) /\ Len(p) = 2 /\ p[1] = e /\ p[2] = l
  BY <1>5, <1>7
<1>9. PICK q : q = (p \o m) \o <<c>>
  OBVIOUS
<1>10. PICK k : k = Len(m)
  OBVIOUS
<1>11. k \in {0, 1} /\ (k = 1 <=> on) /\ DOMAIN m = 1 .. k
  BY <1>6, <1>10
<1>12. PICK a : a = p \o m
  OBVIOUS
<1>13. /\ a \in Seq(Item) /\ Len(a) = 2 + k /\ a[1] = e /\ a[2] = l
       /\ k = 1 => a[3] = m[1]
  <2>1. /\ a \in Seq(Item) /\ Len(a) = Len(p) + Len(m)
        /\ \A i \in 1 .. Len(p) : a[i] = p[i]
        /\ \A i \in 1 .. Len(m) : a[Len(p) + i] = m[i]
    BY ZenonT(30), <1>6, <1>8, <1>12, Concat
  <2>2. /\ 1 \in 1 .. 2 /\ 2 \in 1 .. 2 /\ 2 + 1 = 3 /\ (k = 1 => 1 \in 1 .. k)
    OBVIOUS
  <2> QED
    BY <1>8, <1>10, <2>1, <2>2
<1>14. /\ q \in Seq(Item) /\ Len(q) = 3 + k /\ q[1] = e /\ q[2] = l
       /\ k = 1 => q[3] = m[1]
       /\ q[3 + k] = c
  BY <1>5, <1>9, <1>11, <1>12, <1>13, Appended
<1>15. DOMAIN q = 1 .. 3 + k /\ 3 + k \in {3, 4}
  BY <1>11, <1>14
<1>16. \A i \in DOMAIN q : i = 1 \/ i = 2 \/ (k = 1 /\ i = 3) \/ i = 3 + k
  BY <1>11, <1>15
<1>17. k = 1 => q[3].op = "relogin" /\ q[3].s = s
  BY <1>6, <1>11, <1>14
<1>18. /\ \A i \in DOMAIN q : q[i].op \in {"editNotice", "leave", "relogin", "closeRow"}
                              /\ q[i].s = s
       /\ \A i \in DOMAIN q : q[i].op = "closeRow" => i = 3 + k
       /\ \A i \in DOMAIN q : q[i].op = "relogin" => i = 3 /\ k = 1
       /\ 3 + k \in DOMAIN q /\ q[3 + k].op = "closeRow"
       /\ k = 1 => 3 \in DOMAIN q
  BY <1>5, <1>11, <1>14, <1>15, <1>16, <1>17
<1>19. CutAs(q, s)
  BY <1>11, <1>14, <1>17, <1>18 DEF CutAs, on
<1> QED
  BY <1>1, <1>2, <1>3, <1>4, <1>7, <1>9, <1>19

EndedByGap(s) == rec' = [rec EXCEPT ![s].stopping = TRUE, ![s].ended = "gap", ![s].gap = NoGap]

LEMMA CutShort ==
  ASSUME RecordingInv, NEW w \in Goroutines, GapLimit(w), NEW s, s = Rec(w),
         Live(s), Runs(s),
         EndedByGap(s), Freed(s), TakeOffline(rec[s].recorder), NEW q, CutAs(q, s), Goes(w, q)
  PROVE  RecordingInv'
<1>1. /\ TypeOK /\ RecsTell /\ RowsTold /\ ItemsTell /\ EmptiesTell /\ PlacesTell /\ LeavesTell
      /\ Once(Holding) /\ Once({"closeRow"}) /\ Once({"recover"}) /\ RunningTells
  BY DEF RecordingInv
<1>2. PICK r : r = rec[s].recorder
  OBVIOUS
<1>3. /\ run[w] # <<>> /\ run[w][1].op = "gapLimit" /\ run[w][1].s = s
      /\ ItemTells(run[w][1]) /\ 1 \in DOMAIN run[w]
  BY AtHead DEF GapLimit
<1>4. s \in Recs /\ s \in Nat
  BY <1>3, RecordingAssumption DEF ItemTells
<1>5. /\ Unended(s) /\ conn[s] = "open" /\ row[s] = "open" /\ s \notin old /\ s <= used
      /\ r \in Recorders /\ rec[s].entered /\ rec[s].ended = "no"
  BY <1>2, <1>4, LiveOnes
<1>6. RecTells(s) /\ RowTells(s) /\ used \in Nat
  BY <1>1, <1>4 DEF RecsTell, RowsTold, TypeOK
<1>7. UNCHANGED <<valid, session, logins, up, ending, task, held, closed, at, seen, human, check,
                  shutdown, conn, ear, armed, row, notice, used, old, snap, allowed>>
  BY DEF GapLimit, world, adapter, kept
<1>8. q \in Seq(Item) /\ Moved(w, q)
  BY <1>1, <1>3, GoesMoves DEF CutAs
<1>9. /\ state' \in [Recorders -> States] /\ owed' \subseteq Recorders /\ owed \subseteq owed'
      /\ state[r] = "online" => r \in owed'
  BY <1>1, <1>2, <1>5, TakenTypes
<1>10. /\ rec' \in [Recs -> Active]
       /\ rec'[s].stopping /\ rec'[s].ended = "gap"
       /\ rec'[s].recorder = rec[s].recorder /\ rec'[s].via = rec[s].via
       /\ rec'[s].chan = rec[s].chan /\ rec'[s].entered = rec[s].entered
       /\ \A t \in Recs : t # s => rec'[t] = rec[t]
  <2>1. rec[s] \in Active
    BY <1>1, <1>4 DEF TypeOK
  <2>2. [rec[s] EXCEPT !.stopping = TRUE, !.ended = "gap", !.gap = NoGap] \in Active
    BY <2>1, RecordingAssumption DEF Active, Ends
  <2>3. rec' = [rec EXCEPT ![s] = [rec[s] EXCEPT !.stopping = TRUE, !.ended = "gap",
                                                 !.gap = NoGap]]
    BY ZenonT(30), <1>1, <1>4, <2>1 DEF TypeOK, Active, EndedByGap
  <2> QED
    BY <1>1, <1>4, <2>1, <2>2, <2>3 DEF TypeOK, Active
<1>11. TypeOK'
  <2>1. running' \in [Recorders -> Recs \cup {NoRec}]
    BY <1>1, <1>2, <1>4, <1>5, FreedTypes
  <2> QED
    BY <1>1, <1>7, <1>8, <1>9, <1>10, <2>1 DEF TypeOK, Moved, RecordersTypeOK
<1>12. \A t \in Recs : rec'[t].recorder = rec[t].recorder /\ rec'[t].via = rec[t].via
  BY <1>10
<1>13. OnceRelogin' /\ OwedTells'
  BY SMTT(30), <1>2, <1>3, <1>4, <1>5, <1>8, <1>12, TakenRelogins DEF CutAs
<1>14. \A t \in Recs : HasConn(t)' => HasConn(t)
  BY <1>1, <1>5, <1>7, <1>8, PendingBack DEF HasConn, CutAs
<1>15. /\ ConnsTell' /\ OwnConn' /\ RecordersInv' /\ RunningTells'
       /\ ~Runs(s)' /\ \A t \in Recs : t # s => (Runs(t)' <=> Runs(t))
  BY <1>2, <1>4, <1>5, <1>7, <1>12, <1>14, TakenConns
<1>16. \A t \in Recs : t # s => Kept(t)
  BY <1>7, <1>10, <1>15 DEF Kept
<1>17. /\ \A i \in DOMAIN q : q[i].op \in Loose
       /\ \A i \in DOMAIN q : q[i].op \notin Holding \cup {"recover", "release"}
       /\ run[w][1].op \notin Counted \cup {"leave", "look", "list", "relogin", "idle", "kick",
                                            "check", "judge"}
  BY <1>3 DEF CutAs, Loose, Holding, Closing, Counted
<1>18. PlacesTell'
  BY <1>1, <1>8, <1>17, PlacesLoose
<1>19. LeavesTell'
  BY <1>1, <1>7, <1>8, <1>15, <1>17, PendingRecs, LeavesMoved DEF CutAs
<1>20. \A x \in Item : Waits(x, w) /\ x.s = s => x.op \notin Heavy
  BY <1>4, LiveAlone
<1>21. Once(Holding)' /\ Once({"recover"})'
  BY <1>1, <1>8, <1>17, OnceMoved
<1>22. Once({"closeRow"})'
  BY SMTT(30), <1>1, <1>3, <1>8, <1>20, Queues, OnceMoved DEF CutAs, Waits, Heavy
<1>23. /\ \A c : c \notin human /\ Watched(c) => Watched(c)'
       /\ Listing => Listing'
  BY <1>1, <1>7, <1>8, <1>17, WatchedOn, ListingOn
<1>24. RecTells(s)' /\ EmptyTells(s)' /\ RowTells(s)'
  <2>1. Pending({"enter", "closeRow"}, s)'
    <3>1. PICK i \in DOMAIN q : q[i].op = "closeRow" /\ q[i].s = s
      BY DEF CutAs
    <3> QED
      BY <1>1, <1>8, <3>1, PendingNew
  <2>2. RecTells(s)'
    BY <1>5, <1>6, <1>7, <1>10, <1>15 DEF RecTells, Unended
  <2>3. EmptyTells(s)'
    BY <1>10 DEF EmptyTells, Live
  <2>4. RowTells(s)'
    BY <1>5, <1>6, <1>7, <2>1 DEF RowTells, NoStoreFaults
  <2> QED
    BY <2>2, <2>3, <2>4
<1>25. \A x \in Item : (\E i \in DOMAIN q : q[i] = x) => ItemTells(x)'
  BY <1>2, <1>4, <1>5, <1>7, <1>9, <1>10 DEF CutAs, Ends, ItemTells, Opening, Closing,
     Unended
<1>26. \A x \in Item : Waits(x, w) /\ ItemTells(x) /\ x.s = s => ItemTells(x)'
  BY <1>9, <1>10, <1>20, LightKept
<1>27. ItemsTell' /\ RecsTell' /\ EmptiesTell' /\ RowsTold'
  <2>1. PICK X : X = {s}
    OBVIOUS
  <2>2. /\ \A t \in Recs : t \notin X => Kept(t)
        /\ \A t \in Recs : t \in X => RecTells(t)' /\ EmptyTells(t)' /\ RowTells(t)'
        /\ \A x \in Item : Waits(x, w) /\ ItemTells(x) /\ x.s \in X => ItemTells(x)'
        /\ run[w] # <<>> /\ run[w][1].op \in Counted => run[w][1].s \in X
    BY <1>3, <1>16, <1>24, <1>26, <2>1
  <2>3. /\ used' \in {used, used + 1} /\ UNCHANGED <<old, shutdown, human>>
        /\ allowed["storeFault"] = 0 => allowed'["storeFault"] = 0
    BY <1>7
  <2> QED
    BY <1>8, <1>9, <1>23, <1>25, <2>2, <2>3, Touched
<1> QED
  BY <1>11, <1>13, <1>15, <1>18, <1>19, <1>21, <1>22, <1>27, Together

LEMMA GapLimitKeeps ==
  ASSUME RecordingInv, NEW w \in Goroutines, GapLimit(w)
  PROVE  RecordingInv'
<1>1. PICK s : s = Rec(w)
  OBVIOUS
<1>2. /\ run[w] # <<>> /\ run[w][1].op = "gapLimit" /\ run[w][1].s = s
      /\ ItemTells(run[w][1]) /\ TypeOK /\ PlacesTell
  BY <1>1, AtHead DEF GapLimit, RecordingInv
<1>3. s \in Recs
  BY <1>2 DEF ItemTells
<1>4. CASE /\ Live(s) /\ Runs(s)
           /\ rec' = [rec EXCEPT ![s].stopping = TRUE, ![s].ended = "gap", ![s].gap = NoGap]
           /\ Freed(s) /\ TakeOffline(rec[s].recorder)
           /\ Goes(w, <<Do("editNotice", s), Do("leave", s)>> \o ReloginOf(s)
                      \o <<Do("closeRow", s)>>)
  BY <1>1, <1>3, <1>4, CutItems, CutShort DEF EndedByGap
<1>5. CASE Goes(w, <<>>) /\ UNCHANGED <<rec, running, state, owed>>
  <2>1. UNCHANGED <<recordersVars, at, seen, human, check, running, rec, shutdown, conn, ear,
                    armed, row, notice, used, old, snap, allowed>>
    BY <1>5 DEF GapLimit, world, adapter, kept, recordersVars
  <2>2. Moved(w, <<>>) /\ PlacesTell'
    BY <1>2, <1>5, PoppedPlaces
  <2>3. TypeOK'
    BY <1>2, <2>1, <2>2 DEF TypeOK, Moved, RecordersTypeOK, recordersVars
  <2>4. \A t \in Recs : Kept(t)
    BY <2>1 DEF Kept, Runs
  <2>5. run[w][1].op \notin Counted \cup {"leave"}
    BY <1>2 DEF Counted, Holding, Closing
  <2>6. /\ \A c : c \notin human /\ Watched(c) => Watched(c)'
        /\ Listing => Listing'
    BY <1>2, <2>1, <2>2, NoMore, WatchedOn, ListingOn
  <2> QED
    BY <2>1, <2>2, <2>3, <2>4, <2>5, <2>6, NoMore, PlainStep
<1> QED
  BY <1>1, <1>4, <1>5 DEF GapLimit

-----------------------------------------------------------------------------
(* Recovery looks at the recorders, and at the last process's rows.        *)
LookAs(q) ==
  /\ q \in Seq(Item) /\ Len(q) >= 1
  /\ q[Len(q)].op = "list"
  /\ \A i \in 1 .. Len(q) - 1 : q[i].op = "idle" /\ q[i].s \in Recorders

LEMMA LookItems ==
  ASSUME NEW p \in SetToSeqs(Recorders)
  PROVE  LookAs([i \in DOMAIN p |-> Do("idle", p[i])] \o <<Do("list", 0)>>)
<1>1. PICK a : a = [i \in DOMAIN p |-> Do("idle", p[i])]
  OBVIOUS
<1>2. PICK x : x = Do("list", 0)
  OBVIOUS
<1>3. PICK q : q = a \o <<x>>
  OBVIOUS
<1>4. p \in Seq(Recorders) /\ DOMAIN p = 1 .. Len(p)
  BY RecordersAssumption, EachOnce
<1>5. PICK n \in Nat : n = Len(p)
  BY RecordersAssumption, EachOnce
<1>6. \A i \in 1 .. n : p[i] \in Recorders /\ p[i] \in Nat
  <2>1. \A i \in 1 .. n : p[i] \in Recorders
    BY <1>4, <1>5
  <2> QED
    BY <2>1, RecordersAssumption
<1>7. \A i \in 1 .. n : Do("idle", p[i]) \in Item /\ Do("idle", p[i]).op = "idle"
                        /\ Do("idle", p[i]).s = p[i]
  BY <1>6, ItemOf DEF Recovers
<1>8. a \in Seq(Item) /\ Len(a) = n /\ \A i \in 1 .. n : a[i] = Do("idle", p[i])
  BY <1>1, <1>4, <1>5, <1>7
<1>9. x \in Item /\ x.op = "list"
  BY <1>2, ItemOf DEF Recovers
<1>10. /\ q \in Seq(Item) /\ Len(q) = n + 1 /\ q[n + 1] = x
       /\ \A i \in 1 .. n : q[i] = a[i]
  BY <1>3, <1>8, <1>9, Appended
<1>11. \A i \in 1 .. n : q[i].op = "idle" /\ q[i].s \in Recorders
  BY <1>6, <1>7, <1>8, <1>10
<1>12. LookAs(q)
  BY <1>9, <1>10, <1>11 DEF LookAs
<1> QED
  BY <1>1, <1>2, <1>3, <1>12

LEMMA LookKeeps ==
  ASSUME RecordingInv, Look
  PROVE  RecordingInv'
<1>1. PICK w : w = Recovery
  OBVIOUS
<1>2. /\ TypeOK /\ PlacesTell /\ w \in Goroutines /\ run[w] # <<>>
      /\ run[w][1].op = "look" /\ PlaceTells(w, 1) /\ Snapped(w)
  BY <1>1, AtHead DEF RecordingInv, Goroutines, Look
<1>3. PICK q : LookAs(q) /\ Goes(w, q)
  BY <1>1, LookItems DEF Look
<1>4. q \in Seq(Item) /\ Moved(w, q) /\ Len(run[w]) <= 1
  <2>1. q \in Seq(Item)
    BY <1>3 DEF LookAs
  <2>2. Moved(w, q)
    BY <1>2, <1>3, <2>1, GoesMoves
  <2> QED
    <3>1. Len(run[w]) = 1
      BY <1>2 DEF PlaceTells
    <3> QED
      BY <2>1, <2>2, <3>1
<1>5. PICK n \in Nat : n = Len(q)
  BY <1>4
<1>6. /\ n \in DOMAIN q /\ q[n].op = "list" /\ DOMAIN q = 1 .. n
      /\ \A i \in DOMAIN q : i # n => q[i].op = "idle" /\ q[i].s \in Recorders
  BY <1>3, <1>4, <1>5 DEF LookAs
<1>7. UNCHANGED <<recordersVars, at, seen, human, check, running, rec, shutdown, conn, ear,
                  armed, row, notice, used, old, allowed>>
  BY DEF Look, world, runtime, adapter, kept
<1>8. snap' \in [Goroutines -> Snapshot] /\ \A g \in Goroutines \ {w} : snap'[g] = snap[g]
  BY <1>2, SnapshotTaken
<1>9. TypeOK'
  BY <1>2, <1>4, <1>7, <1>8 DEF TypeOK, Moved, RecordersTypeOK, recordersVars
<1>10. \A t \in Recs : Kept(t)
  BY <1>7 DEF Kept, Runs
<1>11. Len(run'[w]) = n /\ \A i \in 1 .. n : run'[w][i] = q[i]
  BY <1>2, <1>4, <1>5 DEF Moved, PlaceTells
<1>12. \A i \in DOMAIN q : PlaceTells(w, i)'
  BY <1>1, <1>6, <1>11 DEF PlaceTells, Recovers
<1>13. PlacesTell'
  BY <1>2, <1>4, <1>12, PlacesFresh
<1>14. \A c : c \notin human /\ Watched(c) => Watched(c)'
  BY <1>2, <1>4, <1>7, <1>8, WatchedOn
<1>15. Listing'
  BY SMTT(30), <1>2, <1>4, <1>6, <1>11 DEF Moved, Listing
<1>16. \A x \in Item : (\E i \in DOMAIN q : q[i] = x) => ItemTells(x)'
  BY <1>6 DEF ItemTells, Opening, Closing
<1>17. /\ run[w][1].op \notin Counted \cup {"leave"}
       /\ \A i \in DOMAIN q : q[i].op \notin Counted \cup {"leave"}
  BY <1>2, <1>6 DEF Counted, Holding, Closing
<1> QED
  BY <1>2, <1>4, <1>7, <1>9, <1>10, <1>13, <1>14, <1>15, <1>16, <1>17, PlainStep

ListAs(q, S) ==
  /\ q \in Seq(Item)
  /\ \A i \in DOMAIN q : q[i].op = "recover" /\ q[i].s \in S
  /\ \A i, j \in DOMAIN q : q[i].s = q[j].s => i = j

LEMMA ListItems ==
  ASSUME NEW S \in SUBSET Recs, NEW p \in SetToSeqs(S)
  PROVE  LET q == [i \in DOMAIN p |-> Do("recover", p[i])]
         IN ListAs(q, S) /\ \A s \in S : \E i \in DOMAIN q : q[i].op = "recover" /\ q[i].s = s
<1>1. PICK q : q = [i \in DOMAIN p |-> Do("recover", p[i])]
  OBVIOUS
<1>2. IsFiniteSet(S)
  BY RecordingAssumption, FS_Subset
<1>3. PICK n \in Nat : n = Len(p)
  BY <1>2, EachOnce
<1>4. /\ p \in Seq(S) /\ DOMAIN p = 1 .. n
      /\ \A i, j \in 1 .. n : p[i] = p[j] => i = j
      /\ \A s \in S : \E i \in 1 .. n : p[i] = s
  BY <1>2, <1>3, EachOnce
<1>5. \A i \in 1 .. n : p[i] \in S /\ p[i] \in Nat
  <2>1. \A i \in 1 .. n : p[i] \in S
    BY <1>4
  <2>2. S \subseteq Nat
    BY RecordingAssumption
  <2> QED
    BY <2>1, <2>2
<1>6. \A i \in 1 .. n : Do("recover", p[i]) \in Item /\ Do("recover", p[i]).op = "recover"
                        /\ Do("recover", p[i]).s = p[i]
  BY <1>5, ItemOf DEF Recovers
<1>7. /\ q \in Seq(Item) /\ DOMAIN q = 1 .. n
      /\ \A i \in 1 .. n : q[i].op = "recover" /\ q[i].s = p[i]
  BY <1>1, <1>4, <1>6
<1>8. ListAs(q, S)
  BY <1>4, <1>5, <1>7 DEF ListAs
<1>9. \A s \in S : \E i \in DOMAIN q : q[i].op = "recover" /\ q[i].s = s
  BY <1>4, <1>7
<1> QED
  BY <1>1, <1>8, <1>9

(* The step, when the rows are listed and when the store refuses.          *)
LEMMA ListNext ==
  ASSUME RecordingInv, NEW w, w = Recovery, At(w, "list"), NEW q, ListAs(q, LastProcess),
         Goes(w, q), snap' = [snap EXCEPT ![w] = NoSnap],
         UNCHANGED <<recordersVars, world, runtime, adapter, kept>>,
         \/ UNCHANGED allowed /\ \A s \in LastProcess : \E i \in DOMAIN q :
                                   q[i].op = "recover" /\ q[i].s = s
         \/ Spend("storeFault")
  PROVE  RecordingInv'
<1>1. /\ TypeOK /\ PlacesTell /\ ItemsTell /\ LeavesTell /\ RowsTold /\ w \in Goroutines
      /\ Once(Holding) /\ Once({"closeRow"}) /\ Once({"recover"})
      /\ run[w] # <<>> /\ run[w][1].op = "list" /\ PlaceTells(w, 1)
  BY AtHead DEF RecordingInv, Goroutines
<1>2. q \in Seq(Item) /\ Moved(w, q) /\ Len(run[w]) = 1
  BY <1>1, GoesMoves DEF ListAs, PlaceTells
<1>3. UNCHANGED <<recordersVars, at, seen, human, check, running, rec, shutdown, conn, ear,
                  armed, row, notice, used, old>>
  BY DEF world, runtime, adapter, kept
<1>4. /\ \A i \in DOMAIN q : q[i].op = "recover" /\ q[i].s \in LastProcess
      /\ \A i, j \in DOMAIN q : q[i].s = q[j].s => i = j
  BY DEF ListAs
<1>5. \A s \in LastProcess : s \in old /\ row[s] = "open" /\ s \in Recs
  BY <1>1 DEF LastProcess, TypeOK
<1>6. /\ allowed' \in [Kinds -> Nat]
      /\ allowed["storeFault"] = 0 =>
           /\ allowed'["storeFault"] = 0
           /\ \A s \in LastProcess : \E i \in DOMAIN q : q[i].op = "recover" /\ q[i].s = s
  BY ZenonT(30), <1>1, SpendKeeps DEF Kinds, TypeOK
<1>7. snap' \in [Goroutines -> Snapshot] /\ \A g \in Goroutines \ {w} : snap'[g] = snap[g]
  BY <1>1 DEF NoSnap, Snapshot, TypeOK
<1>8. TypeOK'
  BY SMTT(30), <1>1, <1>2, <1>3, <1>6, <1>7 DEF TypeOK, Moved, RecordersTypeOK, recordersVars
<1>9. \A t \in Recs : Kept(t)
  BY <1>3 DEF Kept, Runs
<1>10. PICK X : X = {}
  OBVIOUS
<1>11. /\ \A t \in Recs : t \notin X => Kept(t)
       /\ run[w] # <<>> /\ run[w][1].op \in Counted => run[w][1].s \in X
       /\ old' = old /\ used' \in {used, used + 1} /\ (shutdown => shutdown')
       /\ owed \subseteq owed' /\ human' = human
  BY <1>1, <1>3, <1>9 DEF Counted, Holding, Closing, recordersVars
<1>12. RecsTell' /\ ItemsTell'
  <2>1. /\ \A t \in Recs : t \notin X => RecTells(t)'
        /\ \A x \in Item : Waits(x, w) /\ x.s \notin X => ItemTells(x)'
    BY <1>1, <1>2, <1>11, UntouchedRecs
  <2>2. \A x \in Item : (\E i \in DOMAIN q : q[i] = x) => ItemTells(x)'
    BY <1>3, <1>4, <1>5 DEF ItemTells, Opening, Closing
  <2>3. \A x \in Item : Waits(x, w) => ItemTells(x)'
    BY <1>10, <2>1
  <2>4. ItemsTell'
    BY <1>1, <1>2, <2>2, <2>3, ItemsMoved
  <2> QED
    BY <1>10, <2>1, <2>4 DEF RecsTell
<1>13. EmptiesTell'
  BY <1>1, <1>2, <1>3, <1>7, <1>10, <1>11, WatchedOn, UntouchedEmpties DEF EmptiesTell
<1>14. RowsTold'
  <2> SUFFICES ASSUME NEW t \in Recs PROVE RowTells(t)'
    BY DEF RowsTold
  <2>1. RowTells(t)
    BY <1>1 DEF RowsTold
  <2>2. Pending({"enter", "closeRow"}, t) => Pending({"enter", "closeRow"}, t)'
    BY <1>1, <1>2, PendingOn
  <2>3. allowed["storeFault"] = 0 /\ row[t] = "open" /\ t \in old => Pending({"recover"}, t)'
    <3> SUFFICES ASSUME allowed["storeFault"] = 0, row[t] = "open", t \in old
                 PROVE  Pending({"recover"}, t)'
      OBVIOUS
    <3>1. PICK i \in DOMAIN q : q[i].op = "recover" /\ q[i].s = t
      BY <1>6 DEF LastProcess
    <3> QED
      BY <1>1, <1>2, <3>1, PendingNew
  <2>4. Unended(t)' <=> Unended(t)
    BY <1>3 DEF Unended
  <2> QED
    BY <1>3, <1>6, <2>1, <2>2, <2>3, <2>4 DEF RowTells, NoStoreFaults
<1>15. \A t \in Recs : HasConn(t)' => HasConn(t) /\ (Runs(t)' <=> Runs(t))
  BY <1>1, <1>2, <1>4, <1>9, PendingBack DEF HasConn, Kept
<1>16. /\ OnceRelogin' /\ OwedTells' /\ RunningTells' /\ OwnConn' /\ ConnsTell'
       /\ RecordersInv'
  BY <1>1, <1>2, <1>3, <1>4, <1>15, Ordinary
<1>17. \A g \in Goroutines : \A i \in DOMAIN run[g] : run[g][i].op # "recover"
  BY <1>1, <1>2, Queues DEF PlacesTell, PlaceTells, Recovers
<1>18. Once(Holding)' /\ Once({"closeRow"})' /\ Once({"recover"})'
  BY SMTT(30), <1>1, <1>2, <1>4, <1>17, OnceMoved DEF Holding, Closing
<1>19. LeavesTell'
  BY <1>1, <1>2, <1>3, <1>4, LeavesMoved DEF Runs
<1>20. PlacesTell'
  <2>1. \A i \in DOMAIN q : PlaceTells(w, i)'
    BY <1>2, <1>4 DEF Moved, PlaceTells
  <2>2. Len(run[w]) <= 1
    BY <1>2
  <2> QED
    BY <1>1, <1>2, <2>1, <2>2, PlacesFresh
<1> QED
  BY <1>8, <1>12, <1>13, <1>14, <1>16, <1>18, <1>19, <1>20, Together

LEMMA ListKeeps ==
  ASSUME RecordingInv, List
  PROVE  RecordingInv'
<1>1. /\ At(Recovery, "list") /\ snap' = [snap EXCEPT ![Recovery] = NoSnap]
      /\ UNCHANGED <<recordersVars, world, runtime, adapter, kept>>
  BY DEF List
<1>2. LastProcess \subseteq Recs
  BY DEF LastProcess, RecordingInv, TypeOK
<1>3. CASE Goes(Recovery, <<>>) /\ Spend("storeFault")
  BY <1>1, <1>3, NoMore, ListNext DEF ListAs
<1>4. CASE /\ UNCHANGED allowed
           /\ \E p \in SetToSeqs(LastProcess) :
                Goes(Recovery, [i \in DOMAIN p |-> Do("recover", p[i])])
  <2>1. PICK p \in SetToSeqs(LastProcess) :
               Goes(Recovery, [i \in DOMAIN p |-> Do("recover", p[i])])
    BY <1>4
  <2>2. PICK q : q = [i \in DOMAIN p |-> Do("recover", p[i])]
    OBVIOUS
  <2>3. /\ ListAs(q, LastProcess)
        /\ \A s \in LastProcess : \E i \in DOMAIN q : q[i].op = "recover" /\ q[i].s = s
    BY <1>2, <2>2, ListItems
  <2>4. Goes(Recovery, q)
    BY <2>1, <2>2
  <2> QED
    BY <1>1, <1>4, <2>3, <2>4, ListNext
<1> QED
  BY <1>3, <1>4 DEF List

-----------------------------------------------------------------------------
(* The first process starts with nothing ...                               *)
LEMMA FirstProcess ==
  ASSUME Init
  PROVE  RecordingInv
<1>1. /\ at = [r \in Recorders |-> [chan |-> Out, login |-> 0]]
      /\ seen = [r \in Recorders |-> Out] /\ human = Channels /\ check = FALSE
      /\ running = [r \in Recorders |-> NoRec]
      /\ rec = [s \in Recs |-> Blank] /\ shutdown = FALSE
      /\ conn = [s \in Recs |-> "none"] /\ ear = [s \in Recs |-> "off"] /\ armed = {}
      /\ row = [s \in Recs |-> "none"] /\ notice = [s \in Recs |-> "none"]
      /\ used = 0 /\ old = {} /\ allowed \in Allowances
      /\ run = [g \in Goroutines |-> <<>>] /\ snap = [g \in Goroutines |-> NoSnap]
  BY DEF Init
<1>2. RecordersInv /\ owed = {}
  BY InitInv DEF Init, RecordersInit
<1>3. TypeOK
  BY <1>1, <1>2, RecordingAssumption, NoMore DEF RecordersInv, Place, Active, Blank,
     NoSnap, Snapshot, TypeOK
<1>4. \A g \in Goroutines : DOMAIN run[g] = {}
  BY <1>1
<1>5. \A s \in Recs : /\ ~rec[s].entered /\ ~rec[s].stopping /\ rec[s].ended = "no"
                      /\ rec[s].recorder = NoRecorder /\ conn[s] = "none" /\ row[s] = "none"
  BY <1>1 DEF Blank
<1>6. /\ ItemsTell /\ PlacesTell /\ LeavesTell /\ OnceRelogin
      /\ Once(Holding) /\ Once({"closeRow"}) /\ Once({"recover"})
  BY <1>4 DEF ItemsTell, PlacesTell, LeavesTell, OnceRelogin, Once
<1>7. \A s \in Recs : ~HasConn(s) /\ ~Runs(s)
  BY <1>4, <1>5 DEF HasConn, Pending, Runner, Runs
<1>8. RecsTell
  BY <1>1, <1>5, <1>7 DEF RecsTell, RecTells, Unended
<1>9. ConnsTell /\ OwnConn /\ EmptiesTell
  BY <1>5, <1>7 DEF ConnsTell, ConnTells, OwnConn, EmptiesTell, EmptyTells, Live
<1>10. RowsTold
  BY <1>1, <1>5 DEF RowsTold, RowTells, NoStoreFaults
<1>11. RunningTells /\ OwedTells
  BY <1>1, <1>2 DEF RunningTells, OwedTells
<1> QED
  BY <1>2, <1>3, <1>6, <1>8, <1>9, <1>10, <1>11 DEF RecordingInv

(* ... and a later one with what Discord and the store still hold.         *)
LEMMA RestartKeeps ==
  ASSUME RecordingInv, Restart
  PROVE  RecordingInv'
<1>1. /\ TypeOK /\ RecordersInv /\ RecsTell /\ RowsTold
  BY DEF RecordingInv
<1>2. /\ seen' = [r \in Recorders |-> at[r].chan] /\ check' = FALSE
      /\ running' = [r \in Recorders |-> NoRec]
      /\ rec' = [s \in Recs |-> Blank] /\ shutdown' = FALSE
      /\ conn' = [s \in Recs |-> "none"] /\ ear' = [s \in Recs |-> "off"] /\ armed' = {}
      /\ old' = Recs \cap (1 .. used)
      /\ snap' = [g \in Goroutines |-> NoSnap]
      /\ UNCHANGED <<at, human, row, notice, used>>
  BY DEF Restart
<1>3. PICK x : x = Do("look", 0)
  OBVIOUS
<1>4. x \in Item /\ x.op = "look"
  BY <1>3, ItemOf DEF Recovers
<1>5. /\ run' \in [Goroutines -> Seq(Item)] /\ Recovery \in Goroutines
      /\ run'[Recovery] = <<x>> /\ \A g \in Goroutines : g # Recovery => run'[g] = <<>>
  BY <1>3, <1>4, NoMore, OneItem DEF Restart, Goroutines
<1>6. \A g \in Goroutines : \A i \in DOMAIN run'[g] :
        g = Recovery /\ i = 1 /\ run'[g][i] = x /\ Len(run'[g]) = 1
  BY ZenonT(30), <1>4, <1>5, NoMore, OneItem
<1>7. 1 \in DOMAIN run'[Recovery] /\ run'[Recovery][1] = x
  BY <1>4, <1>5, OneItem
<1>8. RecordersInv' /\ owed' = {}
  BY <1>1, StepInv DEF Restart, RecordersNext, Reconnected
<1>9. /\ allowed' \in [Kinds -> Nat]
      /\ allowed["storeFault"] = 0 => allowed'["storeFault"] = 0
  BY <1>1, SpendKeeps DEF Restart, Kinds
<1>10. TypeOK'
  BY <1>1, <1>2, <1>5, <1>8, <1>9, RecordingAssumption DEF RecordersInv, TypeOK, Place,
     Active, Blank, NoSnap, Snapshot
<1>11. \A s \in Recs : /\ ~rec'[s].entered /\ ~rec'[s].stopping /\ rec'[s].ended = "no"
                       /\ rec'[s].recorder = NoRecorder /\ conn'[s] = "none"
  BY <1>2 DEF Blank
<1>12. /\ ItemsTell' /\ PlacesTell' /\ LeavesTell' /\ OnceRelogin'
       /\ Once(Holding)' /\ Once({"closeRow"})' /\ Once({"recover"})'
  BY <1>4, <1>6 DEF ItemsTell, ItemTells, Opening, Closing, PlacesTell, PlaceTells,
     LeavesTell, LeaveTells, OnceRelogin, Once
<1>13. \A s \in Recs : ~HasConn(s)' /\ ~Runs(s)'
  BY <1>4, <1>6, <1>11 DEF Pending, Runner, HasConn, Runs
<1>14. RecsTell'
  BY <1>1, <1>2, <1>11, <1>13 DEF RecsTell, TypeOK, RecTells, Unended
<1>15. ConnsTell' /\ OwnConn' /\ EmptiesTell'
  BY <1>11, <1>13 DEF ConnsTell, ConnTells, OwnConn, EmptiesTell, EmptyTells, Live
<1>16. RowsTold'
  BY <1>1, <1>2, <1>4, <1>5, <1>7, <1>9, RecordingAssumption DEF RowsTold, RecsTell,
     TypeOK, RecTells, Listing, RowTells, NoStoreFaults
<1>17. RunningTells' /\ OwedTells'
  BY <1>2, <1>8 DEF RunningTells, OwedTells
<1> QED
  BY <1>8, <1>10, <1>12, <1>14, <1>15, <1>16, <1>17, Together

-----------------------------------------------------------------------------
(* Every step keeps the invariant.                                         *)
LEMMA SectionKeeps ==
  ASSUME RecordingInv, NEW g \in Goroutines, Section(g)
  PROVE  RecordingInv'
<1>1. CASE Join(g) \/ Joined(g) \/ Notice(g) \/ Row(g) \/ Receive(g) \/ Enter(g)
  BY <1>1, JoinKeeps, JoinedKeeps, NoticeKeeps, RowKeeps, ReceiveKeeps, EnterKeeps
<1>2. CASE Check(g) \/ Judge(g)
  BY <1>2, CheckKeeps, JudgeKeeps
<1>3. CASE Capture(g) \/ Leave(g) \/ CloseRow(g) \/ Release(g) \/ ReleaseLate(g)
  BY <1>3, CaptureKeeps, LeaveKeeps, CloseRowKeeps, ReleaseKeeps, ReleaseLateKeeps
<1>4. CASE CallRelogin(g) \/ EditNotice(g) \/ GapLimit(g)
  BY <1>4, CallReloginKeeps, EditNoticeKeeps, GapLimitKeeps
<1> QED
  BY <1>1, <1>2, <1>3, <1>4 DEF Section

LEMMA NothingKeeps ==
  ASSUME RecordingInv, UNCHANGED vars
  PROVE  RecordingInv'
<1>1. UNCHANGED <<recordersVars, at, seen, human, check, running, rec, shutdown, conn, ear,
                  armed, row, notice, used, old, run, snap, allowed>>
  BY DEF vars, world, runtime, adapter, kept, work
<1>2. RecordersInv'
  BY <1>1, StepInv DEF RecordingInv
<1>3. TypeOK'
  BY <1>1, <1>2 DEF RecordingInv, TypeOK, RecordersInv
<1>4. \A s : Runs(s)' = Runs(s) /\ Unended(s)' = Unended(s)
  BY <1>1 DEF Runs, Unended
<1>5. \A ops, s : Pending(ops, s)' = Pending(ops, s)
  BY ZenonT(30), <1>1 DEF Pending, Runner
<1>6. ItemsTell'
  BY <1>1, <1>4, Queues DEF ItemTells, recordersVars, RecordingInv, ItemsTell
<1>7. PlacesTell' /\ LeavesTell'
  BY <1>1, <1>4 DEF RecordingInv, PlacesTell, PlaceTells, LeavesTell, LeaveTells
<1>8. /\ Once(Holding)' /\ Once({"closeRow"})' /\ Once({"recover"})' /\ OnceRelogin'
  BY <1>1 DEF RecordingInv, Once, OnceRelogin
<1>9. RecsTell' /\ RunningTells' /\ OwedTells'
  BY <1>1, <1>4, <1>5 DEF RecordingInv, RecsTell, RecTells, RunningTells, OwedTells,
     recordersVars
<1>10. ConnsTell' /\ OwnConn'
  BY <1>1, <1>4, <1>5 DEF HasConn, RecordingInv, ConnsTell, ConnTells, OwnConn,
     recordersVars
<1>11. EmptiesTell' /\ RowsTold'
  BY <1>1, <1>4, <1>5 DEF Watched, RecordingInv, EmptiesTell, EmptyTells, Live, Listing,
     RowsTold, RowTells, NoStoreFaults
<1> QED
  BY <1>2, <1>3, <1>6, <1>7, <1>8, <1>9, <1>10, <1>11, Together

LEMMA StepKeeps ==
  ASSUME RecordingInv, [Next]_vars
  PROVE  RecordingInv'
<1>1. CASE \E c \in Channels : People(c)
  BY <1>1, PeopleKeeps
<1>2. CASE \E r \in Recorders : Kick(r) \/ DropOut(r) \/ CacheSees(r)
  BY <1>2, PlacesOfRecorders
<1>3. CASE \E s \in Recs : \/ OwnLeave(s) \/ OwnRejoin(s) \/ GraceEnds(s)
                           \/ GapStarted(s) \/ GapEnded(s) \/ LateLeave(s)
  BY <1>3, AdapterAlone, LateLeaveKeeps
<1>4. CASE Accounts
  BY <1>4, AccountsKeep
<1>5. CASE \E w \in Workers : \/ \E c \in Channels : Start(w, c)
                              \/ CheckEvent(w)
                              \/ \E s \in Recs : Stop(w, s)
                              \/ \E a \in armed : LimitFires(w, a)
  BY <1>5, StartsKeep, CheckEventKeeps, StopKeeps, LimitFiresKeeps DEF Goroutines
<1>6. CASE \E g \in Goroutines : Section(g)
  BY <1>6, SectionKeeps
<1>7. CASE RecoveryStep
  BY <1>7, LookKeeps, LookAtRecorderKeeps, KickIdleKeeps, ListKeeps, RecoverKeeps
     DEF RecoveryStep
<1>8. CASE Shutdown \/ Restart
  BY <1>8, ShutdownKeeps, RestartKeeps
<1>9. CASE UNCHANGED vars
  BY <1>9, NothingKeeps
<1> QED
  BY <1>1, <1>2, <1>3, <1>4, <1>5, <1>6, <1>7, <1>8, <1>9 DEF Next

-----------------------------------------------------------------------------
(* What the invariant says of the properties.                              *)
LEMMA OneEach ==
  ASSUME RecordingInv
  PROVE  OneConnection
BY DEF RecordingInv, OwnConn, HasConn, OneConnection

LEMMA BusyFor ==
  ASSUME RecordingInv
  PROVE  BusyAccounted
<1> SUFFICES ASSUME NEW s \in Recs
             PROVE  Runs(s) <=> \/ Starting(s) \/ Pending({"release", "releaseLate"}, s)
                                \/ Live(s)
                                \/ shutdown /\ rec[s].entered /\ rec[s].ended = "no"
  BY DEF BusyAccounted
<1>1. RecTells(s) /\ ItemsTell
  BY DEF RecordingInv, RecsTell
<1>2. Pending(Holding, s) => Starting(s) \/ Pending({"release", "releaseLate"}, s)
  BY DEF Holding, Closing, Pending, Runner, Starting
<1>3. Starting(s) \/ Pending({"release", "releaseLate"}, s) => Runs(s)
  BY <1>1 DEF Starting, Pending, Runner, ItemsTell, ItemTells, Opening, Closing
<1>4. Unended(s) => Live(s) \/ (shutdown /\ rec[s].entered /\ rec[s].ended = "no")
  BY <1>1 DEF RecTells, Unended, Live
<1>5. Live(s) \/ (rec[s].entered /\ rec[s].ended = "no") => Runs(s)
  BY <1>1 DEF RecTells, Unended, Live
<1> QED
  BY <1>1, <1>2, <1>3, <1>4, <1>5 DEF RecTells

LEMMA ReloginsOwed ==
  ASSUME RecordingInv
  PROVE  OwedCalled
  BY DEF RecordingInv, Pending, Runner, ItemsTell, ItemTells, OwedTells, OwedCalled

(* With nobody at work nothing waits.                                      *)
LEMMA AtRest ==
  ASSUME Quiet
  PROVE  /\ \A ops, s : ~Pending(ops, s)
         /\ ~Listing /\ \A c : ~Watched(c)
  BY DEF Quiet, Idle, Pending, Runner, Listing, Watched

LEMMA EmptyOnes ==
  ASSUME RecordingInv
  PROVE  EmptyStops
  BY AtRest DEF EmptyStops, RecordingInv, EmptiesTell, EmptyTells

LEMMA RowsAtRest ==
  ASSUME RecordingInv, NoStoreFaults
  PROVE  RowsTell
  BY AtRest DEF RowsTell, RecordingInv, RecsTell, RowsTold, RecTells, RowTells, Unended

(* What a step may do to the row of recording s.                           *)
EndsOnce(s) ==
  /\ row[s] \in Ends => row'[s] = row[s]
  /\ row'[s] \in Ends /\ row'[s] # row[s]
     => row'[s] = IF s \in old THEN "restart" ELSE rec[s].ended

LEMMA RowsStep ==
  ASSUME RecordingInv, Next, ~UNCHANGED row
  PROVE  \/ \E g \in Goroutines : Row(g) \/ CloseRow(g)
         \/ Recover
<1>1. ASSUME NEW g \in Goroutines, Section(g) PROVE Row(g) \/ CloseRow(g)
  BY Zenon, <1>1 DEF Section, Join, Joined, Notice, Receive, Enter, Check, Judge, Capture, Leave,
              Release, ReleaseLate, CallRelogin, EditNotice, GapLimit, kept
<1>2. ~\E c \in Channels : People(c)
  BY DEF People, kept
<1>3. ~\E r \in Recorders : Kick(r) \/ DropOut(r) \/ CacheSees(r)
  BY DEF Kick, DropOut, CacheSees, kept
<1>4. ~\E s \in Recs : \/ OwnLeave(s) \/ OwnRejoin(s) \/ GraceEnds(s)
                       \/ GapStarted(s) \/ GapEnded(s) \/ LateLeave(s)
  BY DEF OwnLeave, OwnRejoin, GraceEnds, GapStarted, GapEnded, LateLeave, kept
<1>5. ~Accounts /\ ~Shutdown /\ ~Restart
  BY DEF Accounts, Shutdown, Restart, kept
<1>6. ~\E w \in Workers : \/ \E c \in Channels : Start(w, c)
                          \/ CheckEvent(w)
                          \/ \E s \in Recs : Stop(w, s)
                          \/ \E a \in armed : LimitFires(w, a)
  BY DEF Start, CheckEvent, Stop, LimitFires, kept
<1>7. RecoveryStep => Recover
  BY DEF RecoveryStep, Look, LookAtRecorder, KickIdle, List, kept
<1> QED
  BY Zenon, <1>1, <1>2, <1>3, <1>4, <1>5, <1>6, <1>7 DEF Next

LEMMA EndsOnceOnly ==
  ASSUME RecordingInv, [Next]_vars, NEW s \in Recs
  PROVE  EndsOnce(s)
<1>1. TypeOK /\ RecTells(s) /\ Recovery \in Goroutines
  BY DEF RecordingInv, RecsTell, Goroutines
<1>2. CASE UNCHANGED row
  BY <1>2 DEF EndsOnce
<1>3. CASE \E g \in Goroutines : Row(g)
  BY <1>1, <1>3, StartOf DEF Row, EndsOnce, TypeOK, Ends
<1>4. CASE \E g \in Goroutines : CloseRow(g)
  <2>1. PICK g \in Goroutines : CloseRow(g)
    BY <1>4
  <2>2. PICK t : t = Rec(g)
    OBVIOUS
  <2>3. /\ run[g][1].op = "closeRow" /\ ItemTells(run[g][1]) /\ run[g][1].s = t
    BY <2>1, <2>2, AtHead DEF CloseRow
  <2>4. t \in Recs /\ row[t] = "open" /\ rec[t].ended \in Ends
    BY <2>3 DEF ItemTells
  <2>5. t \notin old
    BY <2>4 DEF RecordingInv, RecsTell, RecTells, Ends
  <2>6. row' \in {row, [row EXCEPT ![t] = rec[t].ended]}
    BY ZenonT(30), <2>1, <2>2 DEF CloseRow
  <2> QED
    BY <1>1, <2>4, <2>5, <2>6 DEF EndsOnce, TypeOK, Ends
<1>5. CASE Recover
  BY <1>1, <1>5, AtHead DEF Recover, ItemTells, EndsOnce, TypeOK, Ends
<1>6. UNCHANGED row \/ Next
  BY DEF vars, kept
<1> QED
  BY <1>2, <1>3, <1>4, <1>5, <1>6, RowsStep

(* The runtime implements the recorder accounts (TakeOffline, relogin).    *)
THEOREM RuntimeUsesAccounts == Spec => RecordersSpec
<1>1. Init => RecordersInit
  BY DEF Init
<1>2. RecordersInv /\ [Next]_vars => RecordersInv' /\ [RecordersNext]_recordersVars
  BY RuntimeSteps, StepInv
<1> QED
  BY <1>1, <1>2, InitInv, PTL DEF Spec, RecordersSpec

(* No recorder that a stop or a gap takes offline is ever stranded, in the *)
(* whole runtime (releaseAfterLeave, gapLimitReached, cutShort).           *)
THEOREM RuntimeWayBack == Spec => []WayBack
BY RuntimeUsesAccounts, OneWayBack, PTL

(* No login is forgotten or used again while it ends, in the whole runtime.*)
THEOREM RuntimeLogins == Spec => []LoginsHeld
BY RuntimeUsesAccounts, NoLoginForgotten, PTL

(* Whatever the runtime does, a recorder that is out stays out until a     *)
(* restart.                                                                *)
THEOREM RuntimeOutStaysOut == Spec => OutForGood
BY RuntimeUsesAccounts, OutStaysOut, PTL

-----------------------------------------------------------------------------
(* Every state of the runtime satisfies the invariant: every item that     *)
(* waits finds its recording where the code expects it.                    *)
THEOREM RecordingsInOrder == Spec => []RecordingInv
BY FirstProcess, StepKeeps, PTL DEF Spec

(* Every state is well typed: no queue, row, connection or count is ever   *)
(* outside what the runtime, Discord and the store can hold.               *)
THEOREM RecordingTypes == Spec => []TypeOK
<1>1. RecordingInv => TypeOK
  BY DEF RecordingInv
<1> QED
  BY <1>1, RecordingsInOrder, PTL

(* What a stop may never do (recording_stops.go, recording_gap.go): no two *)
(* recordings have a connection through one login, a recorder is busy      *)
(* exactly while somebody will free it, every relogin owed is called once, *)
(* no recording outlives its channel's humans, and an ended row stays.     *)
THEOREM StopsAreRight == Spec => StopsRight
<1>1. RecordingInv => OneConnection /\ BusyAccounted /\ OwedCalled /\ EmptyStops
  BY OneEach, BusyFor, ReloginsOwed, EmptyOnes
<1>2. RecordingInv /\ [Next]_vars
      => \A s \in Recs :
           /\ row[s] \in Ends => row'[s] = row[s]
           /\ row'[s] \in Ends /\ row'[s] # row[s]
              => row'[s] = IF s \in old THEN "restart" ELSE rec[s].ended
  BY EndsOnceOnly DEF EndsOnce
<1>3. Spec => EndedOnce
  BY <1>2, RecordingsInOrder, PTL DEF Spec, EndedOnce
<1> QED
  BY <1>1, <1>3, RecordingsInOrder, PTL DEF StopsRight

(* With a store that answers, the open rows are those of the recordings    *)
(* that are live, or that a shutdown left for the next process, whenever   *)
(* everything has settled: the panel and the deploy gate see what runs.    *)
THEOREM RowsAreRight ==
  ASSUME NoStoreFaults
  PROVE  Spec => []RowsTell
<1>1. RecordingInv => RowsTell
  BY RowsAtRest
<1> QED
  BY <1>1, RecordingsInOrder, PTL
=============================================================================
