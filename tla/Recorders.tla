------------------------------ MODULE Recorders ------------------------------
(***************************************************************************)
(* The recorder accounts of voice/recorders.go: each is online, offline or *)
(* out, with at most one login in use.  A recorder taken offline logs out  *)
(* of its login and back in by itself, on a goroutine of its own, once its *)
(* taker calls the relogin it was given.  A token Discord refuses puts its *)
(* recorder out until a restart.  Shutdown logs every login out.           *)
(*                                                                         *)
(* One action is one critical section of Recorders.mu, or one login or     *)
(* logout call.  Waits between logins, log lines and Sentry events are     *)
(* left out; where Discord has a recorder is in module Recording.          *)
(***************************************************************************)
EXTENDS Naturals, FiniteSets

CONSTANTS Recorders    \* recorders that have a user ID, in configured order

ASSUME RecordersAssumption == Recorders \subseteq Nat /\ IsFiniteSet(Recorders)

VARIABLES
  valid,     \* the recorders whose token Discord accepts
  state,     \* recorder.state
  session,   \* recorder.session: the number of its login, NoLogin for nil
  logins,    \* how many logins each recorder has had, failed ones left out
  up,        \* the logins, <<recorder, number>>, that are not logged out
  ending,    \* those of them a logout of its own goroutine is ending
  owed,      \* recorders taken offline whose relogin is yet to be called
  task,      \* where the recorder's login goroutine is: "none" for none
  held,      \* the login that goroutine has in hand
  closed     \* shutdown has come

recordersVars == <<valid, state, session, logins, up, ending, owed, task, held,
                   closed>>

NoLogin == 0
States  == {"online", "offline", "out"}

(* logBackIn at its start; logging out the old login; waiting to try;      *)
(* logging in; logged in, before the lock; logging out what shutdown beat. *)
Tasks == {"none", "logBackIn", "logOut", "wait", "open", "opened", "close"}

RecordersTypeOK ==
  /\ valid \subseteq Recorders
  /\ state \in [Recorders -> States]
  /\ session \in [Recorders -> Nat] /\ logins \in [Recorders -> Nat]
  /\ up \subseteq Recorders \X Nat /\ ending \subseteq Recorders \X Nat
  /\ owed \subseteq Recorders
  /\ task \in [Recorders -> Tasks] /\ held \in [Recorders -> Nat]
  /\ closed \in BOOLEAN

----------------------------------------------------------------------------
(* Connect: a first login that went through leaves its recorder online.    *)
(* One that failed leaves it offline with a login goroutine waiting, or    *)
(* out when its user ID could not be read either.                          *)
FirstState(firstUp, known) ==
  [r \in Recorders |-> IF r \in firstUp THEN "online"
                       ELSE IF r \in known THEN "offline" ELSE "out"]
FirstTask(firstUp, known) ==
  [r \in Recorders |-> IF r \in known \ firstUp THEN "wait" ELSE "none"]

RecordersInit ==
  \E known \in SUBSET Recorders : \E firstUp \in SUBSET known :
    /\ valid = Recorders
    /\ state = FirstState(firstUp, known)
    /\ session = [r \in Recorders |-> IF r \in firstUp THEN 1 ELSE NoLogin]
    /\ logins = session
    /\ up = {<<r, 1>> : r \in firstUp}
    /\ ending = {} /\ owed = {}
    /\ task = FirstTask(firstUp, known)
    /\ held = [r \in Recorders |-> NoLogin]
    /\ closed = FALSE

(* The process starts again, and its Connect with it: the logins of the    *)
(* last process are over.                                                  *)
Reconnected ==
  \E known \in SUBSET valid : \E firstUp \in SUBSET known :
    /\ state' = FirstState(firstUp, known)
    /\ session' = [r \in Recorders |-> IF r \in firstUp THEN logins[r] + 1
                                       ELSE NoLogin]
    /\ logins' = [r \in Recorders |-> IF r \in firstUp THEN logins[r] + 1
                                      ELSE logins[r]]
    /\ up' = {<<r, logins[r] + 1>> : r \in firstUp}
    /\ ending' = {} /\ owed' = {}
    /\ task' = FirstTask(firstUp, known)
    /\ held' = [r \in Recorders |-> NoLogin]
    /\ closed' = FALSE
    /\ valid' = valid

(* The token is reset in the Developer Portal.                             *)
TokenReset(r) ==
  /\ r \in valid /\ valid' = valid \ {r}
  /\ UNCHANGED <<state, session, logins, up, ending, owed, task, held, closed>>

(* onTokenRefused, from any login of the recorder that came up.  The login *)
(* stays its session.                                                      *)
TokenRefused(r) ==
  /\ r \notin valid /\ state[r] # "out"
  /\ \E l \in up : l[1] = r
  /\ state' = [state EXCEPT ![r] = "out"]
  /\ UNCHANGED <<valid, session, logins, up, ending, owed, task, held, closed>>

----------------------------------------------------------------------------
(* TakeOffline, inside a caller's step: owed only when it was online.      *)
TakeOffline(r) ==
  IF r \in Recorders /\ state[r] = "online"
  THEN state' = [state EXCEPT ![r] = "offline"] /\ owed' = owed \cup {r}
  ELSE UNCHANGED <<state, owed>>

(* The relogin it gave, called: the first call alone does anything.        *)
Relogin(r) ==
  IF r \in owed
  THEN owed' = owed \ {r} /\ task' = [task EXCEPT ![r] = "logBackIn"]
  ELSE UNCHANGED <<owed, task>>

TakenOffline(r) ==
  TakeOffline(r)
  /\ UNCHANGED <<valid, session, logins, up, ending, task, held, closed>>
ReloginCalled(r) ==
  Relogin(r)
  /\ UNCHANGED <<valid, state, session, logins, up, ending, held, closed>>

(* Wrong on purpose, to test LoginsHeld: the old login stays its session.  *)
LogBackInKeeping(r) ==
  /\ task[r] = "logBackIn"
  /\ held' = [held EXCEPT ![r] = session[r]]
  /\ task' = [task EXCEPT ![r] = IF session[r] = NoLogin THEN "wait" ELSE "logOut"]
  /\ UNCHANGED <<valid, state, session, logins, up, ending, owed, closed>>

(* logBackIn takes the old login, unless shutdown has already.             *)
LogBackIn(r) ==
  /\ task[r] = "logBackIn"
  /\ held' = [held EXCEPT ![r] = session[r]]
  /\ session' = [session EXCEPT ![r] = NoLogin]
  /\ task' = [task EXCEPT ![r] = IF session[r] = NoLogin THEN "wait" ELSE "logOut"]
  /\ UNCHANGED <<valid, state, logins, up, ending, owed, closed>>

(* Wrong on purpose, to test WayBack: logged out, and never in again.      *)
AfterLogOutOver(r) == "none"

(* After its logout the goroutine logs in again, or is over.               *)
AfterLogOut(r) == IF task[r] = "logOut" THEN "wait" ELSE "none"

LogOut(r) ==
  /\ task[r] \in {"logOut", "close"}
  /\ up' = up \ {<<r, held[r]>>}
  /\ task' = [task EXCEPT ![r] = AfterLogOut(r)]
  /\ held' = [held EXCEPT ![r] = NoLogin]
  /\ UNCHANGED <<valid, state, session, logins, ending, owed, closed>>

(* A logout that runs past logoutTimeout is left to its own goroutine.     *)
LogOutTimesOut(r) ==
  /\ task[r] \in {"logOut", "close"}
  /\ ending' = ending \cup {<<r, held[r]>>}
  /\ task' = [task EXCEPT ![r] = AfterLogOut(r)]
  /\ held' = [held EXCEPT ![r] = NoLogin]
  /\ UNCHANGED <<valid, state, session, logins, up, owed, closed>>

LogOutEnds(l) ==
  /\ l \in ending
  /\ ending' = ending \ {l} /\ up' = up \ {l}
  /\ UNCHANGED <<valid, state, session, logins, owed, task, held, closed>>

(* logIn: the wait is over.  No login follows a shutdown, or a refusal.    *)
Attempt(r) ==
  /\ task[r] = "wait"
  /\ task' = [task EXCEPT ![r] =
                IF closed \/ state[r] = "out" THEN "none" ELSE "open"]
  /\ UNCHANGED <<valid, state, session, logins, up, ending, owed, held, closed>>

Open(r) ==
  /\ task[r] = "open" /\ r \in valid
  /\ logins' = [logins EXCEPT ![r] = @ + 1]
  /\ up' = up \cup {<<r, logins[r] + 1>>}
  /\ held' = [held EXCEPT ![r] = logins[r] + 1]
  /\ task' = [task EXCEPT ![r] = "opened"]
  /\ UNCHANGED <<valid, state, session, ending, owed, closed>>

(* Wrong on purpose, to test RecordingsSettle: a failed login is not tried *)
(* again.                                                                  *)
OpenFailsOnce(r) ==
  /\ task[r] = "open"
  /\ task' = [task EXCEPT ![r] = "none"]
  /\ UNCHANGED <<valid, state, session, logins, up, ending, owed, held, closed>>

OpenFails(r) ==
  /\ task[r] = "open"
  /\ task' = [task EXCEPT ![r] = "wait"]
  /\ UNCHANGED <<valid, state, session, logins, up, ending, owed, held, closed>>

OpenRefused(r) ==
  /\ task[r] = "open" /\ r \notin valid
  /\ state' = [state EXCEPT ![r] = "out"]
  /\ task' = [task EXCEPT ![r] = "none"]
  /\ UNCHANGED <<valid, session, logins, up, ending, owed, held, closed>>

(* Wrong on purpose, to test OutForGood: a refusal meanwhile is forgotten. *)
LoggedInAlways(r) ==
  /\ task[r] = "opened"
  /\ session' = [session EXCEPT ![r] = held[r]]
  /\ state' = [state EXCEPT ![r] = "online"]
  /\ task' = [task EXCEPT ![r] = "none"]
  /\ held' = [held EXCEPT ![r] = NoLogin]
  /\ UNCHANGED <<valid, logins, up, ending, owed, closed>>

(* The login is the recorder's, and the recorder online unless it went out *)
(* in between; one that went through after shutdown is logged out again.   *)
LoggedIn(r) ==
  /\ task[r] = "opened"
  /\ IF closed
     THEN task' = [task EXCEPT ![r] = "close"] /\ UNCHANGED <<state, session, held>>
     ELSE /\ session' = [session EXCEPT ![r] = held[r]]
          /\ state' = [state EXCEPT ![r] = IF @ = "out" THEN "out" ELSE "online"]
          /\ task' = [task EXCEPT ![r] = "none"]
          /\ held' = [held EXCEPT ![r] = NoLogin]
  /\ UNCHANGED <<valid, logins, up, ending, owed, closed>>

(* Close: every login that is some recorder's session is logged out.       *)
Close ==
  /\ ~closed /\ closed' = TRUE
  /\ ending' = ending \cup {<<r, session[r]>> : r \in {q \in Recorders :
                                                         session[q] # NoLogin}}
  /\ session' = [r \in Recorders |-> NoLogin]
  /\ UNCHANGED <<valid, state, logins, up, owed, task, held>>

----------------------------------------------------------------------------
LoginStep(r) ==
  \/ LogBackIn(r) \/ LogOut(r) \/ LogOutTimesOut(r) \/ Attempt(r)
  \/ Open(r) \/ OpenFails(r) \/ OpenRefused(r) \/ LoggedIn(r)

RecordersNext ==
  \/ \E r \in Recorders :
       \/ TokenReset(r) \/ TokenRefused(r)
       \/ TakenOffline(r) \/ ReloginCalled(r)
       \/ LoginStep(r)
  \/ \E l \in ending : LogOutEnds(l)
  \/ Close
  \/ Reconnected

RecordersSpec == RecordersInit /\ [][RecordersNext]_recordersVars

----------------------------------------------------------------------------
(* Properties                                                              *)

(* An offline recorder has exactly one way back: the relogin its taker has *)
(* still to call, or one login goroutine.  With none it would stay offline *)
(* until a restart, with two it would log in twice.  An online one has     *)
(* neither, and until shutdown its login.                                  *)
WayBack ==
  \A r \in Recorders :
    /\ r \in owed => task[r] = "none"
    /\ state[r] = "online" => task[r] = "none" /\ r \notin owed
    /\ ~closed /\ state[r] = "online" => session[r] # NoLogin
    /\ ~closed /\ state[r] = "offline" => r \in owed \/ task[r] # "none"

(* Every login that is up is its recorder's session, or in the hands of    *)
(* the login goroutine, or being logged out, and only one of these: none   *)
(* is forgotten, so after a shutdown none stays, and a login being logged  *)
(* out is never used again.                                                *)
InHand(r)  == IF task[r] \in {"logOut", "opened", "close"} THEN {held[r]} ELSE {}
InUse(r)   == IF session[r] = NoLogin THEN {} ELSE {session[r]}
Leaving(r) == {l[2] : l \in {k \in ending : k[1] = r}}
LoginsHeld ==
  \A r \in Recorders :
    /\ \A l \in up : l[1] = r => l[2] \in InUse(r) \cup InHand(r) \cup Leaving(r)
    /\ InUse(r) \cap InHand(r) = {}
    /\ Leaving(r) \cap (InUse(r) \cup InHand(r)) = {}

(* Out is for good: whatever a login or a relogin under way does then, the *)
(* recorder never comes back before a restart (goOutLocked,                *)
(* loggedInLocked).                                                        *)
OutForGood ==
  [][\A r \in Recorders : state[r] = "out" => state'[r] = "out" \/ Reconnected
    ]_recordersVars
=============================================================================
