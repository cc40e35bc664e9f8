---------------------------- MODULE PanelSessions ----------------------------
(***************************************************************************)
(* The panel's sign-ins and sessions (panel/session.go, panel.go): the     *)
(* pending sign-ins between the forum and the callback, the sessions, and  *)
(* the requests that run at once on one session, each of which reads it,   *)
(* waits for the forum's group check, and writes back.                     *)
(*                                                                         *)
(* IDs are handed out in order: the code draws them at random, 128 bits.   *)
(* The forum's answers come from outside and take any time.                *)
(***************************************************************************)
EXTENDS Naturals, Sequences

CONSTANTS
  Requests,                          \* requests in flight
  SessionLifetime, PendingLifetime,  \* in ticks of the clock
  MaxNow, MaxIDs,                    \* bounds: ticks, and IDs handed out
  MaxRequests                        \* bound: requests made

ASSUME SessionsAssumption ==
  /\ SessionLifetime \in Nat \ {0} /\ PendingLifetime \in Nat \ {0}
  /\ MaxNow \in Nat /\ MaxIDs \in Nat /\ MaxRequests \in Nat

VARIABLES
  now,      \* the panel's clock
  pending,  \* the pending sign-ins: their start, by ID
  active,   \* the sessions, by ID
  drawn,    \* IDs handed out
  req,      \* the requests
  made,     \* requests made
  ended,    \* own record: sessions ended, by sign-out, expiry or the forum
  admitted  \* own record: the pending sign-ins that made a session, each as
            \* often as it did

sessionVars == <<now, pending, active, drawn, req, made, ended, admitted>>

IDs == 1 .. MaxIDs
Accesses == {"admin", "manager", "outsider"}
Lookups == {"found", "failed", "no milpac", "not connected"}
Session(at, a, d) == [signedIn |-> at, access |-> a, discord |-> d]
NoRequest == [at |-> "none", id |-> 0, copy |-> Session(0, "outsider", "failed"),
              found |-> "outsider"]

SessionsTypeOK ==
  /\ now \in 0 .. MaxNow /\ drawn \in 0 .. MaxIDs /\ made \in 0 .. MaxRequests
  /\ DOMAIN pending \subseteq 1 .. drawn /\ DOMAIN active \subseteq 1 .. drawn
  /\ \A i \in DOMAIN active : active[i].access \in Accesses /\ active[i].discord \in Lookups
  /\ \A q \in Requests : req[q].id \in 0 .. drawn

SessionsInit ==
  /\ now = 0 /\ pending = <<>> /\ active = <<>> /\ drawn = 0 /\ made = 0
  /\ req = [q \in Requests |-> NoRequest] /\ ended = {} /\ admitted = <<>>

Without(f, i) == [j \in DOMAIN f \ {i} |-> f[j]]
With(f, i, v) == [j \in DOMAIN f \cup {i} |-> IF j = i THEN v ELSE f[j]]
Has(i) == i \in DOMAIN active
Expired(sess) == now >= sess.signedIn + SessionLifetime
Turns(q, r) == req' = [req EXCEPT ![q] = r]
To(q, p) == Turns(q, [req[q] EXCEPT !.at = p])
Begins(q) == req[q].at = "none" /\ made < MaxRequests /\ made' = made + 1
Elsewhere == UNCHANGED <<now, made>>

-----------------------------------------------------------------------------
(* authStart: a pending sign-in under a new ID.                            *)
AuthStart ==
  /\ drawn < MaxIDs /\ drawn' = drawn + 1 /\ pending' = With(pending, drawn + 1, now)
  /\ UNCHANGED <<now, active, req, made, ended, admitted>>

(* Wrong on purpose, to test SavesAsAsked: a callback leaves its sign-in.  *)
TakenStays(i) == pending
(* takePending removes the sign-in, whatever becomes of the callback.      *)
Taken(i) == Without(pending, i)

(* authCallback: the sign-in is taken, and one in time goes on to the      *)
(* forum's exchange and group check.                                       *)
Callback(q, i) ==
  /\ Begins(q) /\ i \in DOMAIN pending /\ pending' = Taken(i)
  /\ UNCHANGED <<now, active, drawn, ended, admitted>>
  /\ Turns(q, IF now >= pending[i] + PendingLifetime THEN NoRequest
              ELSE [NoRequest EXCEPT !.at = "exchange", !.id = i])

(* The exchange, the group check and the milpac lookup end.  Each can fail *)
(* the sign-in but the lookup.                                             *)
SignIn(q) ==
  /\ req[q].at = "exchange" /\ Elsewhere /\ UNCHANGED <<pending, ended>>
  /\ \/ Turns(q, NoRequest) /\ UNCHANGED <<active, drawn, admitted>>
     \/ \E a \in Accesses, d \in Lookups :
          /\ drawn < MaxIDs /\ drawn' = drawn + 1
          /\ active' = With(active, drawn + 1, Session(now, a, d))
          /\ admitted' = Append(admitted, req[q].id) /\ Turns(q, NoRequest)

-----------------------------------------------------------------------------
(* withSession: a session the store holds and the clock has not ended goes *)
(* on to the group check, as a copy.                                       *)
Arrive(q, i) ==
  /\ Begins(q) /\ i \in 1 .. drawn /\ UNCHANGED <<now, pending, drawn, admitted>>
  /\ IF ~Has(i) THEN Turns(q, NoRequest) /\ UNCHANGED <<active, ended>>
     ELSE IF Expired(active[i])
     THEN Turns(q, NoRequest) /\ active' = Without(active, i) /\ ended' = ended \cup {i}
     ELSE /\ Turns(q, [NoRequest EXCEPT !.at = "check", !.id = i, !.copy = active[i]])
          /\ UNCHANGED <<active, ended>>

(* Wrong on purpose, to test SavesAsAsked: an update puts back a session   *)
(* that ended during the group check.                                      *)
UpdatedAnyhow(i, sess) == With(active, i, [sess EXCEPT !.discord = IF Has(i) THEN active[i].discord ELSE @])
(* Wrong on purpose, to test SavesAsAsked: an update writes back the       *)
(* Discord account of the copy.                                            *)
UpdatedWhole(i, sess) == IF Has(i) THEN With(active, i, sess) ELSE active
(* sessions.update                                                         *)
Updated(i, sess) ==
  IF Has(i) THEN With(active, i, [sess EXCEPT !.discord = active[i].discord]) ELSE active

(* Wrong on purpose, to test SavesAsAsked: the page takes the session as   *)
(* the store holds it.                                                     *)
PageOfStore(i, sess) == IF Has(i) THEN active[i] ELSE sess
(* What the request's page goes by: the copy, with its own group check.    *)
PageOf(i, sess) == sess

(* The group check passes, finds the forum out of reach, or refuses.       *)
Check(q) ==
  /\ req[q].at = "check" /\ Elsewhere /\ UNCHANGED <<pending, drawn, admitted>>
  /\ \/ \E a \in Accesses : LET sess == [req[q].copy EXCEPT !.access = a] IN
          /\ active' = Updated(req[q].id, sess) /\ UNCHANGED ended
          /\ Turns(q, [req[q] EXCEPT !.at = "page", !.copy = PageOf(req[q].id, sess), !.found = a])
     \/ Turns(q, NoRequest) /\ UNCHANGED <<active, ended>>
     \/ /\ Turns(q, NoRequest) /\ active' = Without(active, req[q].id)
        /\ ended' = IF Has(req[q].id) THEN ended \cup {req[q].id} ELSE ended

(* Wrong on purpose, to test SavesAsAsked: a slower lookup drops what a    *)
(* faster one found.                                                       *)
KeptLatest(i, d) == With(active, i, [active[i] EXCEPT !.discord = d])
(* sessions.keepLookup                                                     *)
Kept(i, d) ==
  IF active[i].discord = "found" THEN active ELSE With(active, i, [active[i] EXCEPT !.discord = d])

(* A recording page looks the account up again when the copy's lookup      *)
(* failed or found none connected, and keeps what it finds.                *)
Look(q) ==
  /\ req[q].at = "page" /\ Elsewhere /\ UNCHANGED <<pending, drawn, admitted, ended>>
  /\ \/ Turns(q, NoRequest) /\ UNCHANGED active
     \/ /\ req[q].copy.discord \in {"failed", "not connected"}
        /\ \E d \in Lookups : active' = IF Has(req[q].id) THEN Kept(req[q].id, d) ELSE active
        /\ Turns(q, NoRequest)

(* authSignout                                                             *)
SignOut(i) ==
  /\ Has(i) /\ active' = Without(active, i) /\ ended' = ended \cup {i}
  /\ UNCHANGED <<now, pending, drawn, req, made, admitted>>

(* The clock, and pruneLoop dropping what has expired.                     *)
Ticks == /\ now < MaxNow /\ now' = now + 1
         /\ UNCHANGED <<pending, active, drawn, req, made, ended, admitted>>
Prune ==
  LET late == {i \in DOMAIN active : Expired(active[i])}
      old == {i \in DOMAIN pending : now >= pending[i] + PendingLifetime} IN
  /\ late \cup old # {}
  /\ active' = [i \in DOMAIN active \ late |-> active[i]] /\ ended' = ended \cup late
  /\ pending' = [i \in DOMAIN pending \ old |-> pending[i]]
  /\ UNCHANGED <<now, drawn, req, made, admitted>>

SessionsNext ==
  \/ AuthStart \/ Ticks \/ Prune
  \/ \E i \in IDs : SignOut(i) \/ \E q \in Requests : Callback(q, i) \/ Arrive(q, i)
  \/ \E q \in Requests : SignIn(q) \/ Check(q) \/ Look(q)
=============================================================================
