---------------------------- MODULE GatewayWatch ----------------------------
(***************************************************************************)
(* One recorder account's gateway sessions and the watch over them         *)
(* (utils/gateway_watch.go), with the logins that use it (Discord.Open,    *)
(* failedOpen, LogOut, cameBack and Close of voice/gateway.go): outages,   *)
(* their reports to Sentry, and the tokens Discord refuses.                *)
(*                                                                         *)
(* discordgo starts each handler on a goroutine of its own, so handlers    *)
(* run in any order; a session that lost its connection reconnects forever *)
(* once it has begun to, and its reconnect may be answered with Op 9       *)
(* Invalid Session, which no READY follows.  An outage's report may fire   *)
(* any time after the outage starts.                                       *)
(***************************************************************************)
EXTENDS Naturals, Sequences

CONSTANTS
  MaxLogins,  \* bound: logins of the account, each a session of its own
  MaxOutages, \* bound: outages
  MaxEvents,  \* bound: handlers waiting at once
  WatchSets   \* how often each kind of disturbance may happen: bounds

WatchKinds == {"drop", "fail", "invalid", "refuse", "late", "stop"}

ASSUME WatchAssumption ==
  MaxLogins \in Nat /\ MaxOutages \in Nat \ {0} /\ MaxEvents \in Nat
  /\ WatchSets \subseteq [WatchKinds -> Nat]

VARIABLES
  watch,     \* GatewayWatch: the session it reads, 0 for none, and the outage
  dg,        \* per session: its connection, and what the watch and the login know
  owner,     \* the recorder: where its login stands
  events,    \* handlers discordgo has still to start, in the order of their events
  reports,   \* per outage: set, checked by fire, sent to Sentry, or dropped
  told,      \* sessions whose refusal was told, by the watch or the open's error
  backs,     \* outages an INFO line said ended
  astray,    \* handlers ran out of their order, or after what came next, or a
             \* session changed between its failed open and its close
  slipped,   \* a READY handler ended the outage between the two halves of a logout
  watchLeft  \* disturbances still to come, by kind

watchVars == <<watch, dg, owner, events, reports, told, backs, astray, slipped, watchLeft>>
Logins == 1 .. MaxLogins
Outages == 1 .. MaxOutages

WatchTypeOK ==
  /\ watch.session \in 0 .. MaxLogins /\ watch.outage \in 0 .. MaxOutages
  /\ dg \in [Logins -> [conn : {"none", "opening", "bare", "ready", "retrying", "closed"},
                        up : BOOLEAN, refused : BOOLEAN, reconnects : BOOLEAN,
                        loggedOut : BOOLEAN]]
  /\ owner \in [at : {"out", "opening", "failed", "in", "leaving", "stopping", "stopped"},
                login : 0 .. MaxLogins]
  /\ owner.at \in {"opening", "in"} => watch.session = owner.login
  /\ reports \in [Outages -> {"none", "set", "checked", "sent", "dropped"}]
  /\ told \subseteq Logins /\ backs \subseteq Outages
  /\ watchLeft \in [WatchKinds -> Nat]

Disturbed(k) == watchLeft[k] > 0 /\ watchLeft' = [watchLeft EXCEPT ![k] = @ - 1]
Emits(s, kinds) ==
  /\ Len(events) + Len(kinds) <= MaxEvents
  /\ events' = events \o [i \in 1 .. Len(kinds) |-> [kind |-> kinds[i], of |-> s]]
Conn(s, c) == [dg EXCEPT ![s].conn = c]
Reporting == <<watch, reports, backs, slipped>>

(* startLocked: an outage and its report, set; one under way goes on.      *)
Started(w) ==
  IF w.stoodDown \/ w.down THEN w ELSE [w EXCEPT !.down = TRUE, !.outage = @ + 1]
SetsReport(w) ==
  /\ Started(w).outage <= MaxOutages
  /\ reports' = IF Started(w) = w THEN reports ELSE [reports EXCEPT ![Started(w).outage] = "set"]

(* The first login's recorder() makes the watch, offline from then.        *)
WatchInit ==
  /\ watch = [session |-> 0, down |-> TRUE, outage |-> 1, reported |-> FALSE, stoodDown |-> FALSE]
  /\ dg = [s \in Logins |-> [conn |-> "none", up |-> FALSE, refused |-> FALSE,
                             reconnects |-> TRUE, loggedOut |-> FALSE]]
  /\ owner = [at |-> "out", login |-> 0] /\ events = <<>>
  /\ reports = [n \in Outages |-> IF n = 1 THEN "set" ELSE "none"]
  /\ told = {} /\ backs = {} /\ astray = FALSE /\ slipped = FALSE /\ watchLeft \in WatchSets

-----------------------------------------------------------------------------
(* Logins.                                                                 *)

(* Open, watched from before it opens.                                     *)
Open ==
  /\ owner.at = "out" /\ owner.login < MaxLogins
  /\ LET s == owner.login + 1 IN
       /\ owner' = [at |-> "opening", login |-> s]
       /\ watch' = [watch EXCEPT !.session = s] /\ dg' = Conn(s, "opening")
  /\ UNCHANGED <<events, reports, told, backs, astray, slipped, watchLeft>>

(* Wrong on purpose, to test WatchTells: a refused session reconnects.     *)
StillTries(s) == [dg EXCEPT ![s].refused = TRUE]
RefusedNow(s) == [dg EXCEPT ![s].refused = TRUE, ![s].reconnects = FALSE]
(* A connection closes, and the session reconnects while it may.           *)
CutOff(s, d) == [d EXCEPT ![s].conn = IF d[s].reconnects THEN "retrying" ELSE "closed"]

(* The session opens with READY; or opens with Op 9 and no READY, or fails *)
(* to, a token refused at once among the ways: Open fails.                 *)
OpenEnds ==
  LET s == owner.login IN
    /\ owner.at = "opening" /\ dg[s].conn = "opening"
    /\ \/ /\ owner' = [owner EXCEPT !.at = "in"] /\ dg' = Conn(s, "ready")
          /\ Emits(s, <<"ready">>) /\ UNCHANGED watchLeft
       \/ /\ owner' = [owner EXCEPT !.at = "failed"] /\ Disturbed("invalid")
          /\ dg' = Conn(s, "bare") /\ UNCHANGED events
       \/ /\ owner' = [owner EXCEPT !.at = "failed"] /\ Disturbed("fail")
          /\ dg' = Conn(s, "closed") /\ UNCHANGED events
       \/ /\ owner' = [owner EXCEPT !.at = "failed"] /\ Disturbed("refuse")
          /\ dg' = CutOff(s, RefusedNow(s)) /\ UNCHANGED events
    /\ UNCHANGED <<Reporting, told, astray>>

(* Wrong on purpose, to test WatchTells: the outage ends with the session. *)
OutageOver(w) == [w EXCEPT !.session = 0, !.down = FALSE]
(* CloseSession's first half, at a failed open and a logout: the watch     *)
(* lets the session go, and the session reconnects no more.                *)
Unwatched(w) == [w EXCEPT !.session = 0]
GiveUp ==
  /\ owner.at \in {"failed", "leaving"} /\ watch.session = owner.login
  /\ watch' = Unwatched(watch) /\ dg' = [dg EXCEPT ![owner.login].reconnects = FALSE]
  /\ UNCHANGED <<owner, events, reports, told, backs, astray, slipped, watchLeft>>

(* Wrong on purpose, to test WatchTells: a failed open never asks          *)
(* whether Discord refused the token.                                      *)
ErrorOf(s) == {}
FailedOpen(s) == IF dg[s].refused THEN {s} ELSE {}

(* CloseSession's second half: discordgo closes the connection there is,   *)
(* which emits Disconnect.                                                 *)
ClosesConn(s) ==
  /\ dg' = IF dg[s].conn \in {"bare", "ready"} THEN Conn(s, "closed") ELSE dg
  /\ Emits(s, IF dg[s].conn \in {"bare", "ready"} THEN <<"disconnect">> ELSE <<>>)
CloseFailed ==
  /\ owner.at = "failed" /\ watch.session # owner.login
  /\ ClosesConn(owner.login) /\ told' = told \cup FailedOpen(owner.login)
  /\ owner' = [owner EXCEPT !.at = "out"]
  /\ UNCHANGED <<Reporting, astray, watchLeft>>

(* LogOut: offline from now, whatever the session does after, and then     *)
(* CloseSession.  The watch still reads the session in between.            *)
LogOut ==
  /\ owner.at = "in" /\ owner' = [owner EXCEPT !.at = "leaving"]
  /\ watch' = Started(watch) /\ SetsReport(watch) /\ slipped' = FALSE
  /\ dg' = [dg EXCEPT ![owner.login].loggedOut = TRUE]
  /\ UNCHANGED <<events, told, backs, astray, watchLeft>>
CloseLeft ==
  /\ owner.at = "leaving" /\ watch.session # owner.login
  /\ ClosesConn(owner.login) /\ owner' = [owner EXCEPT !.at = "out"]
  /\ UNCHANGED <<Reporting, told, astray, watchLeft>>

(* Close at shutdown, where the watch stands down first, and               *)
(* FailedToConnect.                                                        *)
StandDown ==
  /\ owner.at \in {"in", "out"} /\ ~watch.stoodDown /\ owner.login > 0 /\ Disturbed("stop")
  /\ watch' = [watch EXCEPT !.stoodDown = TRUE]
  /\ owner' = [owner EXCEPT !.at = IF @ = "in" THEN "stopping" ELSE "stopped"]
  /\ UNCHANGED <<dg, events, reports, told, backs, astray, slipped>>
CloseLast ==
  /\ owner.at = "stopping" /\ ClosesConn(owner.login) /\ owner' = [owner EXCEPT !.at = "stopped"]
  /\ UNCHANGED <<Reporting, told, astray, watchLeft>>

-----------------------------------------------------------------------------
(* discordgo and Discord.                                                  *)

(* A session changes before its open's failure has reached CloseSession.   *)
Unclosed(s) == owner.at = "failed" /\ watch.session = s

ConnLost(s) ==
  /\ dg[s].conn \in {"bare", "ready"} /\ Disturbed("drop")
  /\ dg' = CutOff(s, dg) /\ Emits(s, <<"disconnect">>)
  /\ astray' = (astray \/ Unclosed(s)) /\ UNCHANGED <<Reporting, owner, told>>

(* A try works: the session resumes or starts anew, or Op 9 answers it.    *)
ComeBack(s) ==
  /\ dg[s].conn = "retrying"
  /\ \/ dg' = Conn(s, "ready") /\ Emits(s, <<"ready", "connect">>) /\ UNCHANGED watchLeft
     \/ dg' = Conn(s, "bare") /\ Emits(s, <<"connect">>) /\ Disturbed("invalid")
  /\ UNCHANGED <<Reporting, owner, told, astray>>

(* Op 9's fresh identify is taken.                                         *)
Identified(s) ==
  /\ dg[s].conn = "bare" /\ dg' = Conn(s, "ready") /\ Emits(s, <<"ready">>)
  /\ astray' = (astray \/ Unclosed(s)) /\ UNCHANGED <<Reporting, owner, told, watchLeft>>

(* closed with 4004, as the identify after Op 9 is refused: read before    *)
(* the listener reconnects, and told by the watch for a session that was   *)
(* up.                                                                     *)
Tells(s) == ~dg[s].refused /\ s = watch.session /\ dg[s].up
Closed4004(s) ==
  /\ dg[s].conn = "bare" /\ Disturbed("refuse")
  /\ dg' = CutOff(s, RefusedNow(s)) /\ Emits(s, <<"disconnect">>)
  /\ told' = IF Tells(s) THEN told \cup {s} ELSE told
  /\ astray' = (astray \/ \E i \in DOMAIN events : events[i] = [kind |-> "ready", of |-> s])
  /\ UNCHANGED <<Reporting, owner>>

-----------------------------------------------------------------------------
(* The handlers, of which one may run before another's event's.            *)
Handles(i) ==
  /\ i \in DOMAIN events
  /\ events' = SubSeq(events, 1, i - 1) \o SubSeq(events, i + 1, Len(events))
  /\ IF i = 1 THEN UNCHANGED <<astray, watchLeft>> ELSE astray' = TRUE /\ Disturbed("late")

(* Wrong on purpose, to test WatchTells: any session's READY ends the      *)
(* outage.                                                                 *)
AnySession(s) == TRUE
Watched(s) == s = watch.session

(* online: READY or RESUMED ends the outage.                               *)
Online(i) ==
  /\ Handles(i) /\ events[i].kind = "ready" /\ UNCHANGED <<owner, reports, told>>
  /\ LET s == events[i].of IN
       /\ dg' = [dg EXCEPT ![s].up = TRUE]
       /\ IF ~Watched(s) THEN UNCHANGED <<watch, backs, slipped>>
          ELSE /\ slipped' = (owner.at = "leaving")
               /\ watch' = [watch EXCEPT !.down = FALSE, !.reported = FALSE]
               /\ backs' = IF watch.reported THEN backs \cup {watch.outage} ELSE backs

(* disconnected                                                            *)
WentOffline(i) ==
  /\ Handles(i) /\ events[i].kind = "disconnect" /\ UNCHANGED <<dg, owner, told, backs>>
  /\ IF events[i].of # watch.session THEN UNCHANGED <<watch, reports, slipped>>
     ELSE watch' = Started(watch) /\ SetsReport(watch) /\ slipped' = FALSE

(* Wrong on purpose, to test UpkeepSettles: a login that comes back stays. *)
StaysIn(s) == UNCHANGED dg
(* cameBack: a login back after its logout is closed again.  The           *)
(* Disconnect of that close finds the session unwatched or an outage on;   *)
(* it is left out.                                                         *)
LoggedOutAgain(s) ==
  dg' = IF dg[s].loggedOut /\ dg[s].conn \in {"bare", "ready"} THEN Conn(s, "closed") ELSE dg
CameBack(i) ==
  /\ Handles(i) /\ events[i].kind = "connect" /\ LoggedOutAgain(events[i].of)
  /\ UNCHANGED <<Reporting, owner, told>>

(* Wrong on purpose, to test WatchTells: a report asks only whether the    *)
(* account is offline, in whichever outage.                                *)
AnyOutage(n) == watch.down /\ ~watch.stoodDown
OutageOn(n) == watch.down /\ n = watch.outage /\ ~watch.stoodDown

(* fire: the check under the watch's lock, then the event to Sentry.       *)
FireReport(n) ==
  /\ reports[n] = "set"
  /\ IF OutageOn(n)
     THEN /\ watch' = [watch EXCEPT !.reported = TRUE]
          /\ reports' = [reports EXCEPT ![n] = "checked"]
     ELSE UNCHANGED watch /\ reports' = [reports EXCEPT ![n] = "dropped"]
  /\ UNCHANGED <<dg, owner, events, told, backs, astray, slipped, watchLeft>>
CaptureError(n) ==
  /\ reports[n] = "checked" /\ reports' = [reports EXCEPT ![n] = "sent"]
  /\ UNCHANGED <<watch, dg, owner, events, told, backs, astray, slipped, watchLeft>>

OwnerSteps == OpenEnds \/ GiveUp \/ CloseFailed \/ CloseLeft \/ CloseLast
Reports == \E n \in Outages : FireReport(n) \/ CaptureError(n)
EventHandlers == \E i \in DOMAIN events : Online(i) \/ WentOffline(i) \/ CameBack(i)
Discordgo == \E s \in Logins : ComeBack(s) \/ Identified(s)
WatchNext ==
  \/ Open \/ LogOut \/ StandDown \/ OwnerSteps \/ Reports \/ EventHandlers \/ Discordgo
  \/ \E s \in Logins : ConnLost(s) \/ Closed4004(s)
=============================================================================
