------------------------------- MODULE Foxhole -------------------------------
(***************************************************************************)
(* The Foxhole actions of the panel: commands/foxhole_runtime.go, started  *)
(* from the previews of panel/foxhole_actions.go, foxhole_add.go,          *)
(* foxhole_roster.go and foxhole_retry.go, with their reports in the       *)
(* store.  An action changes one Foxhole role of one member after another, *)
(* each checked against the member list when it is reached.                *)
(*                                                                         *)
(* One action is one critical section of FoxholeRuntime.mu, one call to    *)
(* Discord or one to the store.  Names, audit reasons, the wording of a    *)
(* report, Sentry and the pages' layout are left out.  Discord's gateway   *)
(* shows a change at once while the bot is connected.                      *)
(***************************************************************************)
EXTENDS Naturals, FiniteSets, SequencesExt

CONSTANTS
  Members,      \* Discord members, in the order of their display names:
  ByName,       \*   a sequence of them
  Lines,        \* lines of the paste box, in order: a sequence
  Ids,          \* report IDs, in the order the store gives them
  CommandRuns,  \* role-changing commands that run at one time
  NoMember, NoReport,
  PageKinds,    \* what managers start from the page: a bound
  Starts,       \* how Discord, the store and the forum stand at first
  Allowances    \* how often each kind of disturbance may happen: bounds

Roles == {"internal", "external"}
Scopes == Roles \cup {"both"}
Texts == Range(Lines) \cup Members  \* the lines, and each member's ID as one
Disturbances == {"actions", "commands", "edits", "leaves", "list", "renames",
                 "approvals", "stops", "refused", "storeFault", "lostAnswer",
                 "lostStart", "panic", "crash"}

ASSUME FoxholeAssumption ==
  /\ ByName \in Seq(Members) /\ Range(ByName) = Members /\ NoMember \notin Members
  /\ Lines \in Seq(Range(Lines))
  /\ Ids \subseteq Nat \ {0} /\ NoReport \notin Ids
  /\ PageKinds \subseteq {"purge", "re-add", "removal", "add", "roster add", "retry"}
  /\ Starts \subseteq [holds : [Members -> SUBSET Roles], inServer : SUBSET Members,
                       approved : [Members -> SUBSET Roles],
                       names : [Texts -> SUBSET Members],
                       roster : Seq(Members \cup {NoMember})]
  /\ Allowances \subseteq [Disturbances -> Nat]

VARIABLES
  holds,     \* the Foxhole roles each member of the server holds in Discord
  inServer,  \* the members of the server
  list,      \* the member list: its status, the connection, what it shows
  names,     \* the members who bear each text as a name
  roster,    \* the unit's roster: the Discord account of each trooper
  approved,  \* foxhole_records: the approvals of each member
  reports,   \* the reports in the store
  preview,   \* the preview a manager has open
  post,      \* a Confirm on its way to the runtime
  commands,  \* FoxholeRuntime.commands
  run,       \* FoxholeRuntime.running with its goroutine
  late,      \* reports whose end write goes on in the background
  up,        \* the process: up, booting or down
  took,      \* history: the changes Discord made for each report
  overrun,   \* history: changes it made for this run after its Stop
  pressed,   \* history: reports whose page's Stop was pressed
  unheard,   \* history: reports inserted whose answer was lost
  claims,    \* history: how often an action claimed the rule
  allowed    \* disturbances still to come, by kind

discord == <<holds, inServer, list>>
outside == <<names, roster>>
page    == <<preview, post>>
runtime == <<commands, run, late>>
history == <<took, overrun, pressed, unheard, claims>>
vars == <<discord, outside, approved, reports, page, runtime, up, history, allowed>>

Change == [who : Members, role : Roles]
Changes(q, r) == [i \in DOMAIN q |-> [who |-> q[i], role |-> r]]
Body == [kind : {"purge", "re-add", "removal", "add", "roster add"},
         changed : SUBSET Change, skipped : SUBSET Change, failed : Seq(Change),
         todo : Seq(Change), cleared : SUBSET Change,
         outcome : {"", "done", "stopped", "member-list", "restart"}]
Stored == [state : {"none", "running", "ended"}, body : Body]
BlankBody == [kind |-> "purge", changed |-> {}, skipped |-> {}, failed |-> <<>>,
              todo |-> <<>>, cleared |-> {}, outcome |-> ""]
Unwritten == [state |-> "none", body |-> BlankBody]

(* What an action starts with: its kind, a purge's scope, the members or   *)
(* the missed changes it was given, those whose approval it clears.        *)
Given(kind, given, clears) ==
  [kind |-> kind, scope |-> "both", given |-> given, clears |-> clears, retry |-> FALSE]


(* A run before its claim waits as a POST; at "none" nothing runs.         *)
Off == [at |-> "none", spec |-> Given("purge", <<>>, {}), saw |-> {}, plan |-> <<>>,
        id |-> NoReport, body |-> BlankBody, stop |-> FALSE, tries |-> 0]
NoPost == [kind |-> "none"]

NoPreview == [kind |-> "none", role |-> "internal", rows |-> <<>>, named |-> <<>>,
              clears |-> {}]

TypeOK ==
  /\ holds \in [Members -> SUBSET Roles] /\ inServer \subseteq Members
  /\ list \in [status : {"complete", "partial"}, connected : BOOLEAN,
               holds : [Members -> SUBSET Roles], in : SUBSET Members]
  /\ names \in [Texts -> SUBSET Members]
  /\ roster \in Seq(Members \cup {NoMember})
  /\ approved \in [Members -> SUBSET Roles]
  /\ reports \in [Ids -> Stored]
  /\ commands \subseteq CommandRuns
  /\ run.at \in {"none", "plan", "open", "await", "paused", "change", "clear", "write",
                 "end", "release"}
  /\ run.id \in Ids \cup {NoReport} /\ run.body \in Body /\ run.tries \in 0 .. 2
  /\ late \subseteq [id : Ids, body : Body]
  /\ up \in {"up", "booting", "down"}
  /\ took \in [Ids -> SUBSET Change] /\ overrun \in Nat /\ claims \in Nat
  /\ allowed \in [Disturbances -> Nat]

----------------------------------------------------------------------------
(* Helpers                                                                 *)

Spend(k) == allowed[k] > 0 /\ allowed' = [allowed EXCEPT ![k] = @ - 1]
Maybe(spends, k) == IF spends THEN Spend(k) ELSE UNCHANGED allowed

(* What the bot's member list shows once Discord stands as h and s.        *)
Sees(h, s) ==
  list' = IF list.connected THEN [list EXCEPT !.holds = h, !.in = s] ELSE list
Complete == list.status = "complete"
Ready == Complete /\ list.connected

InList == IF Complete THEN list.in ELSE {}
HoldsInList(m, r) == m \in InList /\ r \in list.holds[m]
Grants(kind) == kind \in {"re-add", "add", "roster add"}

(* Why a run skips a change: the member is not in the server, or holds     *)
(* already what it gives, or no longer what it takes.                      *)
Skips(kind, c) ==
  c.who \notin InList \/ (HoldsInList(c.who, c.role) <=> Grants(kind))

(* The members of S, each once, in the order of their first in q.          *)
Before(q, x, y) == \E k \in DOMAIN q : q[k] = x /\ \A l \in 1 .. k : q[l] # y
InOrder(S, q) ==
  CHOOSE p \in [1 .. Cardinality(S) -> S] :
    Range(p) = S /\ \A i, j \in DOMAIN p : i < j => Before(q, p[i], p[j])
InNameOrder(S) == InOrder(S, ByName)

(* The changes of a purge, External first, and of a re-add.                *)
HoldersOf(r)  == InNameOrder({m \in Members : HoldsInList(m, r)})
ApprovedFor(r) == InNameOrder({m \in Members : r \in approved[m]})
InScope(r, scope) == scope \in {r, "both"}
PurgePlan(scope) ==
  (IF InScope("external", scope) THEN Changes(HoldersOf("external"), "external") ELSE <<>>)
    \o (IF InScope("internal", scope) THEN Changes(HoldersOf("internal"), "internal") ELSE <<>>)
ReAddPlan ==
  Changes(ApprovedFor("internal"), "internal") \o Changes(ApprovedFor("external"), "external")

(* A plan over the member list and the records as they stand; a removal,   *)
(* an add, a roster add and a Retry were given theirs.                     *)
PlanOf(spec) ==
  IF spec.retry \/ spec.kind \notin {"purge", "re-add"} THEN spec.given
  ELSE IF spec.kind = "purge" THEN PurgePlan(spec.scope) ELSE ReAddPlan

(* Wrong on purpose, to test ReportTells: a member named twice is changed  *)
(* twice.                                                                  *)
Every(q) == SelectSeq(q, LAMBDA m : m # NoMember)

(* Each member in q once, in the order of their first.                     *)
Once(q) == InOrder(Range(q) \ {NoMember}, q)

(* The members a line names: a member's ID names them, and whoever bears   *)
(* it as a nickname.                                                       *)
Matches(line) == (names[line] \cup ({line} \cap Members)) \cap InList
Named(rows) == [i \in DOMAIN rows |-> Matches(rows[i])]

Misses(b) == b.failed \o b.todo
Runs(i) == reports[i].state = "running"

----------------------------------------------------------------------------
Init ==
  \E s \in Starts :
    /\ holds = s.holds /\ inServer = s.inServer /\ approved = s.approved
    /\ names = s.names /\ roster = s.roster
    /\ list = [status |-> "complete", connected |-> TRUE, holds |-> holds, in |-> inServer]
    /\ reports = [i \in Ids |-> Unwritten]
    /\ preview = NoPreview /\ post = NoPost /\ commands = {} /\ run = Off /\ late = {}
    /\ up = "up" /\ took = [i \in Ids |-> {}] /\ overrun = 0 /\ pressed = {} /\ unheard = {}
    /\ claims = 0
    /\ allowed \in Allowances

----------------------------------------------------------------------------
(* Discord, the forum and the members                                      *)

(* A moderator gives or takes a Foxhole role by hand.                      *)
Edit(m, r) ==
  /\ m \in inServer /\ Spend("edits")
  /\ holds' = [holds EXCEPT ![m] = IF r \in @ THEN @ \ {r} ELSE @ \cup {r}]
  /\ Sees(holds', inServer)
  /\ UNCHANGED <<inServer, outside, approved, reports, page, runtime, up, history>>

(* A member leaves the server, or joins it with no role.                   *)
ComesOrGoes(m) ==
  /\ Spend("leaves")
  /\ inServer' = IF m \in inServer THEN inServer \ {m} ELSE inServer \cup {m}
  /\ holds' = [holds EXCEPT ![m] = {}]
  /\ Sees(holds', inServer')
  /\ UNCHANGED <<outside, approved, reports, page, runtime, up, history>>

(* The gateway connection drops: the list stays as it was.                 *)
Disconnect ==
  /\ list.connected /\ up = "up" /\ Spend("list")
  /\ list' = [list EXCEPT !.connected = FALSE]
  /\ UNCHANGED <<holds, inServer, outside, approved, reports, page, runtime, up, history>>

(* It is back: resumed with every event it missed, or a new session, whose *)
(* member list has still to arrive.                                        *)
Reconnect ==
  /\ ~list.connected /\ up = "up"
  /\ \E status \in {list.status, "partial"} :
       list' = [status |-> status, connected |-> TRUE, holds |-> holds, in |-> inServer]
  /\ UNCHANGED <<holds, inServer, outside, approved, reports, page, runtime, up, history, allowed>>

ListArrives ==
  /\ list.connected /\ ~Complete /\ list' = [list EXCEPT !.status = "complete"]
  /\ UNCHANGED <<holds, inServer, outside, approved, reports, page, runtime, up, history, allowed>>

(* A name a pasted line gives changes hands, or the unit's roster changes. *)
Renamed(line, S) ==
  /\ Spend("renames") /\ names' = [names EXCEPT ![line] = S]
  /\ UNCHANGED <<discord, roster, approved, reports, page, runtime, up, history>>
RosterChanges(i, m) ==
  /\ Spend("renames") /\ roster' = [roster EXCEPT ![i] = m]
  /\ UNCHANGED <<discord, names, approved, reports, page, runtime, up, history>>

(* A manager's Approve or Clear approval lands in the records.             *)
SetApproval(m, R) ==
  /\ up = "up" /\ Spend("approvals") /\ approved' = [approved EXCEPT ![m] = R]
  /\ UNCHANGED <<discord, outside, reports, page, runtime, up, history>>

----------------------------------------------------------------------------
(* The page: previews and their Confirms                                   *)

Opens(p) ==
  /\ up = "up" /\ Complete /\ preview = NoPreview /\ post = NoPost /\ preview' = p
  /\ UNCHANGED <<discord, outside, approved, reports, post, commands, run, late, up,
                 history, allowed>>

(* The members selected who lose the role, and those among them whose      *)
(* approval for it the removal clears.                                     *)
RemovePreview(r, selected) ==
  LET loses == {m \in selected : HoldsInList(m, r)} IN
    [NoPreview EXCEPT !.kind = "removal", !.role = r, !.rows = InNameOrder(loses),
                      !.clears = {m \in loses : r \in approved[m]}]
AddPreview(r, rows) ==
  [NoPreview EXCEPT !.kind = "add", !.role = r, !.rows = rows, !.named = Named(rows)]
RosterPreview == [NoPreview EXCEPT !.kind = "roster add", !.rows = roster]

OpenPreview ==
  \/ "removal" \in PageKinds /\ \E r \in Roles, S \in SUBSET Members : Opens(RemovePreview(r, S))
  \/ "add" \in PageKinds /\ \E r \in Roles : Opens(AddPreview(r, Lines))
  \/ "roster add" \in PageKinds /\ Opens(RosterPreview)

(* Retry of a removal or an add opens its preview over those it missed.    *)
OpenRetry(i) ==
  LET b == reports[i].body
      rows == [k \in DOMAIN Misses(b) |-> Misses(b)[k].who]
  IN /\ reports[i].state = "ended" /\ Misses(b) # <<>> /\ "retry" \in PageKinds
     /\ \/ b.kind = "removal" /\ Opens(RemovePreview(Misses(b)[1].role, Range(rows)))
        \/ b.kind = "add" /\ Opens(AddPreview(Misses(b)[1].role, rows))

Posts(spec, saw) ==
  /\ post' = [kind |-> spec.kind, spec |-> spec, saw |-> saw] /\ preview' = NoPreview
  /\ UNCHANGED <<discord, outside, approved, reports, commands, run, late, up, history>>

Submits == up = "up" /\ post = NoPost /\ Spend("actions")

PressPurge(scope) ==
  /\ "purge" \in PageKinds /\ Submits
  /\ Posts([Given("purge", <<>>, {}) EXCEPT !.scope = scope], {})
PressReAdd == "re-add" \in PageKinds /\ Submits /\ Posts(Given("re-add", <<>>, {}), {})

ConfirmRemoval ==
  /\ preview.kind = "removal" /\ preview.rows # <<>> /\ Submits
  /\ Posts(Given("removal", Changes(preview.rows, preview.role), preview.clears),
           Range(preview.rows))

(* Wrong on purpose, to test StartsAsShown: who each line names is not     *)
(* compared with what the preview showed.                                  *)
AnyNamed(rows, named) == Complete

(* The lines must name the members they named in the preview.              *)
SameNamed(rows, named) == Complete /\ Named(rows) = named

(* The member each line adds: the one it names, or a pick, or none, among  *)
(* the several it names.                                                   *)
Picks(rows) ==
  {pick \in [DOMAIN rows -> Members \cup {NoMember}] :
     \A i \in DOMAIN pick :
       LET M == Matches(rows[i]) IN
         pick[i] \in IF Cardinality(M) = 1 THEN M ELSE M \cup {NoMember}}

(* The add of the members the lines name, each once.                       *)
ConfirmAdd ==
  /\ preview.kind = "add" /\ Submits /\ SameNamed(preview.rows, preview.named)
  /\ \E pick \in Picks(preview.rows) :
       Posts(Given("add", Changes(Once(pick), preview.role), {}),
             UNION Range(preview.named))

(* Wrong on purpose, to test StartsAsShown: the roster fetched again is    *)
(* taken as it is.                                                         *)
AnyRoster(rows) == Complete /\ run.at = "none" /\ commands = {}

(* The roster fetched again must be the one the preview listed.  Nothing   *)
(* is fetched while the add could not start.                               *)
SameRoster(rows) == Complete /\ run.at = "none" /\ commands = {} /\ roster = rows

ConfirmRoster ==
  /\ preview.kind = "roster add" /\ Submits /\ SameRoster(preview.rows)
  /\ Posts(Given("roster add", Changes(Once(roster), "internal"), {}), Range(preview.rows))

(* A Confirm whose preview is out of date is refused, and so is a roster's *)
(* whose fetch fails: the page shows it again as it stands.                *)
ConfirmRefused ==
  /\ up = "up" /\ post = NoPost /\ preview # NoPreview
  /\ \/ preview.kind = "add" /\ ~SameNamed(preview.rows, preview.named)
     \/ preview.kind = "roster add"
  /\ preview' = NoPreview
  /\ UNCHANGED <<discord, outside, approved, reports, post, commands, run, late, up,
                 history, allowed>>

(* The Retry of a purge, a re-add or a roster add: its kind of action over *)
(* the changes its report missed.                                          *)
RetryOf(b) ==
  {[Given(kind, Misses(b), {}) EXCEPT !.retry = TRUE] :
     kind \in {b.kind} \cap {"purge", "re-add", "roster add"}}

(* Its report is read before the rule is claimed, and has ended.           *)
PressRetry(i) ==
  LET b == reports[i].body IN
    /\ "retry" \in PageKinds /\ reports[i].state = "ended" /\ Misses(b) # <<>> /\ Submits
    /\ \E spec \in RetryOf(b) : Posts(spec, {Misses(b)[k].who : k \in DOMAIN Misses(b)})

----------------------------------------------------------------------------
(* The runtime: the rule, a start, the run                                 *)

Runs0 == <<discord, outside, approved, reports, preview, commands, late, up, history>>

(* Wrong on purpose, to test RuleSpec: a command does not hold the rule.   *)
ClaimOverCommands ==
  /\ post # NoPost /\ up = "up" /\ run.at = "none"
  /\ run' = [Off EXCEPT !.at = "plan", !.spec = post.spec, !.saw = post.saw]
  /\ post' = NoPost /\ overrun' = 0 /\ claims' = claims + 1
  /\ UNCHANGED <<discord, outside, approved, reports, preview, commands, late, up,
                 took, pressed, unheard, allowed>>

(* Wrong on purpose, to test RuleSpec: a second action of the page claims  *)
(* the rule too.                                                           *)
ClaimOverActions ==
  /\ post # NoPost /\ up = "up" /\ commands = {}
  /\ run' = [Off EXCEPT !.at = "plan", !.spec = post.spec, !.saw = post.saw]
  /\ post' = NoPost /\ overrun' = 0 /\ claims' = claims + 1
  /\ UNCHANGED <<discord, outside, approved, reports, preview, commands, late, up,
                 took, pressed, unheard, allowed>>

(* An action claims the rule from every other action and every command.    *)
Claim ==
  /\ post # NoPost /\ up = "up" /\ run.at = "none" /\ commands = {}
  /\ run' = [Off EXCEPT !.at = "plan", !.spec = post.spec, !.saw = post.saw]
  /\ post' = NoPost /\ overrun' = 0 /\ claims' = claims + 1
  /\ UNCHANGED <<discord, outside, approved, reports, preview, commands, late, up,
                 took, pressed, unheard, allowed>>

Busy ==
  /\ post # NoPost /\ up = "up" /\ (run.at # "none" \/ commands # {})
  /\ post' = NoPost /\ UNCHANGED <<Runs0, run, allowed>>

Moves(r) == run' = r /\ UNCHANGED post

(* It reads the member list and the records: with a list that is not       *)
(* complete, a role the guild lacks, a store that does not answer or       *)
(* nobody to change it ends here.  (storeFault stands for the missing      *)
(* role too.)                                                              *)
Plan ==
  LET plan == PlanOf(run.spec) IN
    /\ run.at = "plan"
    /\ \/ /\ ~Complete \/ \A k \in DOMAIN plan : Skips(run.spec.kind, plan[k])
          /\ Moves(Off) /\ UNCHANGED <<Runs0, allowed>>
       \/ Spend("storeFault") /\ Moves(Off) /\ UNCHANGED Runs0
       \/ /\ Complete /\ \E k \in DOMAIN plan : ~Skips(run.spec.kind, plan[k])
          /\ Moves([run EXCEPT !.at = "open", !.plan = plan,
                               !.body = [BlankBody EXCEPT !.kind = run.spec.kind, !.todo = plan]])
          /\ UNCHANGED <<Runs0, allowed>>

(* Wrong on purpose, to test TypeOK: the serial starts at zero.            *)
NextIdFromZero == {Cardinality({i \in Ids : reports[i] # Unwritten})}

(* The store numbers its reports in order; Ids bounds them.                *)
NextId == {i \in Ids : reports[i] = Unwritten /\ \A j \in Ids : j < i => reports[j] # Unwritten}

(* The report goes in, running.  An insert that fails ends the action; so  *)
(* does one whose answer is lost, though its row is there.                 *)
Open ==
  /\ run.at = "open" /\ UNCHANGED <<discord, outside, approved, preview, post, commands,
                                    late, up, took, overrun, pressed, claims>>
  /\ \/ Spend("storeFault") /\ run' = Off /\ UNCHANGED <<reports, unheard>>
     \/ \E i \in NextId :
          /\ reports' = [reports EXCEPT ![i] = [state |-> "running", body |-> run.body]]
          /\ \/ run' = [run EXCEPT !.at = "await", !.id = i] /\ UNCHANGED <<unheard, allowed>>
             \/ /\ Spend("lostStart") /\ run' = [Off EXCEPT !.at = "release"]
                /\ unheard' = unheard \cup {i}

(* The report with the next member out of those to come and in a list of   *)
(* it, which is written next.                                              *)
Skipped(b) == [b EXCEPT !.todo = Tail(@), !.skipped = @ \cup {Head(b.todo)}]
Failed(b)  == [b EXCEPT !.todo = Tail(@), !.failed = Append(@, Head(b.todo))]
Changed(b) == [b EXCEPT !.todo = Tail(@), !.changed = @ \cup {Head(b.todo)}]
Cleared(b) == [Changed(b) EXCEPT !.cleared = @ \cup {Head(b.todo)}]
Reported(b) == [run EXCEPT !.at = "write", !.body = b]

(* The end of a run, as outcome: its end write comes next.                 *)
Ends(outcome) == [run EXCEPT !.at = "end", !.body = [@ EXCEPT !.outcome = outcome]]

(* What follows once the list is ready: the next member is looked up, and  *)
(* skipped or changed.                                                     *)
Reach ==
  LET c == Head(run.body.todo) IN
    IF Skips(run.spec.kind, c)
    THEN Reported(Skipped(run.body)) ELSE [run EXCEPT !.at = "change"]

(* Wrong on purpose, to test RunsEnd: a Stop is seen in a pause only.      *)
AwaitDeaf ==
  /\ run.at = "await"
  /\ Moves(IF run.body.todo = <<>> THEN Ends("done")
           ELSE IF Ready THEN Reach ELSE [run EXCEPT !.at = "paused"])
  /\ UNCHANGED <<Runs0, allowed>>

(* Before each member: a Stop ends the run; a list that is not complete or *)
(* not current pauses it.                                                  *)
Await ==
  /\ run.at = "await"
  /\ Moves(IF run.body.todo = <<>> THEN Ends("done")
           ELSE IF run.stop THEN Ends("stopped")
           ELSE IF Ready THEN Reach ELSE [run EXCEPT !.at = "paused"])
  /\ UNCHANGED <<Runs0, allowed>>

(* A paused run: a poll finds the list ready, Stop ends it, or the limit.  *)
PollReady   == run.at = "paused" /\ Ready /\ Moves(Reach) /\ UNCHANGED <<Runs0, allowed>>
PauseStops  == run.at = "paused" /\ run.stop /\ Moves(Ends("stopped")) /\ UNCHANGED <<Runs0, allowed>>

(* Wrong on purpose, to test RunsEnd: a pause is not limited while the bot *)
(* is not connected.                                                       *)
PauseUnlimited ==
  run.at = "paused" /\ list.connected /\ Moves(Ends("member-list")) /\ UNCHANGED <<Runs0, allowed>>

PauseLimit  == run.at = "paused" /\ Moves(Ends("member-list")) /\ UNCHANGED <<Runs0, allowed>>

(* The role change at Discord, which makes it, refuses it, or makes it     *)
(* with its answer lost: both of the last count as failed.                 *)
MakeChange ==
  LET c == Head(run.body.todo)
      made == /\ holds' = [holds EXCEPT ![c.who] = IF Grants(run.spec.kind) THEN @ \cup {c.role}
                                                     ELSE @ \ {c.role}]
              /\ Sees(holds', inServer)
              /\ took' = [took EXCEPT ![run.id] = @ \cup {c}]
              /\ overrun' = IF run.stop THEN overrun + 1 ELSE overrun
  IN /\ run.at = "change"
     /\ UNCHANGED <<inServer, outside, approved, reports, preview, commands, late, up,
                    pressed, unheard, claims>>
     /\ \/ /\ c.who \in inServer /\ made /\ UNCHANGED allowed
           /\ Moves(IF c.who \in run.spec.clears THEN [run EXCEPT !.at = "clear"]
                    ELSE Reported(Changed(run.body)))
        \/ c.who \in inServer /\ made /\ Spend("lostAnswer") /\ Moves(Reported(Failed(run.body)))
        \/ /\ Maybe(c.who \in inServer, "refused") /\ Moves(Reported(Failed(run.body)))
           /\ UNCHANGED <<holds, list, took, overrun>>

(* Wrong on purpose, to test ReportTells: a clear that fails drops the     *)
(* member from the report.                                                 *)
ClearDrops ==
  LET c == Head(run.body.todo) IN
    /\ run.at = "clear"
    /\ UNCHANGED <<discord, outside, reports, preview, commands, late, up, history>>
    /\ \/ /\ Spend("storeFault") /\ UNCHANGED approved
          /\ Moves(Reported([run.body EXCEPT !.todo = Tail(@)]))
       \/ /\ approved' = [approved EXCEPT ![c.who] = @ \ {c.role}] /\ UNCHANGED allowed
          /\ Moves(Reported(Changed(run.body)))

(* A removal clears the approval of a member its preview named so.  A      *)
(* clear that fails leaves it, one whose answer is lost is not told of,    *)
(* and the action goes on.                                                 *)
Clear ==
  LET c == Head(run.body.todo) IN
    /\ run.at = "clear"
    /\ UNCHANGED <<discord, outside, reports, preview, commands, late, up, history>>
    /\ \/ Spend("storeFault") /\ Moves(Reported(Changed(run.body))) /\ UNCHANGED approved
       \/ /\ approved' = [approved EXCEPT ![c.who] = @ \ {c.role}] /\ Spend("lostAnswer")
          /\ Moves(Reported(Changed(run.body)))
       \/ /\ approved' = [approved EXCEPT ![c.who] = @ \ {c.role}] /\ UNCHANGED allowed
          /\ Moves(Reported(IF c.role \in approved[c.who]
                            THEN Cleared(run.body) ELSE Changed(run.body)))

(* A write of a report matches a running report only.                      *)
Written(i, body, state) ==
  IF Runs(i) THEN [reports EXCEPT ![i] = [state |-> state, body |-> body]] ELSE reports

(* The report after each member.  A write that fails is left to the next.  *)
Write ==
  /\ run.at = "write" /\ Moves([run EXCEPT !.at = "await"])
  /\ UNCHANGED <<discord, outside, approved, preview, commands, late, up, history>>
  /\ \/ reports' = Written(run.id, run.body, "running") /\ UNCHANGED allowed
     \/ Spend("storeFault") /\ UNCHANGED reports

(* Wrong on purpose, to test ReportTells and RunsEnd: the third failure is *)
(* the last.                                                               *)
GivesUp == late

(* The end write of a report goes on in the background.                    *)
GoesOn == late \cup {[id |-> run.id, body |-> run.body]}

(* The end write, tried three times; a report that is not running any more *)
(* was ended by an attempt whose answer was lost.                          *)
EndWrite ==
  LET again == IF run.tries < 2 THEN [run EXCEPT !.tries = @ + 1] ELSE [run EXCEPT !.at = "release"]
  IN /\ run.at = "end"
     /\ UNCHANGED <<discord, outside, approved, preview, commands, up, history>>
     /\ \/ /\ Moves([run EXCEPT !.at = "release"]) /\ UNCHANGED <<late, allowed>>
           /\ reports' = Written(run.id, run.body, "ended")
        \/ /\ Moves(again) /\ late' = IF run.tries < 2 THEN late ELSE GoesOn
           /\ \/ Spend("storeFault") /\ UNCHANGED reports
              \/ Runs(run.id) /\ Spend("lostAnswer") /\ reports' = Written(run.id, run.body, "ended")

(* The rule is given back once the end write has returned.                 *)
Release == run.at = "release" /\ Moves(Off) /\ UNCHANGED <<Runs0, allowed>>

(* A background attempt at an end write, which goes on until one lands.    *)
EndLate(e) ==
  /\ e \in late /\ up = "up"
  /\ UNCHANGED <<discord, outside, approved, page, commands, run, up, history>>
  /\ \/ reports' = Written(e.id, e.body, "ended") /\ late' = late \ {e} /\ UNCHANGED allowed
     \/ Spend("storeFault") /\ UNCHANGED <<reports, late>>

(* A panic in a run ends it as a restart would; so does one in its start,  *)
(* once its report is in.                                                  *)
Panic ==
  /\ run.at \in {"await", "clear", "write"} /\ Spend("panic") /\ Moves(Ends("restart"))
  /\ UNCHANGED Runs0

(* Wrong on purpose, to test StartsAsShown: any page's Stop stops the      *)
(* action that runs.                                                       *)
AnyReport(i) == reports[i] # Unwritten

(* The Stop of the page that shows the report of the action that runs.     *)
OwnReport(i) == run.id = i

(* Stop, pressed on a page that shows report i.                            *)
Stop(i) ==
  /\ up = "up" /\ reports[i] # Unwritten /\ Spend("stops")
  /\ pressed' = pressed \cup {i}
  /\ Moves(IF run.id # NoReport /\ OwnReport(i) THEN [run EXCEPT !.stop = TRUE] ELSE run)
  /\ UNCHANGED <<discord, outside, approved, reports, preview, commands, late, up, took,
                 overrun, unheard, claims>>

(* A role-changing command takes the rule beside other commands, never     *)
(* beside an action of the page, and gives it back.                        *)
StartCommand(c) ==
  /\ up = "up" /\ run.at = "none" /\ c \notin commands /\ Spend("commands")
  /\ commands' = commands \cup {c}
  /\ UNCHANGED <<discord, outside, approved, reports, page, run, late, up, history>>
EndCommand(c) ==
  /\ c \in commands /\ commands' = commands \ {c}
  /\ UNCHANGED <<discord, outside, approved, reports, page, run, late, up, history, allowed>>

----------------------------------------------------------------------------
(* The process dies and starts again                                       *)

Crash ==
  /\ up = "up" /\ Spend("crash") /\ up' = "down"
  /\ run' = Off /\ post' = NoPost /\ commands' = {} /\ late' = {}
  /\ list' = [list EXCEPT !.status = "partial", !.connected = FALSE]
  /\ UNCHANGED <<holds, inServer, outside, approved, reports, preview, history>>

Boot ==
  /\ up = "down" /\ up' = "booting"
  /\ UNCHANGED <<discord, outside, approved, reports, page, runtime, history, allowed>>

(* It ends each report still running, with what its action had written; a  *)
(* store that fails that ends the start.                                   *)
EndCutOff ==
  /\ up = "booting"
  /\ UNCHANGED <<discord, outside, approved, page, runtime, history>>
  /\ \/ /\ \E i \in Ids :
             /\ Runs(i) /\ \A j \in Ids : Runs(j) => i <= j
             /\ reports' = [reports EXCEPT ![i] = [state |-> "ended",
                              body |-> [@.body EXCEPT !.outcome = "restart"]]]
        /\ UNCHANGED <<up, allowed>>
     \/ (\A i \in Ids : ~Runs(i)) /\ up' = "up" /\ UNCHANGED <<reports, allowed>>
     \/ Spend("storeFault") /\ up' = "down" /\ UNCHANGED reports

----------------------------------------------------------------------------
Environment ==
  \/ \E m \in Members : ComesOrGoes(m) \/ \E r \in Roles : Edit(m, r)
  \/ \E m \in Members, R \in SUBSET Roles : SetApproval(m, R)
  \/ Disconnect \/ Reconnect \/ ListArrives
  \/ \E line \in Texts, S \in SUBSET Members : Renamed(line, S)
  \/ \E i \in DOMAIN roster, m \in Members : RosterChanges(i, m)

Page ==
  \/ OpenPreview \/ (\E i \in Ids : OpenRetry(i) \/ PressRetry(i) \/ Stop(i))
  \/ (\E scope \in Scopes : PressPurge(scope)) \/ PressReAdd
  \/ ConfirmRemoval \/ ConfirmAdd \/ ConfirmRoster \/ ConfirmRefused

Works == Plan \/ Open \/ Await \/ MakeChange \/ Clear \/ Write \/ EndWrite \/ Release
Pauses == PollReady \/ PauseStops \/ PauseLimit
Runtime ==
  \/ Claim \/ Busy \/ Works \/ Pauses \/ Panic
  \/ \E e \in late : EndLate(e)
  \/ \E c \in CommandRuns : StartCommand(c) \/ EndCommand(c)
Process == Crash \/ Boot \/ EndCutOff

Next == Environment \/ Page \/ Runtime \/ Process

(* Every call to Discord and the store returns, a pause has its limit, a   *)
(* late end write its timer, and the process is started again.             *)
Fairness ==
  /\ WF_vars(Claim \/ Busy) /\ WF_vars(Works) /\ WF_vars(Pauses)
  /\ \A i \in Ids : WF_vars(\E e \in late : e.id = i /\ EndLate(e))
  /\ WF_vars(Boot) /\ WF_vars(EndCutOff)

Spec == Init /\ [][Next]_vars /\ Fairness

----------------------------------------------------------------------------
(* Properties                                                              *)

(* A report tells the truth about Discord: whom it lists as changed was    *)
(* changed by its own action, and once it ended other than by a restart it *)
(* lists everybody its action changed, as changed or, when the answer was  *)
(* lost, as failed; whatever writes, answers or connections failed.        *)
ReportTrue ==
  \A i \in Ids :
    LET b == reports[i].body IN
      /\ b.changed \subseteq took[i] /\ b.cleared \subseteq b.changed
      /\ reports[i].state = "ended" /\ b.outcome # "restart"
           => took[i] \subseteq b.changed \cup Range(b.failed)

(* Each planned change is in one list of the run's report, and only one,   *)
(* so that a Retry misses nobody and repeats nobody, also after a panic.   *)
EachInOneList ==
  run.id # NoReport =>
    LET b == run.body IN
      /\ Range(run.plan) = b.changed \cup b.skipped \cup Range(b.failed) \cup Range(b.todo)
      /\ Len(run.plan) = Cardinality(b.changed) + Cardinality(b.skipped)
                           + Len(b.failed) + Len(b.todo)

(* A removal, an add or a roster add changes nobody its manager did not    *)
(* see in the preview confirmed, though names, the roster and the list     *)
(* may have changed since, and a Retry nobody its report did not miss.     *)
OnlyTheShown ==
  (run.spec.kind \in {"removal", "add", "roster add"} \/ run.spec.retry)
    => {run.plan[k].who : k \in DOMAIN run.plan} \subseteq run.saw

(* An action ends stopped only when a page that showed its own report      *)
(* asked for that, never by the Stop of a page left open on another.       *)
OnlyAskedStops == \A i \in Ids : reports[i].body.outcome = "stopped" => i \in pressed

(* Nobody is changed, and nothing stopped, but as a manager saw and asked. *)
StartsAsShown == OnlyTheShown /\ OnlyAskedStops

(* Once Stop is pressed Discord makes at most the change in flight.        *)
StopStops == overrun <= 1

(* A report that says its action runs has one: it runs, or its end write   *)
(* goes on in the background, or the next start of the process ends it.    *)
(* Only an insert whose answer was lost leaves one nobody ends till then.  *)
NothingOrphaned ==
  \A i \in Ids :
    Runs(i) => i \in unheard \/ run.id = i \/ up # "up" \/ \E e \in late : e.id = i

(* What a report says is so, of Discord, of its plan and of its run.       *)
ReportTells == ReportTrue /\ EachInOneList /\ NothingOrphaned

(* A Retry of an add names the members its report missed, whoever bears    *)
(* what as a name by then (openRetry: "A line naming a member's ID matches *)
(* them alone").                                                           *)
RetryNamesTheMissed ==
  preview.kind = "add" =>
    \A k \in DOMAIN preview.rows :
      preview.rows[k] \in Members => preview.named[k] \subseteq {preview.rows[k]}

(* Foxhole implements FoxholeRule.                                         *)
Rule == INSTANCE FoxholeRule WITH
  held <- IF run.at = "none" THEN 0 ELSE claims,
  opened <- run.at \notin {"none", "plan", "open"},
  open <- {i \in Ids : reports[i].state = "running"},
  closed <- {i \in Ids : reports[i].state = "ended"}
RuleSpec == Rule!Spec

(* Every report ends, and the rule comes back.                             *)
ReportsEnd == \A i \in Ids : []<>(Runs(i) => i \in unheard)
RuleComesBack == []<>(run.at = "none")
RunsEnd == []StopStops /\ ReportsEnd /\ RuleComesBack
=============================================================================
