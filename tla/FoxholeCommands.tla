-------------------------- MODULE FoxholeCommands --------------------------
(***************************************************************************)
(* The role-changing Foxhole commands: /foxhole add, remove, bulkadd and   *)
(* purge (commands/foxhole.go) and the roster add command                  *)
(* (foxhole_bulkadd_internal.go), beside one another and beside the one    *)
(* action of the Foxhole page that keeps them out.  A purge makes a role   *)
(* again: it creates a new one, gives it the old one's channel overwrites  *)
(* one by one, and deletes the old.                                        *)
(*                                                                         *)
(* One action is one call to Discord.  Replies are kept as their outcome.  *)
(***************************************************************************)
EXTENDS Naturals, FiniteSets, Sequences, Functions

CONSTANTS
  Runs,              \* runs of a command
  RoleNames,         \* the Foxhole roles' names, Internal first: a sequence
  RoleIds,           \* IDs Discord gives to roles, in order
  NoName, NoRole,    \* a role that is not there, and no role ID
  Channels,          \* channels with an overwrite for a Foxhole role
  Targets,           \* members a command names, in the order typed
  MaxEntries,        \* maxBulkAddEntries
  CommandAllowances  \* how often each kind of disturbance may happen: bounds

CommandDisturbances == {"purge", "add", "remove", "bulkadd", "roster", "commandFault", "pages", "crash"}

ASSUME CommandsAssumption ==
  /\ IsFiniteSet(Runs) /\ IsFiniteSet(RoleIds) /\ RoleIds \subseteq Nat /\ 1 .. 2 \subseteq RoleIds
  /\ RoleNames \in Seq(Range(RoleNames)) /\ Len(RoleNames) = 2 /\ RoleNames[1] # RoleNames[2]
  /\ Targets \in Seq(Range(Targets)) /\ Targets # <<>> /\ MaxEntries \in Nat
  /\ NoRole \notin RoleIds /\ NoName \notin Range(RoleNames)
  /\ CommandAllowances \subseteq [CommandDisturbances -> Nat]

VARIABLES
  guild,       \* the roles of the server: name, overwrites, holders
  command,     \* the runs
  made,        \* the last role ID Discord gave
  pageRuns,    \* an action of the page runs
  commandLeft  \* disturbances still to come, by kind

commandVars == <<guild, command, made, pageRuns, commandLeft>>

Gone == [name |-> NoName, on |-> {}, held |-> {}]
Resting == [at |-> "none", kind |-> "add", names |-> <<>>, ids |-> <<>>, todo |-> <<>>,
            over |-> [i \in RoleIds |-> {}], new |-> NoRole, left |-> {}, lines |-> {},
            told |-> "nothing"]
There(i) == guild[i].name # NoName
WithName(name) == {i \in RoleIds : guild[i].name = name}
MayRun(k) == commandLeft[k] > 0 /\ commandLeft' = [commandLeft EXCEPT ![k] = @ - 1]
Fault == MayRun("commandFault")
HoldsRule(c) == command[c].at \notin {"none", "told"}
Purging(c) == HoldsRule(c) /\ command[c].kind = "purge"

Outcomes == {"changed", "failed", "recreated", "partial"}
Endings == {"nothing", "refused", "no start", "too many", "no role", "Discord error", "summary",
            "channel", "lost"}
RunStates ==
  [at : {"none", "resolve", "change", "channels", "create", "reapply", "undo", "deliver", "told"},
   kind : CommandDisturbances, names : Seq(Range(RoleNames)), ids : Seq(RoleIds),
   todo : Seq(Range(Targets)), over : [RoleIds -> SUBSET Channels], new : RoleIds \cup {NoRole},
   left : SUBSET Channels, lines : SUBSET ((Range(RoleNames) \cup Range(Targets)) \X Outcomes), told : Endings]
CommandsTypeOK ==
  /\ guild \in [RoleIds -> [name : Range(RoleNames) \cup {NoName}, on : SUBSET Channels,
                            held : SUBSET Range(Targets)]]
  /\ command \in [Runs -> RunStates]
  /\ made \in RoleIds /\ pageRuns \in BOOLEAN
  /\ commandLeft \in [CommandDisturbances -> Nat]

CommandsInit ==
  /\ guild = [i \in RoleIds |-> IF i \in 1 .. Len(RoleNames)
                THEN [Gone EXCEPT !.name = RoleNames[i], !.on = Channels] ELSE Gone]
  /\ command = [c \in Runs |-> Resting] /\ made = Len(RoleNames) /\ pageRuns = FALSE
  /\ commandLeft \in CommandAllowances

Steps(c, r) == command' = [command EXCEPT ![c] = r]
Still == UNCHANGED <<made, pageRuns>>
Quietly(c, r) == Steps(c, r) /\ UNCHANGED guild /\ Still

(* A run ends with its reply, and gives the rule back.                     *)
(* Wrong on purpose, to test DeskEnds: a run that ends early keeps it.     *)
RepliesOnly(r, reply) == [r EXCEPT !.at = "stuck", !.told = reply]
Replies(r, reply) == [r EXCEPT !.at = "told", !.told = reply]

----------------------------------------------------------------------------
Scoped(scope) == IF scope = "both" THEN RoleNames ELSE <<scope>>

Alone(kind) == kind \in {"add", "remove"}

(* A command is refused while an action of the page runs, else it takes    *)
(* the rule.  An acknowledgement Discord refuses ends the run before it    *)
(* changes a role.                                                         *)
Invoke(c) ==
  \E kind \in CommandDisturbances \ {"commandFault", "pages", "crash"},
     scope \in Range(RoleNames) \cup {"both"} :
    LET run == [Resting EXCEPT !.kind = kind,
                  !.names = IF kind = "roster" THEN <<RoleNames[1]>> ELSE Scoped(scope),
                  !.todo = IF Alone(kind) THEN <<Head(Targets)>> ELSE Targets]
    IN /\ command[c].at = "none" /\ MayRun(kind) /\ UNCHANGED <<guild, made, pageRuns>>
       /\ Steps(c, IF pageRuns THEN Replies(run, "refused") ELSE [run EXCEPT !.at = "resolve"])

AckFails(c) ==
  command[c].at = "resolve" /\ Fault /\ Quietly(c, Replies(command[c], "no start"))

(* A bulkadd of too many entries ends before any call to Discord.  Then    *)
(* the role IDs by name: a name no role has ends the run.                  *)
TooMany(r) == r.kind = "bulkadd" /\ Len(r.todo) > MaxEntries
Resolve(c) ==
  LET r == command[c] IN
    /\ r.at = "resolve"
    /\ \/ TooMany(r) /\ Quietly(c, Replies(r, "too many")) /\ UNCHANGED commandLeft
       \/ /\ ~TooMany(r) /\ \A k \in DOMAIN r.names : WithName(r.names[k]) # {}
          /\ \E ids \in [DOMAIN r.names -> RoleIds] :
               /\ \A k \in DOMAIN ids : ids[k] \in WithName(r.names[k])
               /\ Quietly(c, [r EXCEPT !.at = IF r.kind = "purge" THEN "channels" ELSE "change",
                                       !.ids = ids])
          /\ UNCHANGED commandLeft
       \/ /\ \E k \in DOMAIN r.names : WithName(r.names[k]) = {}
          /\ Quietly(c, Replies(r, "no role")) /\ UNCHANGED commandLeft
       \/ Fault /\ Quietly(c, Replies(r, "Discord error"))

----------------------------------------------------------------------------
(* add, remove, bulkadd and the roster add                                 *)

(* How the summary lists a member.                                         *)
Listed(m, fails) == <<m, IF fails = {} THEN "changed" ELSE "failed">>

(* The next member: each of the roles in order.  A lookup or a change that *)
(* fails ends an add and a remove, after the roles already changed; a bulk *)
(* add and a roster add go on and list the member.  S is what Discord      *)
(* changed, and heard what it answered so: an answer lost is a failure.    *)
Change(c) ==
  LET r == command[c]
      m == Head(r.todo)
      before(k) == {r.ids[j] : j \in 1 .. k - 1}
  IN /\ r.at = "change" /\ Still
     /\ \E S \in SUBSET {i \in Range(r.ids) : There(i)} : \E heard \in SUBSET S :
          LET fails == {k \in DOMAIN r.ids :
                          r.ids[k] \notin heard /\ (Alone(r.kind) => before(k) \subseteq heard)}
              next == [r EXCEPT !.lines = @ \cup {Listed(m, fails)}, !.todo = Tail(@)]
          IN /\ Alone(r.kind) => \A k \in DOMAIN r.ids : r.ids[k] \in S => before(k) \subseteq heard
             /\ IF \E k \in fails : There(r.ids[k]) THEN Fault ELSE UNCHANGED commandLeft
             /\ guild' = [i \in RoleIds |-> IF i \notin S THEN guild[i]
                            ELSE [guild[i] EXCEPT !.held = IF r.kind = "remove" THEN @ \ {m}
                                                          ELSE @ \cup {m}]]
             /\ Steps(c, IF next.todo = <<>> THEN Replies(next, "summary") ELSE next)

----------------------------------------------------------------------------
(* The purge                                                               *)

(* The overwrites are read once, for both roles.                           *)
ReadChannels(c) ==
  LET r == command[c] IN
    /\ r.at = "channels"
    /\ \/ /\ Quietly(c, [r EXCEPT !.at = "create", !.over = [i \in RoleIds |-> guild[i].on]])
          /\ UNCHANGED commandLeft
       \/ Fault /\ Quietly(c, Replies(r, "Discord error"))

(* The end of one role, as outcome: the next one, or the summary.          *)
RoleDone(r, outcome) ==
  [r EXCEPT !.lines = @ \cup {<<Head(r.names), outcome>>}, !.ids = Tail(@), !.names = Tail(@),
            !.new = NoRole, !.at = IF Len(r.ids) = 1 THEN "deliver" ELSE "create"]

(* The role is fetched and created anew, as it was, with no overwrites.    *)
(* When Discord creates it and the answer is lost, the run takes it for    *)
(* not created and goes on.                                                *)
Create(c) ==
  LET r == command[c]
      old == Head(r.ids)
      Creates == /\ There(old) /\ made + 1 \in RoleIds /\ made' = made + 1 /\ UNCHANGED pageRuns
                 /\ guild' = [guild EXCEPT ![made + 1] = [Gone EXCEPT !.name = guild[old].name]]
  IN /\ r.at = "create"
     /\ \/ /\ Creates /\ UNCHANGED commandLeft
           /\ Steps(c, [r EXCEPT !.new = made + 1, !.at = "reapply", !.left = r.over[old]])
        \/ Creates /\ Fault /\ Steps(c, RoleDone(r, "failed"))
        \/ ~There(old) /\ Quietly(c, RoleDone(r, "failed")) /\ UNCHANGED commandLeft
        \/ There(old) /\ Fault /\ Quietly(c, RoleDone(r, "failed"))

(* The overwrites, a channel at a time as Discord lists them.  One that    *)
(* fails, as it does when the new role is gone, undoes the recreate; a     *)
(* lost answer too, though the overwrite is there.                         *)
Reapply(c) ==
  LET r == command[c] IN
    /\ r.at = "reapply" /\ r.left # {} /\ Still
    /\ \/ /\ There(r.new)
          /\ \E ch \in r.left :
               /\ guild' = [guild EXCEPT ![r.new].on = @ \cup {ch}]
               /\ \/ Steps(c, [r EXCEPT !.left = @ \ {ch}]) /\ UNCHANGED commandLeft
                  \/ Steps(c, [r EXCEPT !.at = "undo"]) /\ Fault
       \/ ~There(r.new) /\ Steps(c, [r EXCEPT !.at = "undo"]) /\ UNCHANGED <<guild, commandLeft>>
       \/ There(r.new) /\ Fault /\ Steps(c, [r EXCEPT !.at = "undo"]) /\ UNCHANGED guild

(* Wrong on purpose, to test DeskTells: a role left behind is told of as   *)
(* recreated.                                                              *)
UndoUntold(c) ==
  LET r == command[c] IN
    /\ r.at = "undo" /\ Steps(c, RoleDone(r, "recreated")) /\ Still /\ Fault /\ UNCHANGED guild

(* The new role is deleted; a failure there, or a lost answer, is logged   *)
(* and no more.                                                            *)
Undo(c) ==
  LET r == command[c] IN
    /\ r.at = "undo" /\ Steps(c, RoleDone(r, "failed")) /\ Still
    /\ \/ guild' = [guild EXCEPT ![r.new] = Gone] /\ (Fault \/ UNCHANGED commandLeft)
       \/ Fault /\ UNCHANGED guild

(* The old role goes last.  If it does not, or the answer is lost, the     *)
(* summary says it lingers.                                                *)
DeleteOld(c) ==
  LET r == command[c]
      old == Head(r.ids)
  IN /\ r.at = "reapply" /\ r.left = {} /\ Still
     /\ \/ /\ There(old) /\ guild' = [guild EXCEPT ![old] = Gone]
           /\ \/ Steps(c, RoleDone(r, "recreated")) /\ UNCHANGED commandLeft
              \/ Steps(c, RoleDone(r, "partial")) /\ Fault
        \/ ~There(old) /\ Steps(c, RoleDone(r, "partial")) /\ UNCHANGED <<guild, commandLeft>>
        \/ There(old) /\ Fault /\ Steps(c, RoleDone(r, "partial")) /\ UNCHANGED guild

(* The summary edits the reply, or, its token expired, goes to the channel.*)
Deliver(c) ==
  LET r == command[c] IN
    /\ r.at = "deliver"
    /\ \/ \E way \in {"summary", "channel"} : Quietly(c, Replies(r, way)) /\ UNCHANGED commandLeft
       \/ Fault /\ Quietly(c, Replies(r, "lost"))

(* A panic of the purge gives the rule back too.                           *)
PurgePanics(c) ==
  Purging(c) /\ Fault /\ Quietly(c, Replies(command[c], "lost"))

(* The process dies: every run under way is over, and nobody is told of    *)
(* it; the rule is in memory only.                                         *)
Dies ==
  /\ MayRun("crash") /\ UNCHANGED <<guild, made>> /\ pageRuns' = FALSE
  /\ command' = [c \in Runs |-> IF HoldsRule(c) THEN Replies(command[c], "lost") ELSE command[c]]

----------------------------------------------------------------------------
PageStarts ==
  /\ ~pageRuns /\ (\A c \in Runs : ~HoldsRule(c)) /\ MayRun("pages") /\ pageRuns' = TRUE
  /\ UNCHANGED <<guild, command, made>>
PageEnds ==
  /\ pageRuns /\ pageRuns' = FALSE
  /\ UNCHANGED <<guild, command, made, commandLeft>>

CommandStep(c) ==
  Resolve(c) \/ Change(c) \/ ReadChannels(c) \/ Create(c) \/ Reapply(c) \/ Undo(c)
    \/ DeleteOld(c) \/ Deliver(c)
CommandsNext ==
  \/ \E c \in Runs : Invoke(c) \/ AckFails(c) \/ CommandStep(c) \/ PurgePanics(c)
  \/ PageStarts \/ PageEnds \/ Dies
CommandsFairness == \A c \in Runs : WF_commandVars(CommandStep(c))

----------------------------------------------------------------------------
(* Properties                                                              *)

SaysOf(c, name) == {outcome \in Outcomes : <<name, outcome>> \in command[c].lines}
Unsure(c, name) == {"failed", "partial"} \cap SaysOf(c, name) # {}
(* The operator of run c was told that something is not as it should be    *)
(* with a role of that name; or c died or lost its reply with one begun    *)
(* or unsure, and the operator was told nothing.                           *)
TellsOf(c, name) == command[c].told \in {"summary", "channel"} /\ Unsure(c, name)
CutOff(c, name) ==
  /\ command[c].told = "lost"
  /\ Unsure(c, name) \/ (command[c].new # NoRole /\ Head(command[c].names) = name)

(* However purges race and fail, and whatever answers are lost, no Foxhole *)
(* role is ever gone from the server, for the commands and the page find   *)
(* it by its name; and while no purge runs, every role of a name beyond    *)
(* the first has a purge of its own to answer for it, one whose summary    *)
(* reached the operator and said so or one that never got to say anything: *)
(* no summary that calls a role recreated leaves a second one of its name. *)
PurgesTell ==
  /\ \A k \in DOMAIN RoleNames : WithName(RoleNames[k]) # {}
  /\ (\A c \in Runs : ~Purging(c)) =>
       \A k \in DOMAIN RoleNames :
         LET name == RoleNames[k] IN
           Cardinality(WithName(name)) <= 1 + Cardinality({c \in Runs : TellsOf(c, name) \/ CutOff(c, name)})

(* A role that a summary calls not recreated left nothing behind ("nothing *)
(* usable was left behind", runFoxholePurge): a second role of a name is   *)
(* told of as one that lingers, by a run that got to tell.                 *)
NothingLeftBehind ==
  (\A c \in Runs : ~Purging(c) /\ command[c].told # "lost") =>
    \A k \in DOMAIN RoleNames :
      Cardinality(WithName(RoleNames[k])) <=
        1 + Cardinality({c \in Runs : "partial" \in SaysOf(c, RoleNames[k])})

(* Every run that took the rule gives it back, whichever way it ends.      *)
CommandsEnd == \A c \in Runs : []<>~HoldsRule(c)
=============================================================================
