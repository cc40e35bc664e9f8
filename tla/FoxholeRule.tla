---------------------------- MODULE FoxholeRule ----------------------------
(***************************************************************************)
(* What the Foxhole page and the Foxhole commands promise one another and  *)
(* a reader of the reports: at most one action of the page holds the rule, *)
(* never beside a command; an action opens at most one report while it     *)
(* holds the rule; a report that was opened is closed once and for good.   *)
(* Module Foxhole implements it.                                           *)
(***************************************************************************)
EXTENDS Naturals

CONSTANTS Ids, CommandRuns

VARIABLES
  held,      \* the number of the action that holds the rule, 0 for none
  opened,    \* that action has opened its report
  commands,  \* the role-changing commands that run
  open,      \* reports that say their action runs
  closed     \* reports that ended

vars == <<held, opened, commands, open, closed>>

Init == held = 0 /\ ~opened /\ commands = {} /\ open = {} /\ closed = {}

(* Another action may hold the rule only once the one before gave it back. *)
Claim ==
  /\ held = 0 /\ commands = {} /\ held' \in Nat \ {0}
  /\ UNCHANGED <<opened, commands, open, closed>>

Open(i) ==
  /\ held # 0 /\ ~opened /\ opened' /\ i \notin open \cup closed
  /\ open' = open \cup {i} /\ UNCHANGED <<held, commands, closed>>

Close(i) ==
  /\ i \in open /\ open' = open \ {i} /\ closed' = closed \cup {i}
  /\ UNCHANGED <<held, opened, commands>>

Free == held # 0 /\ held' = 0 /\ ~opened' /\ UNCHANGED <<commands, open, closed>>

StartCommand(c) ==
  /\ held = 0 /\ c \notin commands /\ commands' = commands \cup {c}
  /\ UNCHANGED <<held, opened, open, closed>>

EndCommand(c) ==
  /\ c \in commands /\ commands' = commands \ {c}
  /\ UNCHANGED <<held, opened, open, closed>>

(* The process dies: nothing runs, and the reports stay as they are.       *)
Die == held' = 0 /\ ~opened' /\ commands' = {} /\ UNCHANGED <<open, closed>>

Next ==
  \/ Claim \/ Free \/ Die
  \/ \E i \in Ids : Open(i) \/ Close(i)
  \/ \E c \in CommandRuns : StartCommand(c) \/ EndCommand(c)

Spec == Init /\ [][Next]_vars
=============================================================================
