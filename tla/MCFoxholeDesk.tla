--------------------------- MODULE MCFoxholeDesk ---------------------------
(* One run checks the parts of the Foxhole desk that share no state, and   *)
(* the paged lists the LOA and AWOL commands reply with: the records, the  *)
(* commands, the replies, a list's pages or its layout, whichever WHICH    *)
(* says.                                                                   *)
EXTENDS FoxholeRecords, FoxholeCommands, FoxholeReplies, PagedLists, TLC

CONSTANTS a, b, t1, t2, internal, external
VARIABLE which

SaveAtMost(f) == [k \in SaveDisturbances |-> IF k \in DOMAIN f THEN f[k] ELSE 0]
SaveSets == {SaveAtMost([saves |-> 3, roles |-> 1]),
             SaveAtMost([saves |-> 2, roles |-> 2, saveFault |-> 1])}

CommandAtMost(f) == [k \in CommandDisturbances |-> IF k \in DOMAIN f THEN f[k] ELSE 0]
CommandSets ==
  {CommandAtMost([purge |-> 1, commandFault |-> 2, crash |-> 1]),
   CommandAtMost([purge |-> 2, commandFault |-> 1]), CommandAtMost([purge |-> 2, crash |-> 1]),
   CommandAtMost([add |-> 1, bulkadd |-> 1, pages |-> 1, commandFault |-> 1]),
   CommandAtMost([remove |-> 1, roster |-> 1, purge |-> 1])}
TwoNames == <<internal, external>>
TwoChannels == {"ch1", "ch2"}
TwoTargets == <<a, b>>

PagesAtMost(f) == [k \in PagesKinds |-> IF k \in DOMAIN f THEN f[k] ELSE 0]
PagesAllowances ==
  {PagesAtMost(f) : f \in
    {[press |-> 2, lost |-> 1], [press |-> 2, store |-> 1], [press |-> 2, crash |-> 1],
     [press |-> 1, refuse |-> 1, store |-> 1]}}
ALine == CHOOSE l \in Lines : TRUE
(* A list of one page, and one of a page for each of its lines.            *)
ListsRun == {<<ALine>>, [i \in 1 .. 3 |-> [heading |-> 1 + (i % 2), length |-> 4]]}

all == <<which, recordsVars, commandVars, repliesVars, pagesVars>>
AtRest(f, S) == f = CHOOSE g \in S : TRUE
Init ==
  /\ which \in {"records", "commands", "replies", "pages", "layout"}
  /\ RecordsInit /\ (which # "records" => AtRest(saveLeft, SaveSets) /\ \A m \in Members : listed[m] = {})
  /\ CommandsInit /\ (which # "commands" => AtRest(commandLeft, CommandSets))
  /\ RepliesInit
  /\ PagesInit /\ (which # "pages" => AtRest(pagesLeft, PagesAllowances))
  /\ entries \in CASE which = "layout" -> Seq(Lines) [] which = "pages" -> ListsRun [] OTHER -> {<<ALine>>}
besideRecords == <<which, commandVars, repliesVars, pagesVars>>
besideCommands == <<which, recordsVars, repliesVars, pagesVars>>
besideReplies == <<which, recordsVars, commandVars, pagesVars>>
besidePages == <<which, recordsVars, commandVars, repliesVars>>
OfPages(A) == which = "pages" /\ A /\ UNCHANGED besidePages
Next ==
  \/ which = "records" /\ RecordsNext /\ UNCHANGED besideRecords
  \/ which = "commands" /\ CommandsNext /\ UNCHANGED besideCommands
  \/ which = "replies" /\ RepliesNext /\ UNCHANGED besideReplies
  \/ OfPages(PagesNext)
Spec ==
  /\ Init /\ [][Next]_all
  /\ \A s \in Saves : WF_all(which = "records" /\ SaveStep(s) /\ UNCHANGED besideRecords)
  /\ \A c \in Runs : WF_all(which = "commands" /\ CommandStep(c) /\ UNCHANGED besideCommands)
  /\ WF_all(OfPages(PressSteps)) /\ WF_all(OfPages(SweepSteps)) /\ WF_all(OfPages(PagesStart))

(* Each part keeps to its types; and what an approval, a clear and a purge *)
(* leave is told.                                                          *)
TypesOK == RecordsTypeOK /\ CommandsTypeOK /\ PagesTypeOK
DeskTells == TypesOK /\ RecordsTell /\ PurgesTell

(* Each page fits its embed, read on its own (pagedDescriptions).  Arrows  *)
(* that work lead to pages the store has, until they are past their date,  *)
(* whatever failed; a press shows no page of a list out of its date and    *)
(* calls none expired before; and only the runner turns the reply's page   *)
(* (sendPagedList, runPagedListPress, sweepPagedLists).                    *)
PagesRight ==
  /\ [](which = "layout" => \A p \in 1 .. Total : PageLength(p) <= PageLimit)
  /\ [](which = "pages" =>
         /\ reply.at = "shown" /\ reply.arrows /\ days <= reply.ran + Retention => stored
         /\ \A r \in Readers :
              /\ press[r].at = "page" => press[r].now < reply.ran + Retention
              /\ press[r].at = "expired" => press[r].read >= reply.ran + Retention)
  /\ [][reply.at = "shown" /\ reply'.page # reply.page =>
          press[Runner].at = "page" /\ press'[Runner] = NoPress]_all

(* Every press is answered, and the sweep takes what is past its date.     *)
PagesSettle ==
  /\ \A r \in Readers : []<>(press[r] = NoPress)
  /\ []<>~(stored /\ Past(reply.ran))

(* Every save of a manager and every run of a command ends, and every      *)
(* press and every old list.                                               *)
DeskEnds == SavesEnd /\ CommandsEnd /\ PagesSettle
=============================================================================
