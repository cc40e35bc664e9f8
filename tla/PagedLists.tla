----------------------------- MODULE PagedLists -----------------------------
(***************************************************************************)
(* A list too long for one message (commands/paged_reply.go, /loa and      *)
(* /awol): its lines laid out as pages, the pages saved before the reply   *)
(* shows the first, the presses on its arrows, each on a goroutine of its  *)
(* own, and the hourly sweep of old pages (paged_list_sweep.go).           *)
(*                                                                         *)
(* A line is its heading and its length; a page is the range of its lines. *)
(* Time goes by in units of which Retention make up the 30 days.           *)
(***************************************************************************)
EXTENDS Naturals, Sequences

CONSTANTS
  Runner,      \* who ran the command
  Readers,     \* everyone who presses an arrow, the runner too
  TextLengths, \* lengths of lines
  MaxLines,    \* bound: lines of the list
  PageLimit,   \* what a page's embed takes
  Retention,   \* how long saved pages last
  MaxDays,     \* bound: time
  PagesSets    \* how often each kind of disturbance may happen: bounds

PagesKinds == {"press", "store", "lost", "refuse", "crash"}
Headings == 1 .. 2
HeadingLength == 1
Lines == [heading : Headings, length : TextLengths]

ASSUME PagesAssumption ==
  /\ Runner \in Readers /\ TextLengths \subseteq Nat /\ MaxLines \in Nat /\ MaxDays \in Nat
  /\ PageLimit \in Nat /\ Retention \in Nat /\ PagesSets \subseteq [PagesKinds -> Nat]
  /\ \A n \in TextLengths : 2 + n + HeadingLength <= PageLimit

VARIABLES
  entries,   \* the lines the command lists
  days,      \* the time
  reply,     \* the command's reply: its step, and the page and arrows it shows
  stored,    \* the saved pages: there, and when they ran
  copies,    \* per reader, the page their private copy shows, 0 for none
  press,     \* per reader, the press being answered
  sweep,     \* the sweep: its pass due, its next set, or none of a process down
  pagesLeft  \* disturbances still to come, by kind

pagesVars == <<entries, days, reply, stored, copies, press, sweep, pagesLeft>>

NoPress == [at |-> "none", on |-> "list", page |-> 0, now |-> 0, read |-> 0]
PagesTypeOK ==
  /\ entries \in Seq(Lines) /\ days \in 0 .. MaxDays
  /\ reply.at \in {"laid", "saved", "unsaved", "shown", "lost"}
  /\ reply.page \in 0 .. MaxLines /\ reply.ran \in 0 .. days
  /\ stored \in BOOLEAN /\ sweep \in {"due", "done", "never", "none"}
  /\ copies \in [Readers -> 0 .. MaxLines]
  /\ \A r \in Readers :
       press[r].at \in {"none", "pressed", "page", "expired", "unreadable"}
  /\ pagesLeft \in [PagesKinds -> Nat]

Befalls(k) == pagesLeft[k] > 0 /\ pagesLeft' = [pagesLeft EXCEPT ![k] = @ - 1]

-----------------------------------------------------------------------------
(* pageText: what a line adds to a page whose last line ran under heading  *)
(* h, 0 for an empty page: its heading where it opens a section.           *)
TextLength(h, l) ==
  l.length + 1 + (IF h = l.heading THEN 0 ELSE HeadingLength + 1) + (IF h \in {0, l.heading} THEN 0 ELSE 1)

(* Wrong on purpose, to test PagesRight: the line that opens a page is     *)
(* counted as it was for the page before.                                  *)
OpensAs(h, l) == [first |-> 0, size |-> TextLength(h, l)]
(* A line that does not fit opens the next page, its heading repeated.     *)
OpensWith(h, l) == [first |-> 0, size |-> TextLength(0, l)]

(* pagedDescriptions: per line, the page it is on and that page's length   *)
(* with it.                                                                *)
Laid(q) ==
  LET laid[i \in 1 .. Len(q)] ==
        IF i = 1 THEN [page |-> 1, size |-> TextLength(0, q[1])]
        ELSE LET before == laid[i - 1]
                 text == TextLength(q[i - 1].heading, q[i]) IN
             IF before.size + text > PageLimit
             THEN [page |-> before.page + 1, size |-> OpensWith(q[i - 1].heading, q[i]).size]
             ELSE [page |-> before.page, size |-> before.size + text]
  IN laid
Total == Laid(entries)[Len(entries)].page

(* What a page holds, read on its own: each section under its heading.     *)
PageLines(p) == {i \in DOMAIN entries : Laid(entries)[i].page = p}
PageLength(p) ==
  LET length[i \in 0 .. Len(entries)] ==
        IF i = 0 THEN 0
        ELSE length[i - 1] +
               (IF i \notin PageLines(p) THEN 0
                ELSE TextLength(IF i - 1 \in PageLines(p) THEN entries[i - 1].heading ELSE 0, entries[i]))
  IN length[Len(entries)]

PagesInit ==
  /\ entries \in UNION {[1 .. n -> Lines] : n \in 1 .. MaxLines}
  /\ days = 0 /\ stored = FALSE /\ sweep = "due" /\ pagesLeft \in PagesSets
  /\ reply = [at |-> "laid", page |-> 0, arrows |-> FALSE, ran |-> 0]
  /\ copies = [r \in Readers |-> 0] /\ press = [r \in Readers |-> NoPress]

-----------------------------------------------------------------------------
(* savePagedList: the pages of a list of more than one.                    *)
Save ==
  /\ reply.at = "laid" /\ UNCHANGED <<entries, days, copies, press, sweep>>
  /\ IF Total = 1 THEN reply' = [reply EXCEPT !.at = "unsaved"] /\ UNCHANGED <<stored, pagesLeft>>
     ELSE \/ /\ reply' = [reply EXCEPT !.at = "saved", !.ran = days] /\ stored' = TRUE
             /\ UNCHANGED pagesLeft
          \/ reply' = [reply EXCEPT !.at = "unsaved"] /\ UNCHANGED stored /\ Befalls("store")
          \/ /\ reply' = [reply EXCEPT !.at = "unsaved", !.ran = days]
             /\ stored' = TRUE /\ Befalls("lost")

(* Wrong on purpose, to test PagesRight: arrows lead to unsaved pages too. *)
ArrowsAnyway == Total > 1
(* pageArrows, both disabled without a key.                                *)
Arrows == reply.at = "saved"

(* sendPagedList's edit of the reply, with page 1.                         *)
Show ==
  /\ reply.at \in {"saved", "unsaved"} /\ UNCHANGED <<entries, days, stored, copies, press, sweep>>
  /\ \/ reply' = [reply EXCEPT !.at = "shown", !.page = 1, !.arrows = Arrows] /\ UNCHANGED pagesLeft
     \/ reply' = [reply EXCEPT !.at = "lost"] /\ Befalls("refuse")

(* A reader presses an arrow of the reply, or of their own copy: one leads *)
(* a page back and is disabled on the first, the other a page on.          *)
Press(r) ==
  /\ press[r] = NoPress /\ reply.at = "shown" /\ reply.arrows /\ sweep # "none" /\ Befalls("press")
  /\ \E on \in {"list", "copy"}, p \in 1 .. Total :
       LET shown == IF on = "list" THEN reply.page ELSE copies[r] IN
         /\ shown # 0 /\ (p = shown + 1 \/ p + 1 = shown)
         /\ press' = [press EXCEPT ![r] = [at |-> "pressed", on |-> on, page |-> p, now |-> days, read |-> 0]]
  /\ UNCHANGED <<entries, days, reply, stored, copies, sweep>>

(* Wrong on purpose, to test PagesRight: pages show as long as they are    *)
(* stored.                                                                 *)
NeverOld(now, ran) == FALSE
Old(now, ran) == now >= ran + Retention

(* runPagedListPress's read of its page.                                   *)
Answers(r, at) == press' = [press EXCEPT ![r].at = at, ![r].read = days]
Read(r) ==
  /\ press[r].at = "pressed" /\ UNCHANGED <<entries, days, reply, stored, copies, sweep>>
  /\ \/ /\ Answers(r, IF stored /\ ~Old(press[r].now, reply.ran) THEN "page" ELSE "expired")
        /\ UNCHANGED pagesLeft
     \/ Answers(r, "unreadable") /\ Befalls("store")

(* Wrong on purpose, to test PagesRight: anyone flips the reply.           *)
AnyonesReply(r) == press[r].on = "list"
(* The runner flips the reply; a copy flips in place.                      *)
Flips(r) == press[r].on = "list" /\ r = Runner

(* answerPress: the page in place, a private copy of it, or a private note.*)
AnswerPress(r) ==
  /\ press[r].at \in {"page", "expired", "unreadable"} /\ press' = [press EXCEPT ![r] = NoPress]
  /\ UNCHANGED <<entries, days, stored, sweep>>
  /\ \/ /\ UNCHANGED pagesLeft
        /\ IF press[r].at # "page" THEN UNCHANGED <<reply, copies>>
           ELSE IF Flips(r) THEN reply' = [reply EXCEPT !.page = press[r].page] /\ UNCHANGED copies
           ELSE copies' = [copies EXCEPT ![r] = press[r].page] /\ UNCHANGED reply
     \/ Befalls("refuse") /\ UNCHANGED <<reply, copies>>

-----------------------------------------------------------------------------
(* Wrong on purpose, to test PagesRight: the sweep takes a list a unit     *)
(* early.                                                                  *)
Swept(ran) == days + 1 > ran + Retention
(* DeletePagedListsBefore: lists run more than Retention ago.              *)
Past(ran) == days > ran + Retention

(* Wrong on purpose, to test DeskEnds: no pass follows a failed one.       *)
PassUnless(failed) == IF failed THEN "never" ELSE "done"
PassAfter(failed) == "done"

(* sweepPagedLists, and its next pass set, in an hour.                     *)
Sweep ==
  /\ sweep = "due" /\ UNCHANGED <<entries, days, reply, copies, press>>
  /\ \/ stored' = (stored /\ ~Past(reply.ran)) /\ sweep' = PassAfter(FALSE) /\ UNCHANGED pagesLeft
     \/ UNCHANGED stored /\ sweep' = PassAfter(TRUE) /\ Befalls("store")
PassDue ==
  /\ sweep = "done" /\ stored /\ Past(reply.ran) /\ sweep' = "due"
  /\ UNCHANGED <<entries, days, reply, stored, copies, press, pagesLeft>>

Day ==
  /\ days < MaxDays /\ days' = days + 1 /\ sweep' = IF sweep = "done" THEN "due" ELSE sweep
  /\ UNCHANGED <<entries, reply, stored, copies, press, pagesLeft>>

(* The process ends, with the command and the presses it was at.           *)
PagesCrash ==
  /\ sweep # "none" /\ Befalls("crash") /\ sweep' = "none"
  /\ press' = [r \in Readers |-> NoPress]
  /\ reply' = IF reply.at = "shown" THEN reply ELSE [reply EXCEPT !.at = "lost"]
  /\ UNCHANGED <<entries, days, stored, copies>>
(* The next one starts the sweep anew.                                     *)
PagesStart == sweep = "none" /\ sweep' = "due" /\ UNCHANGED <<entries, days, reply, stored, copies, press, pagesLeft>>

PressSteps == \E r \in Readers : Read(r) \/ AnswerPress(r)
SweepSteps == Sweep \/ PassDue \/ Day
PagesNext ==
  Save \/ Show \/ PressSteps \/ SweepSteps \/ PagesCrash \/ PagesStart \/ \E r \in Readers : Press(r)
=============================================================================
