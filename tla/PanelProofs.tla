----------------------------- MODULE PanelProofs -----------------------------
(***************************************************************************)
(* What a save of the panel leaves behind, for any number of saves, hubs,  *)
(* values and disturbances: the store, its change log and the runtime      *)
(* agree, a save does what its user saw and asked, and a session ended     *)
(* stays ended.                                                            *)
(*                                                                         *)
(* The steps of a save are first put in six kinds by what they may change: *)
(* the form alone (Quiet), the channels (RenameMove, MakeMove, UndoMove),  *)
(* the store (WriteMove) and the runtime (ApplyMove).  A store write is    *)
(* one of three (Written, Added, Removed), whoever makes it.  Then each    *)
(* part of the invariant has one case per kind.                            *)
(***************************************************************************)
EXTENDS MCPanel, FiniteSetTheorems, TLAPS

(* The fields of a save.                                                   *)
Ops == Adds \cup {"update", "remove", "set"}
Places == Locked \cup
  {"idle", "loading", "form", "wait", "queue", "stale", "refused", "gone", "error", "done",
   "no data", "already", "broken", "unchanged", "preview shown"}
ChanNames == Names \cup {Typed, None, Deleted}
FormType ==
  [at : Places, op : Ops, r : Rows, ver : Nat, val : Values \cup {None}, shown : Nat,
   loaded : ChanNames, name : ChanNames, count : 0 .. NoCount, before : Values \cup {None},
   ch : Chans \cup {Nowhere}, renamed : BOOLEAN]

(* The types of the variables, the saves' and the writers' with them.      *)
PTypes ==
  /\ row \in [Rows -> [ver : Nat, val : Values \cup {None}, ch : Chans \cup {Nowhere}]]
  /\ log \in [Rows -> [tells : Values \cup {None}, broken : BOOLEAN]]
  /\ given \in 0 .. MaxHubs
  /\ runtime \in [Chans \cup {Nowhere} -> [r : Rows, val : Values \cup {None}]]
  /\ chan \in [Chans -> ChanNames]
  /\ members \in 0 .. MaxMembers /\ listed \in BOOLEAN /\ lock \in Saves \cup {Nobody}
  /\ panelLeft \in [PanelKinds -> Nat]
  /\ save \in [Saves -> FormType]
  /\ teller \in [Rows -> {"here", "else"}]
(* The save lock is held by the save between its read and its answer.      *)
Holds == \A s \in Saves : lock = s <=> save[s].at \in Locked

(* A hub that was, and is no more: its row never lives again.              *)
Gone(r, rows, ids) == r # Section /\ r <= ids /\ ~(rows[r].ver > 0)
(* What is true of a form, given the rows: what it read is what the row     *)
(* holds, until the row is at another version.                             *)
GoodIn(f, rows, ids) ==
  /\ f.op = "set" <=> f.r = Section
  /\ f.op \in {"update", "remove"} => f.r <= ids
  /\ f.op \notin Adds =>
       \/ Gone(f.r, rows, ids)
       \/ f.ver <= rows[f.r].ver /\ (f.at # "loading" => f.ver <= f.shown)
  /\ f.op \notin Adds /\ f.at \in {"check", "rename", "write"} =>
       /\ f.ch = rows[f.r].ch
       /\ f.op # "remove" /\ f.ver = rows[f.r].ver => f.before = rows[f.r].val
       /\ f.op = "update" => f.ver > 0
  /\ f.op \in Adds /\ f.at \in {"write", "undo"} => f.ch \in Chans
  /\ f.at = "check" => f.op # "remove"
  /\ f.at = "rename" => f.op = "update" /\ f.name # f.loaded
  /\ f.at \in {"make", "undo"} => f.op = "create"
FormGood(f) == GoodIn(f, row, given)
FormsGood == \A s \in Saves : FormGood(save[s])

QuietStep(s) ==
  \/ \E op \in Adds \cup {"update", "remove", "set"}, r \in Rows : Open(s, op, r)
  \/ Post(s) \/ PostSection(s) \/ Again(s) \/ PreviewShown(s)
  \/ ShowLog(s) \/ WaitForGuild(s) \/ TakeLock(s) \/ ReadHubs(s) \/ Read(s) \/ Remove(s)
  \/ CheckHub(s) \/ CheckSection(s)
(* The rows of the IDs the store has not given are as at the start, and a  *)
(* hub keeps its channel.                                                  *)
RowsGood ==
  /\ row[Section].ch = Nowhere
  /\ \A r \in Hubs :
       IF r > given THEN row[r] = [ver |-> 0, val |-> None, ch |-> Nowhere] /\ ~log[r].broken
       ELSE row[r].ch \in Chans
Base == PTypes /\ Holds /\ RowsGood /\ FormsGood

(* A step of one save, the lock with it.                                   *)
MovesForm(s) ==
  /\ save' = [save EXCEPT ![s] = save'[s]] /\ save'[s] \in FormType
  /\ lock' \in Saves \cup {Nobody}
  /\ lock' = s <=> save'[s].at \in Locked
  /\ \A t \in Saves \ {s} : lock' = t <=> lock = t
(* A step that changes nothing but its save.                               *)
Quiet(s) ==
  /\ UNCHANGED <<store, world, runtime>>
  /\ MovesForm(s) /\ panelLeft' \in [PanelKinds -> Nat]
  /\ save[s].at \notin {"write", "undo", "apply"} /\ save'[s].at \notin {"undo", "apply"}
  /\ FormGood(save'[s])

LEMMA MayTypes ==
  ASSUME PTypes, NEW k \in PanelKinds, May(k)
  PROVE  panelLeft' \in [PanelKinds -> Nat]
BY DEF PTypes, May, PanelKinds

LEMMA StandingType ==
  ASSUME PTypes, RowsGood, NEW r \in Rows
  PROVE  Standing(r) \in ChanNames
  BY PanelAssumption DEF PTypes, RowsGood, Rows, Live, Hubs, Section, Standing, ChanNames

(* A step that keeps the lock as it is, and one that gives it up.          *)
LEMMA StaysLock ==
  ASSUME Base, NEW s \in Saves, NEW f \in FormType, Sets(s, f), UNCHANGED lock,
         f.at \in Locked <=> save[s].at \in Locked
  PROVE  MovesForm(s)
BY PanelAssumption DEF Base, PTypes, Holds, Sets, MovesForm
LEMMA EndsLock ==
  ASSUME Base, NEW s \in Saves, NEW f \in FormType, Sets(s, f),
         lock' = IF lock = s THEN Nobody ELSE lock,
         f.at \notin Locked
  PROVE  MovesForm(s)
BY PanelAssumption DEF Base, PTypes, Holds, Sets, MovesForm

(* Page loads and posts.                                                   *)
LEMMA QuietOpen ==
  ASSUME Base, NEW s \in Saves, NEW op \in Ops, NEW r \in Rows, Open(s, op, r)
  PROVE  Quiet(s)
<1> DEFINE e == save[s]
<1>1. e \in FormType /\ e.at = "idle"
  BY DEF Base, PTypes, Open, At
<1>2. PICK v \in Values, name \in {Standing(r), Typed} : Sets(s, FormOf(s, op, r, v, name))
  BY DEF Open
<1>3. FormOf(s, op, r, v, name) \in FormType
  <2>1. row[r].ver \in Nat
    BY DEF Base, PTypes
  <2>2. Standing(r) \in ChanNames /\ name \in ChanNames
    BY StandingType DEF Base, ChanNames
  <2> QED
    BY <1>1, <2>1, <2>2 DEF FormOf, FormType, Places
<1> DEFINE f == FormOf(s, op, r, v, name)
<1>4. f.at = "loading" /\ f.op = op /\ f.r = r /\ f.ver = row[r].ver
  BY <1>1 DEF FormOf, FormType
<1>5. save'[s] = f
  BY <1>2 DEF Sets, Base, PTypes
<1>6. MovesForm(s)
  BY <1>1, <1>2, <1>3, <1>4, StaysLock DEF Open, Locked
<1>7. FormGood(f)
  BY <1>4 DEF Open, Base, RowsGood, PTypes, Live, Rows, Section, Hubs, FormGood, GoodIn,
     Gone, Locked
<1>8. panelLeft' \in [PanelKinds -> Nat]
  BY MayTypes DEF Open, Base, PanelKinds
<1> QED
  BY <1>1, <1>4, <1>5, <1>6, <1>7, <1>8 DEF Open, Quiet

(* A form that only moves on. *)
LEMMA QuietGoes ==
  ASSUME Base, NEW s \in Saves, NEW p \in Places, Goes(s, p), UNCHANGED <<store, world, runtime>>,
         panelLeft' \in [PanelKinds -> Nat],
         \/ UNCHANGED lock /\ (p \in Locked <=> save[s].at \in Locked)
         \/ lock' = (IF lock = s THEN Nobody ELSE lock) /\ p \notin Locked,
         save[s].at \notin {"write", "undo", "apply"}, p \notin {"undo", "apply"},
         save[s].at = "loading" => p = "loading",
         p \in {"check", "rename", "write"} => save[s].at = "check" \/ save[s].op \in Adds,
         p = "write" => save[s].op \notin Adds,
         p = "check" => save[s].op # "remove",
         p = "rename" => save[s].op = "update" /\ save[s].name # save[s].loaded,
         p = "make" => save[s].op = "create"
  PROVE  Quiet(s)
<1> DEFINE e == save[s]
<1> DEFINE f == [e EXCEPT !.at = p]
<1>1. e \in FormType /\ FormGood(e)
  BY DEF Base, PTypes, FormsGood
<1>2. f \in FormType /\ f.at = p /\ f.op = e.op /\ f.r = e.r /\ f.ver = e.ver /\ f.shown = e.shown
      /\ f.ch = e.ch /\ f.before = e.before /\ f.name = e.name /\ f.loaded = e.loaded
  BY <1>1 DEF FormType
<1>3. Sets(s, f) /\ save'[s] = f
  BY DEF Goes, Sets, Base, PTypes
<1>4. FormGood(f)
  BY <1>1, <1>2 DEF e, FormGood, GoodIn, Adds, Locked
<1>5. MovesForm(s)
  BY <1>2, <1>3, StaysLock, EndsLock DEF e
<1> QED
  BY <1>2, <1>3, <1>4, <1>5 DEF Quiet

LEMMA QuietBrowser ==
  ASSUME Base, NEW s \in Saves, Post(s) \/ PostSection(s) \/ PreviewShown(s)
  PROVE  Quiet(s)
<1>0. panelLeft' \in [PanelKinds -> Nat]
  BY MayTypes DEF Base, PTypes, Post, PostSection, PreviewShown, Keeps, PanelKinds
<1>1. CASE Post(s)
  BY <1>0, <1>1, QuietGoes DEF Post, Keeps, At, Places, Locked
<1>2. CASE PostSection(s)
  BY <1>0, <1>2, QuietGoes DEF PostSection, Keeps, At, Places, Locked
<1>3. CASE PreviewShown(s)
  BY <1>0, <1>3, QuietGoes DEF PreviewShown, Keeps, At, Places, Locked
<1> QED
  BY <1>1, <1>2, <1>3

LEMMA QuietAgain ==
  ASSUME Base, NEW s \in Saves, Again(s)
  PROVE  Quiet(s)
<1> DEFINE e == save[s]
           f == [e EXCEPT !.at = IF At(s, "stale") THEN "loading" ELSE "form",
                          !.ver = PostedBack(s), !.count = NoCount]
<1>1. e \in FormType /\ FormGood(e) /\ e.at \in {"stale", "refused"}
  BY DEF Base, PTypes, FormsGood, Again
<1>2. e.at = "stale" => f.at = "loading" /\ f.ver = row[e.r].ver
  BY <1>1 DEF PostedBack, At, FormType
<1>3. e.at # "stale" => f.at = "form" /\ f.ver = e.ver
  BY <1>1 DEF PostedBack, At, FormType
<1>4. row[e.r].ver \in Nat
  BY <1>1 DEF FormType, Base, PTypes
<1>5. NoCount \in 0 .. NoCount
  BY PanelAssumption DEF NoCount
<1>6. f \in FormType
  BY ZenonT(30), <1>1, <1>4, <1>5 DEF FormType, Places, PostedBack
<1>7. f.op = e.op /\ f.r = e.r /\ f.shown = e.shown
  BY <1>1 DEF FormType
<1>8. Sets(s, f) /\ save'[s] = f /\ UNCHANGED lock
  BY DEF Again, Sets, Base, PTypes
<1>9. FormGood(f)
  BY <1>1, <1>2, <1>3, <1>4, <1>7 DEF FormGood, GoodIn, Adds, Locked
<1>10. MovesForm(s)
  BY <1>1, <1>2, <1>3, <1>6, <1>8, StaysLock DEF Locked
<1>11. panelLeft' \in [PanelKinds -> Nat]
  BY MayTypes DEF Base, Again, PanelKinds
<1> QED
  BY <1>1, <1>2, <1>3, <1>8, <1>9, <1>10, <1>11 DEF Quiet, Again

LEMMA QuietShow ==
  ASSUME Base, NEW s \in Saves, ShowLog(s)
  PROVE  Quiet(s)
<1> DEFINE e == save[s]
           f == [e EXCEPT !.at = "form", !.shown = row[e.r].ver]
<1>1. e \in FormType /\ FormGood(e) /\ e.at = "loading"
  BY DEF Base, PTypes, FormsGood, ShowLog, At
<1>2. row[e.r].ver \in Nat
  BY <1>1 DEF FormType, Base, PTypes
<1>3. f \in FormType /\ f.op = e.op /\ f.r = e.r /\ f.ver = e.ver /\ f.shown = row[e.r].ver
      /\ f.at = "form"
  BY <1>1, <1>2 DEF FormType, Places
<1>4. Sets(s, f) /\ save'[s] = f /\ UNCHANGED <<lock, panelLeft>>
  BY DEF ShowLog, Sets, Base, PTypes
<1>5. FormGood(f)
  BY <1>1, <1>2, <1>3 DEF FormGood, GoodIn, Adds, Locked
<1>6. MovesForm(s)
  BY <1>1, <1>3, <1>4, StaysLock DEF Locked
<1> QED
  BY <1>1, <1>3, <1>4, <1>5, <1>6 DEF Quiet, ShowLog, Base, PTypes, Stays

(* Answers.                                                                *)
LEMMA Ending ==
  ASSUME Base, NEW s \in Saves, NEW p \in Places \ (Locked \cup {"loading"}), Ends(s, p),
         UNCHANGED <<store, world, runtime>>, panelLeft' \in [PanelKinds -> Nat],
         save[s].at \notin {"loading", "write", "undo", "apply"}
  PROVE  Quiet(s)
BY QuietGoes DEF Ends, Locked

LEMMA Failing ==
  ASSUME Base, NEW s \in Saves, NEW p \in Places \ (Locked \cup {"loading"}),
         Fails(s, p) \/ Fault(s, p),
         UNCHANGED <<store, world, runtime>>,
         save[s].at \notin {"loading", "write", "undo", "apply"}
  PROVE  Quiet(s)
  BY MayTypes, Ending DEF Base, PTypes, Fails, Fault, PanelKinds

LEMMA NoGuild ==
  ASSUME Base, NEW s \in Saves, Ends(s, "no data"), UNCHANGED panelLeft, Stays(s),
         save[s].at \in {"wait", "check"}
  PROVE  Quiet(s)
BY Ending DEF Base, PTypes, Stays, Places, Locked

(* The waits before a save, and its reads and checks under the lock.       *)
LEMMA QuietWaits ==
  ASSUME Base, NEW s \in Saves, WaitForGuild(s) \/ TakeLock(s) \/ ReadHubs(s)
  PROVE  Quiet(s)
<1>0. panelLeft \in [PanelKinds -> Nat]
  BY DEF Base, PTypes
<1>1. CASE WaitForGuild(s)
  BY <1>0, <1>1, QuietGoes, NoGuild DEF WaitForGuild, Keeps, At, Places, Locked, Stays,
     GuildRead
<1>2. CASE TakeLock(s)
  <2> DEFINE e == save[s]
             f == [e EXCEPT !.at = "read"]
  <2>1. e \in FormType /\ FormGood(e) /\ e.at = "queue"
    BY <1>2 DEF Base, PTypes, FormsGood, TakeLock, At
  <2>2. f \in FormType /\ f.at = "read" /\ f.op = e.op /\ f.r = e.r /\ f.ver = e.ver
        /\ f.shown = e.shown
    BY <2>1 DEF FormType, Places, Locked
  <2>3. Sets(s, f) /\ save'[s] = f
    BY <1>2 DEF TakeLock, Goes, Sets, Base, PTypes
  <2>4. FormGood(f)
    BY <2>1, <2>2 DEF FormGood, GoodIn, Adds
  <2>5. lock = Nobody /\ lock' = s
    BY <1>2 DEF TakeLock
  <2>6. MovesForm(s)
    BY <2>2, <2>3, <2>5, PanelAssumption DEF MovesForm, Sets, Locked, Base, PTypes
  <2> QED
    BY <1>0, <1>2, <2>1, <2>2, <2>3, <2>4, <2>6 DEF Quiet, TakeLock
<1>3. CASE ReadHubs(s)
  BY <1>0, <1>3, Failing, QuietGoes DEF ReadHubs, Stays, At, Places, Locked, Keeps, Adds
<1> QED
  BY <1>1, <1>2, <1>3

(* The read of the row.                                                    *)
LEMMA QuietReads ==
  ASSUME Base, NEW s \in Saves, Read(s) \/ Remove(s)
  PROVE  Quiet(s)
<1> DEFINE e == save[s]
<1>1. /\ e \in FormType /\ FormGood(e) /\ e.at = "read" /\ e.op \notin Adds
      /\ Stays(s) /\ panelLeft \in [PanelKinds -> Nat]
  BY DEF Base, PTypes, FormsGood, Read, Remove, At, Adds
<1>2. PICK next \in {"check", "write"} : ReadsRow(s, next) /\ (next = "check" => e.op # "remove")
                                         /\ (next = "write" => e.op = "remove")
  BY DEF Read, Remove
<1>3. CASE Fault(s, "error") \/ Fails(s, "gone") \/ Fails(s, "stale")
  BY <1>1, <1>3, Failing DEF Stays, Places, Locked
<1>4. CASE /\ save[s].op # "set" => Live(save[s].r)
           /\ FormIsCurrent(s) /\ UNCHANGED <<lock, panelLeft>>
           /\ Sets(s, [save[s] EXCEPT !.before = row[save[s].r].val, !.ch = row[save[s].r].ch,
                                      !.ver = row[save[s].r].ver, !.at = next])
  <2> DEFINE f == [e EXCEPT !.before = row[e.r].val, !.ch = row[e.r].ch, !.ver = row[e.r].ver, !.at = next]
  <2>1. row[e.r] \in [ver : Nat, val : Values \cup {None}, ch : Chans \cup {Nowhere}]
    BY <1>1 DEF FormType, Base, PTypes
  <2>2. /\ f \in FormType /\ f.at = next /\ f.op = e.op /\ f.r = e.r /\ f.shown = e.shown
        /\ f.ver = row[e.r].ver /\ f.ch = row[e.r].ch /\ f.before = row[e.r].val
    BY ZenonT(60), <1>1, <2>1 DEF FormType, Places, Locked
  <2>3. Sets(s, f) /\ save'[s] = f
    BY <1>4 DEF Sets, Base, PTypes
  <2>4. FormGood(f)
    BY <1>1, <1>2, <1>4, <2>1, <2>2 DEF FormIsCurrent, Live, FormGood, GoodIn, Adds
  <2>5. MovesForm(s)
    BY <1>1, <1>4, <2>2, <2>3, StaysLock DEF Locked, e
  <2> QED
    BY <1>1, <1>2, <1>4, <2>2, <2>3, <2>4, <2>5 DEF Quiet, Stays
<1> QED
  BY <1>2, <1>3, <1>4 DEF ReadsRow

LEMMA QuietChecks ==
  ASSUME Base, NEW s \in Saves, CheckHub(s)
  PROVE  Quiet(s)
<1> DEFINE e == save[s]
<1>1. /\ e \in FormType /\ FormGood(e) /\ e.at = "check" /\ e.op # "set" /\ e.op # "remove"
      /\ Stays(s) /\ panelLeft \in [PanelKinds -> Nat]
  BY DEF Base, PTypes, FormsGood, CheckHub, At, FormGood, GoodIn
<1>2. CASE Ends(s, "no data") /\ UNCHANGED panelLeft
  BY <1>1, <1>2, NoGuild
<1>3. CASE e.op = "create" /\ Keeps(s, "make")
  BY <1>1, <1>3, QuietGoes DEF Keeps, Places, Locked, Stays
<1>4. CASE Fails(s, "already") \/ Fails(s, "broken") \/ Fails(s, "unchanged")
  BY <1>1, <1>4, Failing DEF Stays, Places, Locked
<1>5. CASE /\ e.op = "register" /\ UNCHANGED <<lock, panelLeft>>
           /\ Sets(s, [save[s] EXCEPT !.at = "write", !.ch = 1])
  <2> DEFINE f == [e EXCEPT !.at = "write", !.ch = 1]
  <2>0. 1 \in Chans
    BY PanelAssumption DEF Chans
  <2>1. f \in FormType /\ f.at = "write" /\ f.op = e.op /\ f.r = e.r /\ f.ch = 1
    BY <1>1, <2>0 DEF FormType, Places, Locked
  <2>2. Sets(s, f) /\ save'[s] = f
    BY <1>5 DEF Sets, Base, PTypes
  <2>3. FormGood(f)
    BY <1>1, <1>5, <2>0, <2>1 DEF FormGood, GoodIn, Adds
  <2>4. MovesForm(s)
    BY <1>1, <1>5, <2>1, <2>2, StaysLock DEF Locked
  <2> QED
    BY <1>1, <1>5, <2>1, <2>2, <2>3, <2>4 DEF Quiet, Stays
<1>6. CASE e.op = "update" /\ Renames(s) /\ Keeps(s, "rename")
  BY <1>1, <1>6, QuietGoes DEF Keeps, Places, Locked, Stays, Renames
<1>7. CASE e.op = "update" /\ Keeps(s, "write")
  BY <1>1, <1>7, QuietGoes DEF Keeps, Places, Locked, Stays, Adds
<1>8. \/ guild # "present" /\ Ends(s, "no data") /\ UNCHANGED panelLeft
      \/ e.op = "create" /\ Keeps(s, "make")
      \/ Fails(s, "already") \/ Fails(s, "broken") \/ Fails(s, "unchanged")
      \/ /\ e.op = "register" /\ UNCHANGED <<lock, panelLeft>>
         /\ Sets(s, [save[s] EXCEPT !.at = "write", !.ch = 1])
      \/ e.op = "update" /\ Renames(s) /\ Keeps(s, "rename")
      \/ e.op = "update" /\ Keeps(s, "write")
  BY <1>1 DEF FormType, Ops, Adds, CheckHub, GuildRead
<1> QED
  BY <1>2, <1>3, <1>4, <1>5, <1>6, <1>7, <1>8

LEMMA CountTypes ==
  ASSUME Base, NEW s \in Saves
  PROVE  Counts(s) \in 0 .. NoCount
BY PanelAssumption DEF Base, PTypes, Counts, Drops, NoCount, Unknown

LEMMA QuietSection ==
  ASSUME Base, NEW s \in Saves, CheckSection(s)
  PROVE  Quiet(s)
<1> DEFINE e == save[s]
           f == [e EXCEPT !.at = "preview shown", !.count = Counts(s)]
<1>1. /\ e \in FormType /\ FormGood(e) /\ e.at = "check" /\ e.op = "set"
      /\ Stays(s) /\ panelLeft \in [PanelKinds -> Nat]
  BY DEF Base, PTypes, FormsGood, CheckSection, At
<1>2. CASE Ends(s, "no data") /\ UNCHANGED panelLeft
  BY <1>1, <1>2, NoGuild
<1>3. CASE Fails(s, "unchanged")
  BY <1>1, <1>3, Failing DEF Stays, Places, Locked
<1>4. CASE Keeps(s, "write")
  BY <1>1, <1>4, QuietGoes DEF Keeps, Places, Locked, Stays, Adds
<1>5. CASE Sets(s, f) /\ lock' = Nobody /\ UNCHANGED panelLeft
  <2>1. /\ f \in FormType /\ f.at = "preview shown" /\ f.op = e.op /\ f.r = e.r
        /\ f.ver = e.ver /\ f.shown = e.shown
    BY <1>1, CountTypes DEF FormType, Places
  <2>2. save'[s] = f
    BY <1>5 DEF Sets, Base, PTypes
  <2>3. lock = s
    BY <1>1 DEF Base, Holds, Locked
  <2>4. FormGood(f)
    BY <1>1, <2>1 DEF FormGood, GoodIn, Adds
  <2>5. MovesForm(s)
    BY <1>1, <1>5, <2>1, <2>3, EndsLock DEF Locked
  <2> QED
    BY <1>1, <1>5, <2>1, <2>2, <2>4, <2>5 DEF Quiet, Stays
<1> QED
  BY <1>2, <1>3, <1>4, <1>5 DEF CheckSection, GuildRead

LEMMA QuietSteps ==
  ASSUME Base, NEW s \in Saves, QuietStep(s)
  PROVE  Quiet(s)
BY QuietOpen, QuietBrowser, QuietAgain, QuietShow, QuietWaits, QuietReads, QuietChecks, QuietSection
   DEF QuietStep, Ops, Adds

(* What a write does to the store: over a row that is there, a hub under a *)
(* new ID, or a hub's removal.                                             *)
LogNow(r, after, broken) == log' = [log EXCEPT ![r] = [tells |-> after, broken |-> broken]]
Written(r, v, who) ==
  /\ r = Section \/ Live(r)
  /\ row' = [row EXCEPT ![r] = [ver |-> row[r].ver + 1, val |-> v, ch |-> row[r].ch]]
  /\ LogNow(r, v, FALSE) /\ teller' = [teller EXCEPT ![r] = who] /\ given' = given
Added(v, c, who) ==
  /\ given < MaxHubs /\ On(c) = {} /\ given' = given + 1
  /\ row' = [row EXCEPT ![given + 1] = [ver |-> 1, val |-> v, ch |-> c]]
  /\ LogNow(given + 1, v, FALSE) /\ teller' = [teller EXCEPT ![given + 1] = who]
Removed(r, who) ==
  /\ Live(r)
  /\ row' = [row EXCEPT ![r] = [ver |-> 0, val |-> None, ch |-> row[r].ch]]
  /\ \E broken \in BOOLEAN : LogNow(r, None, broken)
  /\ teller' = [teller EXCEPT ![r] = who] /\ given' = given
StoreMoves(who) ==
  \/ \E r \in Rows, v \in Values \cup {None} : Written(r, v, who)
  \/ \E v \in Values \cup {None}, c \in Chans : Added(v, c, who)
  \/ \E r \in Hubs : Removed(r, who)

(* The part of the types a write of the store may change.                  *)
RowTypes ==
  /\ row \in [Rows -> [ver : Nat, val : Values \cup {None}, ch : Chans \cup {Nowhere}]]
  /\ log \in [Rows -> [tells : Values \cup {None}, broken : BOOLEAN]]
  /\ given \in 0 .. MaxHubs
  /\ teller \in [Rows -> {"here", "else"}]

LEMMA NumbersOf ==
  /\ MaxHubs \in Nat \ {0} /\ Section = 0 /\ Nowhere = 0 /\ Hubs = 1 .. MaxHubs
     /\ Chans = 1 .. MaxHubs
  /\ Rows = {0} \cup Hubs /\ Section \in Rows /\ Section \notin Hubs /\ Hubs \subseteq Rows
BY PanelAssumption DEF Section, Nowhere, Hubs, Chans, Rows

(* Each write keeps the rows, the log and the forms of the saves right.    *)
LEMMA StoreTypes ==
  ASSUME RowTypes, RowsGood, NEW who \in {"here", "else"}, StoreMoves(who)
  PROVE  RowTypes'
<1> USE NumbersOf
<1>1. CASE \E r \in Rows, v \in Values \cup {None} : Written(r, v, who)
  BY <1>1 DEF Written, LogNow, RowTypes
<1>2. CASE \E v \in Values \cup {None}, c \in Chans : Added(v, c, who)
  BY <1>2 DEF Added, LogNow, RowTypes
<1>3. CASE \E r \in Hubs : Removed(r, who)
  BY <1>3 DEF Removed, LogNow, RowTypes
<1> QED
  BY <1>1, <1>2, <1>3 DEF StoreMoves

LEMMA StoreRows ==
  ASSUME RowTypes, RowsGood, NEW who \in {"here", "else"}, StoreMoves(who)
  PROVE  RowsGood'
<1> USE NumbersOf
<1>1. CASE \E r \in Rows, v \in Values \cup {None} : Written(r, v, who)
  BY <1>1 DEF Written, LogNow, RowTypes, RowsGood, Live
<1>2. CASE \E v \in Values \cup {None}, c \in Chans : Added(v, c, who)
  BY <1>2 DEF Added, LogNow, RowTypes, RowsGood
<1>3. CASE \E r \in Hubs : Removed(r, who)
  BY <1>3 DEF Removed, LogNow, RowTypes, RowsGood, Live
<1> QED
  BY <1>1, <1>2, <1>3 DEF StoreMoves

LEMMA StoreTells ==
  ASSUME RowTypes, RowsGood, StoreTold, NEW who \in {"here", "else"}, StoreMoves(who)
  PROVE  StoreTold'
<1> USE NumbersOf
<1>1. CASE \E r \in Rows, v \in Values \cup {None} : Written(r, v, who)
  BY SMTT(30), <1>1 DEF Written, LogNow, RowTypes, StoreTold, Live
<1>2. CASE \E v \in Values \cup {None}, c \in Chans : Added(v, c, who)
  <2>1. PICK v \in Values \cup {None}, c \in Chans : Added(v, c, who)
    BY <1>2
  <2> DEFINE n == given + 1
  <2>2. n \in Hubs /\ \A r \in Rows \ {n} : row'[r] = row[r] /\ log'[r] = log[r]
    BY <2>1 DEF Added, LogNow, RowTypes
  <2>3. row'[n] = [ver |-> 1, val |-> v, ch |-> c] /\ log'[n] = [tells |-> v, broken |-> FALSE]
    BY <2>1, <2>2 DEF Added, LogNow, RowTypes
  <2>4. \A h \in Hubs : row[h].ver > 0 => row[h].ch # c
    BY <2>1 DEF Added, On, Live
  <2> HIDE DEF n
  <2>5. \A r \in Rows : log'[r].tells = row'[r].val
        /\ (log'[r].broken => r # Section /\ ~(row'[r].ver > 0))
    BY <2>2, <2>3 DEF StoreTold, Live
  <2>6. ASSUME NEW r \in Hubs, NEW h \in Hubs, row'[h].ver > 0, row'[r].ver > 0,
               row'[h].ch = row'[r].ch
        PROVE  h = r
    BY <2>2, <2>3, <2>4, <2>6 DEF StoreTold, Live
  <2> QED
    BY <2>5, <2>6 DEF StoreTold, Live
<1>3. CASE \E r \in Hubs : Removed(r, who)
  BY <1>3 DEF Removed, LogNow, RowTypes, StoreTold, Live
<1> QED
  BY <1>1, <1>2, <1>3 DEF StoreMoves

LEMMA StoreForms ==
  ASSUME RowTypes, RowsGood, NEW who \in {"here", "else"}, StoreMoves(who),
         NEW f \in FormType, GoodIn(f, row, given)
  PROVE  GoodIn(f, row', given')
<1> USE NumbersOf
<1>0. f.r \in Rows /\ f.ver \in Nat
  BY DEF FormType
<1>1. CASE \E r \in Rows, v \in Values \cup {None} : Written(r, v, who)
  BY SMTT(30), <1>0, <1>1 DEF Written, RowTypes, Live, Gone, GoodIn
<1>2. CASE \E v \in Values \cup {None}, c \in Chans : Added(v, c, who)
  <2>1. PICK v \in Values \cup {None}, c \in Chans : Added(v, c, who)
    BY <1>2
  <2>2. given' = given + 1 /\ row' = [row EXCEPT ![given + 1] = [ver |-> 1, val |-> v, ch |-> c]]
        /\ given + 1 \in Rows /\ given \in Nat
    BY <2>1 DEF Added, RowTypes
  <2>3. f.op \notin Adds => row'[f.r] = row[f.r]
    BY SMTT(30), <1>0, <2>2 DEF GoodIn, FormType, Ops, RowTypes
  <2>4. f.op \notin Adds /\ Gone(f.r, row, given) => Gone(f.r, row', given')
    BY SMTT(30), <1>0, <2>2, <2>3 DEF Gone, RowTypes
  <2> QED
    BY SMTT(30), <1>0, <2>2, <2>3, <2>4 DEF GoodIn, Adds, RowTypes
<1>3. CASE \E r \in Hubs : Removed(r, who)
  <2>1. PICK r \in Hubs : Removed(r, who)
    BY <1>3
  <2>2. given' = given /\ row' = [row EXCEPT ![r] = [ver |-> 0, val |-> None, ch |-> row[r].ch]]
        /\ r <= given
    BY <2>1 DEF Removed, RowsGood, RowTypes, Live
  <2>3. row'[f.r].ch = row[f.r].ch /\ row'[f.r].ver \in Nat /\ row[f.r].ver \in Nat
    BY <1>0, <2>2 DEF RowTypes
  <2>4. row'[f.r] = row[f.r] \/ (f.r = r /\ row'[f.r].ver = 0 /\ Gone(f.r, row', given') /\ f.r # Section)
    BY <1>0, <2>1, <2>2 DEF RowTypes, Gone
  <2>5. Gone(f.r, row, given) => Gone(f.r, row', given')
    BY <2>2, <2>4 DEF Gone
  <2>6. CASE row'[f.r] = row[f.r]
    BY <1>0, <2>2, <2>5, <2>6 DEF GoodIn
  <2>7. CASE f.r = r /\ row'[f.r].ver = 0 /\ Gone(f.r, row', given') /\ f.r # Section
    BY <1>0, <2>2, <2>3, <2>7 DEF GoodIn, FormType, Ops
  <2> QED
    BY <2>4, <2>6, <2>7
<1> QED
  BY <1>1, <1>2, <1>3 DEF StoreMoves

(* The other process writes as the store lets it.                          *)
LEMMA OtherMoves ==
  ASSUME Base, StoreTold, Other
  PROVE  StoreMoves("else") /\ UNCHANGED <<world, runtime, lock, save>>
         /\ panelLeft' \in [PanelKinds -> Nat]
<1> USE NumbersOf
<1>0. UNCHANGED <<world, runtime, lock, save>> /\ panelLeft' \in [PanelKinds -> Nat]
  BY MayTypes DEF Base, Other, PanelKinds
<1>1. CASE \E r \in Rows, v \in Values :
          /\ r = Section \/ Live(r)
          /\ v # row[r].val /\ Entry(r, row[r].val, v) /\ Writes(r, v, row[r].ch, "else")
          /\ UNCHANGED given
  BY <1>0, <1>1 DEF Base, PTypes, StoreTold, Written, Entry, Writes, LogNow, StoreMoves
<1>2. CASE \E v \in Values :
          /\ given + Cardinality(Adding) < MaxHubs /\ On(1) = {} /\ Stands(1) /\ given' = given + 1
          /\ Entry(given + 1, None, v) /\ Writes(given + 1, v, 1, "else")
  <2>1. PICK v \in Values :
          /\ given + Cardinality(Adding) < MaxHubs /\ On(1) = {} /\ given' = given + 1
          /\ Entry(given + 1, None, v) /\ Writes(given + 1, v, 1, "else")
    BY <1>2
  <2>2. Cardinality(Adding) \in Nat
    BY PanelAssumption, FS_Subset, FS_CardinalityType DEF Adding
  <2>3. given < MaxHubs /\ given + 1 \in Hubs /\ given + 1 > given
    BY <2>1, <2>2 DEF Base, PTypes
  <2>4. row[given + 1].ver = 0 /\ row[given + 1].val = None /\ log[given + 1].broken = FALSE
        /\ log[given + 1].tells = None
    BY <2>3 DEF Base, PTypes, RowsGood, StoreTold
  <2>5. LogNow(given + 1, v, FALSE)
    BY <2>1, <2>3, <2>4 DEF Entry, LogNow, Base, PTypes
  <2>6. /\ row' = [row EXCEPT ![given + 1] = [ver |-> 1, val |-> v, ch |-> 1]]
        /\ teller' = [teller EXCEPT ![given + 1] = "else"]
    BY <2>1, <2>3, <2>4 DEF Writes, Base, PTypes
  <2>7. Added(v, 1, "else")
    BY <2>1, <2>3, <2>5, <2>6 DEF Added
  <2> QED
    BY <1>0, <2>7 DEF StoreMoves
<1>3. CASE \E r \in Hubs : Live(r) /\ Deletes(r, row[r].val, "else")
  BY <1>0, <1>3 DEF Deletes, Entry, LogNow, Base, PTypes, Removed, StoreMoves
<1> QED
  BY <1>1, <1>2, <1>3 DEF Other

(* A write of this process.                                                *)
Rewritten(s) == IF save[s].op \in Adds THEN given + 1 ELSE save[s].r
Unwrites(s) ==
  /\ MovesForm(s) /\ save'[s].at \notin {"write", "apply"} /\ FormGood(save'[s])
  /\ save'[s].op = save[s].op /\ save'[s].ch = save[s].ch
  /\ save[s].op = "create" => save'[s].at = "undo"
Applying(s) ==
  /\ MovesForm(s) /\ save'[s].at = "apply" /\ save'[s].r = Rewritten(s)
  /\ save'[s].op = save[s].op /\ save'[s].ch = save[s].ch /\ save'[s].val = save[s].val
  /\ GoodIn(save'[s], row', given')

(* What it writes, and of which row.                                       *)
WritesOwn(s, who) ==
  LET r == save[s].r IN
  \/ save[s].op \in Adds /\ save[s].ch \in Chans /\ Added(save[s].val, save[s].ch, who)
  \/ /\ save[s].op \in {"update", "set"} /\ Written(r, save[s].val, who) /\ save[s].ch = row[r].ch
     /\ row[r].ver <= save[s].shown
  \/ save[s].op = "remove" /\ r \in Hubs /\ Removed(r, who) /\ save[s].ch = row[r].ch

LEMMA CommitMoves ==
  ASSUME Base, StoreTold, NEW s \in Saves, At(s, "write"), NEW who \in {"here", "else"},
         Commits(s, who)
  PROVE  WritesOwn(s, who)
<1> USE NumbersOf
<1> DEFINE e == save[s]
<1>1. e \in FormType /\ FormGood(e) /\ e.at = "write" /\ e.r \in Rows
  BY DEF Base, PTypes, FormsGood, At, FormType
<1>2. e.op = "set" <=> e.r = Section
  BY <1>1 DEF FormGood, GoodIn
<1>3. CASE e.op \in Adds
  <2>1. /\ given < MaxHubs /\ On(e.ch) = {} /\ given' = given + 1
        /\ Entry(given + 1, None, e.val) /\ Writes(given + 1, e.val, e.ch, who)
    BY <1>3 DEF Commits, AtVersion, Adds
  <2>2. e.ch \in Chans
    BY <1>1, <1>3 DEF FormGood, GoodIn
  <2>3. given + 1 \in Hubs /\ given + 1 > given
    BY <2>1 DEF Base, PTypes
  <2>4. row[given + 1].ver = 0 /\ row[given + 1].val = None /\ log[given + 1].broken = FALSE
        /\ log[given + 1].tells = None
    BY <2>3 DEF Base, PTypes, RowsGood, StoreTold
  <2>5. LogNow(given + 1, e.val, FALSE)
    BY <2>1, <2>3, <2>4 DEF Entry, LogNow, Base, PTypes
  <2>6. /\ row' = [row EXCEPT ![given + 1] = [ver |-> 1, val |-> e.val, ch |-> e.ch]]
        /\ teller' = [teller EXCEPT ![given + 1] = who]
    BY <2>1, <2>3, <2>4 DEF Writes, Base, PTypes
  <2> QED
    BY <1>3, <2>1, <2>2, <2>5, <2>6 DEF WritesOwn, Added
<1>4. CASE e.op = "remove"
  BY <1>1, <1>2, <1>4 DEF Commits, FormGood, GoodIn, Adds, Deletes, Entry, LogNow, Base,
     PTypes, Removed, WritesOwn
<1>5. CASE e.op \in {"update", "set"}
  <2>1. /\ e.ver = row[e.r].ver /\ (e.op = "update" => Live(e.r)) /\ Entry(e.r, e.before, e.val)
        /\ Writes(e.r, e.val, e.ch, who) /\ given' = given
    BY <1>5 DEF Commits, AtVersion, Adds
  <2>2. e.ch = row[e.r].ch /\ e.before = row[e.r].val
    BY <1>1, <1>5, <2>1 DEF FormGood, GoodIn, Adds
  <2>3. e.ver <= e.shown
    BY <1>1, <1>2, <1>5, <2>1 DEF FormGood, GoodIn, Gone, Live, Adds
  <2>4. e.r = Section \/ Live(e.r)
    BY <1>2, <1>5, <2>1
  <2>5. log[e.r].broken = FALSE /\ log[e.r].tells = e.before
    BY <1>1, <2>2, <2>4 DEF Base, PTypes, StoreTold
  <2>6. LogNow(e.r, e.val, FALSE)
    BY <1>1, <2>1, <2>5 DEF Entry, LogNow, Base, PTypes
  <2>7. /\ row' = [row EXCEPT ![e.r] = [ver |-> row[e.r].ver + 1, val |-> e.val, ch |-> row[e.r].ch]]
        /\ teller' = [teller EXCEPT ![e.r] = who]
    BY <1>1, <2>1, <2>2 DEF Writes, Base, PTypes
  <2>8. Written(e.r, e.val, who)
    BY <2>1, <2>4, <2>6, <2>7 DEF Written
  <2> QED
    BY <1>5, <2>1, <2>2, <2>3, <2>8 DEF WritesOwn
<1> QED
  BY <1>1, <1>3, <1>4, <1>5 DEF FormType, Ops, Adds

LEMMA OwnMoves ==
  ASSUME Base, NEW s \in Saves, NEW who \in {"here", "else"}, WritesOwn(s, who)
  PROVE  StoreMoves(who)
BY DEF WritesOwn, StoreMoves, Base, PTypes, FormType

LEMMA UnwriteMoves ==
  ASSUME Base, NEW s \in Saves, At(s, "write"), NEW p \in Places \ (Locked \cup {"loading"}),
         Unwritten(s, p)
  PROVE  Unwrites(s)
<1> DEFINE e == save[s]
           q == IF e.op = "create" THEN "undo" ELSE IF e.renamed THEN "error" ELSE p
           f == [e EXCEPT !.at = q]
<1>1. e \in FormType /\ FormGood(e) /\ e.at = "write"
  BY DEF Base, PTypes, FormsGood, At
<1>2. q \in Places /\ (e.op = "create" => q = "undo")
      /\ (e.op # "create" => q \notin Locked \cup {"loading"})
  BY DEF Places, Locked
<1>3. Goes(s, q)
  BY DEF Unwritten, Ends
<1>4. /\ f \in FormType /\ f.at = q /\ f.op = e.op /\ f.r = e.r /\ f.ver = e.ver
         /\ f.shown = e.shown
      /\ f.ch = e.ch
  BY <1>1, <1>2 DEF FormType
<1>5. Sets(s, f) /\ save'[s] = f
  BY <1>3 DEF Goes, Sets, Base, PTypes
<1>6. IF e.op = "create" THEN lock' = lock ELSE lock' = IF lock = s THEN Nobody ELSE lock
  BY DEF Unwritten, Ends
<1> HIDE DEF q, f, e
<1>7. FormGood(f)
  BY <1>1, <1>2, <1>4 DEF FormGood, GoodIn, Adds, Locked
<1>8. e = save[s]
  BY DEF e
<1>9. MovesForm(s)
  BY <1>1, <1>2, <1>4, <1>5, <1>6, <1>8, StaysLock, EndsLock DEF Locked
<1> QED
  BY <1>2, <1>4, <1>5, <1>7, <1>8, <1>9 DEF Unwrites, Locked

LEMMA ApplyMoves ==
  ASSUME Base, StoreTold, NEW s \in Saves, At(s, "write"), WritesOwn(s, "here"), UNCHANGED lock,
         Sets(s, [save[s] EXCEPT !.at = "apply", !.r = IF @ \in Hubs /\ save[s].op \in Adds
                                                       THEN given + 1 ELSE @])
  PROVE  Applying(s)
<1> USE NumbersOf
<1> DEFINE e == save[s]
           f == [e EXCEPT !.at = "apply", !.r = Rewritten(s)]
<1>1. e \in FormType /\ FormGood(e) /\ e.at = "write" /\ e.r \in Rows
  BY DEF Base, PTypes, FormsGood, At, FormType
<1>2. e.op \in Adds => e.r \in Hubs
  BY <1>1 DEF FormGood, GoodIn, Adds
<1>3. Sets(s, f) /\ save'[s] = f
  BY <1>1, <1>2 DEF Sets, Base, PTypes, Rewritten
<1>4. Rewritten(s) \in Rows
  <2>1. e.op \in Adds => given + 1 \in Hubs
    <3>1. e.op \in Adds => given < MaxHubs
      BY DEF WritesOwn, Added, Adds
    <3> QED
      BY <3>1 DEF Base, PTypes
  <2> QED
    BY <1>1, <2>1 DEF Rewritten
<1>5. /\ f \in FormType /\ f.at = "apply" /\ f.op = e.op /\ f.ver = e.ver /\ f.shown = e.shown
         /\ f.r = Rewritten(s)
      /\ f.ch = e.ch /\ f.val = e.val
  BY ZenonT(60), <1>1, <1>4 DEF FormType, Places, Locked
<1>6. GoodIn(e, row', given')
  BY <1>1, OwnMoves, StoreForms DEF Base, PTypes, RowTypes, FormGood
<1>7. Rewritten(s) = IF e.op \in Adds THEN given + 1 ELSE e.r
  BY DEF Rewritten
<1>8. given \in Nat
  BY DEF Base, PTypes
<1> HIDE DEF f, e
<1>9. GoodIn(f, row', given')
  BY <1>1, <1>5, <1>6, <1>7, <1>8 DEF GoodIn, Adds
<1>10. e = save[s]
  BY DEF e
<1>11. MovesForm(s)
  BY <1>1, <1>3, <1>5, <1>10, StaysLock DEF Locked
<1> QED
  BY <1>3, <1>5, <1>9, <1>10, <1>11 DEF Applying

WriteMove(s) ==
  /\ UNCHANGED <<world, runtime>> /\ panelLeft' \in [PanelKinds -> Nat] /\ save[s].at = "write"
  /\ \/ UNCHANGED store /\ Unwrites(s)
     \/ WritesOwn(s, "else") /\ Unwrites(s)
     \/ WritesOwn(s, "here") /\ Applying(s)
LEMMA WriteMoves ==
  ASSUME Base, StoreTold, NEW s \in Saves, Write(s)
  PROVE  WriteMove(s)
<1>0. At(s, "write") /\ UNCHANGED <<world, runtime>> /\ save[s].at = "write"
  BY DEF Write, At
<1>1. CASE /\ Refusal(s) # "none" /\ Unwritten(s, Refusal(s)) /\ UNCHANGED <<store, panelLeft>>
  BY <1>0, <1>1, UnwriteMoves DEF Refusal, Places, Locked, WriteMove, Base, PTypes
<1>2. CASE /\ Refusal(s) = "none" /\ Commits(s, "here") /\ UNCHANGED <<lock, panelLeft>>
           /\ Sets(s, [save[s] EXCEPT !.at = "apply", !.r = IF @ \in Hubs /\ save[s].op \in Adds
                                                         THEN given + 1 ELSE @])
  BY <1>0, <1>2, CommitMoves, ApplyMoves DEF WriteMove, Base, PTypes
<1>3. CASE Refusal(s) = "none" /\ May("lost") /\ Commits(s, "else") /\ Unwritten(s, "error")
  BY <1>0, <1>3, CommitMoves, UnwriteMoves, MayTypes DEF Places, Locked, WriteMove, Base,
     PanelKinds
<1>4. CASE May("fault") /\ Unwritten(s, "error") /\ UNCHANGED store
  BY <1>0, <1>4, UnwriteMoves, MayTypes DEF Places, Locked, WriteMove, Base, PanelKinds
<1> QED
  BY <1>1, <1>2, <1>3, <1>4 DEF Write

(* The calls to Discord, and the write into the runtime: the store stays.  *)
Steady(s) ==
  /\ UNCHANGED store /\ MovesForm(s) /\ FormGood(save'[s]) /\ panelLeft' \in [PanelKinds -> Nat]
  /\ save'[s].at # "apply" /\ UNCHANGED <<members, listed>>
RenameMove(s) ==
  /\ Steady(s) /\ save[s].at = "rename" /\ save[s].op = "update" /\ save'[s].op = "update"
  /\ UNCHANGED <<runtime, leftOver>>
  /\ \/ UNCHANGED chan
     \/ save[s].ch \in Chans /\ Stands(save[s].ch)
        /\ chan' = [chan EXCEPT ![save[s].ch] = save[s].name]
MakeMove(s) ==
  /\ Steady(s) /\ save[s].at = "make" /\ UNCHANGED runtime
  /\ \/ UNCHANGED <<chan, leftOver>>
     \/ \E c \in Chans :
          /\ chan' = [chan EXCEPT ![c] = Typed]
          /\ \/ save'[s].op = "create" /\ save'[s].at = "write" /\ save'[s].ch = c
                /\ UNCHANGED leftOver
             \/ leftOver' = leftOver \cup {c}
UndoMove(s) ==
  /\ Steady(s) /\ save[s].at = "undo" /\ save[s].op = "create" /\ save[s].ch \in Chans
     /\ UNCHANGED runtime
  /\ \/ chan' = [chan EXCEPT ![save[s].ch] = Deleted] /\ UNCHANGED leftOver
     \/ UNCHANGED chan /\ leftOver' = leftOver \cup {save[s].ch}
ApplyMove(s) ==
  /\ Steady(s) /\ save[s].at = "apply" /\ UNCHANGED <<chan, leftOver>>
  /\ runtime' = Applied(s)

(* A save that ends, its form with it as it was.                           *)
LEMMA Ended ==
  ASSUME Base, NEW s \in Saves, NEW p \in Places \ (Locked \cup {"loading"}), Ends(s, p),
         save[s].at # "loading"
  PROVE  MovesForm(s) /\ FormGood(save'[s]) /\ save'[s].at \notin Locked /\ save'[s].op = save[s].op
<1> DEFINE e == save[s]
           f == [e EXCEPT !.at = p]
<1>1. e \in FormType /\ FormGood(e)
  BY DEF Base, PTypes, FormsGood
<1>2. f \in FormType /\ f.at = p /\ f.op = e.op /\ f.r = e.r /\ f.ver = e.ver /\ f.shown = e.shown
  BY <1>1 DEF FormType
<1>3. Sets(s, f) /\ save'[s] = f
  BY DEF Ends, Goes, Sets, Base, PTypes
<1>4. lock' = IF lock = s THEN Nobody ELSE lock
  BY DEF Ends
<1>5. e = save[s]
  OBVIOUS
<1> HIDE DEF e, f
<1>6. FormGood(f)
  BY <1>1, <1>2, <1>5 DEF FormGood, GoodIn, Adds, Locked
<1>7. MovesForm(s)
  BY <1>2, <1>3, <1>4, EndsLock
<1> QED
  BY <1>2, <1>3, <1>5, <1>6, <1>7

LEMMA EndMoves ==
  ASSUME Base, NEW s \in Saves, NEW p \in Places \ (Locked \cup {"loading"}), Fails(s, p)
         \/ Fault(s, p),
         save[s].at # "loading", UNCHANGED <<store, members, listed>>
  PROVE  Steady(s) /\ save'[s].op = save[s].op
  BY MayTypes, Ended DEF Base, PTypes, Fails, Fault, PanelKinds, Steady, Locked

LEMMA RenameMoves ==
  ASSUME Base, NEW s \in Saves, Rename(s)
  PROVE  RenameMove(s)
<1> DEFINE e == save[s]
<1>1. e \in FormType /\ FormGood(e) /\ e.at = "rename" /\ e.op = "update" /\ e.r \in Rows
  BY DEF Base, PTypes, FormsGood, Rename, At, FormGood, GoodIn, FormType
<1>2. e.ch \in Chans
  BY SMTT(30), <1>1, NumbersOf DEF FormGood, GoodIn, Adds, Base, PTypes, RowsGood
<1>3. CASE UNCHANGED chan /\ (Fails(s, "refused") \/ Fault(s, "refused"))
  BY <1>1, <1>3, EndMoves DEF RenameMove, Rename, Places, Locked
<1>4. CASE /\ Stands(save[s].ch) /\ chan' = [chan EXCEPT ![save[s].ch] = save[s].name]
           /\ May("lost") /\ Ends(s, "refused")
  BY <1>1, <1>2, <1>4, MayTypes, Ended DEF Base, PanelKinds, Steady, RenameMove, Rename,
     Places, Locked
<1>5. CASE /\ Stands(save[s].ch) /\ chan' = [chan EXCEPT ![save[s].ch] = save[s].name]
           /\ Sets(s, [save[s] EXCEPT !.at = "write", !.renamed = TRUE])
           /\ UNCHANGED <<lock, panelLeft>>
  BY ZenonT(60), <1>1, <1>2, <1>5, StaysLock DEF FormType, Places, Locked, Sets, Base, PTypes,
     FormGood, GoodIn, Adds, Steady, RenameMove, Rename
<1> QED
  BY <1>3, <1>4, <1>5 DEF Rename

LEMMA MakeMoves ==
  ASSUME Base, NEW s \in Saves, Make(s)
  PROVE  MakeMove(s)
<1> DEFINE e == save[s]
<1>1. e \in FormType /\ FormGood(e) /\ e.at = "make" /\ e.op = "create"
  BY DEF Base, PTypes, FormsGood, Make, At, FormGood, GoodIn
<1>2. CASE UNCHANGED <<chan, leftOver>> /\ (Fails(s, "refused") \/ Fault(s, "refused"))
  BY <1>1, <1>2, EndMoves DEF MakeMove, Make, Places, Locked
<1>3. CASE \E c \in Unmade : /\ chan' = [chan EXCEPT ![c] = Typed]
                             /\ May("lost") /\ Ends(s, "refused") /\ leftOver' = leftOver \cup {c}
  BY <1>1, <1>3, MayTypes, Ended DEF Base, PanelKinds, Steady, Make, Places, Locked,
     MakeMove, Unmade
<1>4. CASE \E c \in Unmade : /\ chan' = [chan EXCEPT ![c] = Typed]
                             /\ Sets(s, [save[s] EXCEPT !.at = "write", !.ch = c])
                             /\ UNCHANGED <<lock, panelLeft, leftOver>>
  <2>0. PICK c \in Unmade : /\ chan' = [chan EXCEPT ![c] = Typed]
                            /\ Sets(s, [save[s] EXCEPT !.at = "write", !.ch = c])
                            /\ UNCHANGED <<lock, panelLeft, leftOver>>
    BY <1>4
  <2> DEFINE f == [e EXCEPT !.at = "write", !.ch = c]
  <2>1. c \in Chans
    BY DEF Unmade
  <2>2. /\ f \in FormType /\ f.at = "write" /\ f.op = e.op /\ f.r = e.r /\ f.ch = c
    BY <1>1, <2>1 DEF FormType, Places, Locked
  <2>3. Sets(s, f) /\ save'[s] = f
    BY <2>0 DEF Sets, Base, PTypes
  <2>4. e = save[s]
    OBVIOUS
  <2> HIDE DEF f, e
  <2>5. FormGood(f)
    BY <1>1, <2>1, <2>2 DEF FormGood, GoodIn, Adds
  <2>6. MovesForm(s)
    BY <1>1, <2>0, <2>2, <2>3, <2>4, StaysLock DEF Locked
  <2>7. Steady(s)
    BY <2>0, <2>2, <2>3, <2>5, <2>6 DEF Steady, Make, Base, PTypes
  <2> QED
    BY <1>1, <2>0, <2>1, <2>2, <2>3, <2>4, <2>7 DEF MakeMove, Make
<1> QED
  BY <1>2, <1>3, <1>4 DEF Make

LEMMA UndoMoves ==
  ASSUME Base, NEW s \in Saves, Undo(s)
  PROVE  UndoMove(s)
  BY EndMoves DEF Base, PTypes, FormsGood, Undo, At, FormGood, GoodIn, Adds, UndoMade,
     Places, Locked, UndoMove

LEMMA ApplyEnds ==
  ASSUME Base, NEW s \in Saves, Apply(s)
  PROVE  ApplyMove(s)
  BY EndMoves DEF Apply, At, world, Places, Locked, ApplyMove

WorldMove ==
  /\ UNCHANGED <<store, runtime, lock, save, leftOver>> /\ panelLeft' \in [PanelKinds -> Nat]
  /\ members' \in 0 .. MaxMembers /\ listed' \in BOOLEAN
  /\ \/ UNCHANGED chan
     \/ \E c \in Chans, n \in ChanNames : Stands(c) /\ chan' = [chan EXCEPT ![c] = n]
LEMMA WorldMoves ==
  ASSUME Base, World
  PROVE  WorldMove
  BY MayTypes DEF Base, PTypes, World, PanelKinds, WorldMove, ChanNames

Kind(s) == Quiet(s) \/ RenameMove(s) \/ MakeMove(s) \/ UndoMove(s) \/ WriteMove(s) \/ ApplyMove(s)
LEMMA SaveMoves ==
  ASSUME Base, StoreTold, NEW s \in Saves, Browser(s) \/ SaveSteps(s)
  PROVE  Kind(s)
BY QuietSteps, RenameMoves, MakeMoves, UndoMoves, WriteMoves, ApplyEnds
   DEF Browser, SaveSteps, Kind, QuietStep

(* The lock and the forms, after a step of a save.                         *)
LEMMA SaveKeeps ==
  ASSUME Base, StoreTold, NEW s \in Saves, Kind(s)
  PROVE  MovesForm(s) /\ panelLeft' \in [PanelKinds -> Nat] /\ GoodIn(save'[s], row', given')
         /\ (UNCHANGED store \/ \E who \in {"here", "else"} : StoreMoves(who))
<1>1. CASE Quiet(s) \/ RenameMove(s) \/ MakeMove(s) \/ UndoMove(s) \/ ApplyMove(s)
  BY <1>1 DEF Quiet, RenameMove, MakeMove, UndoMove, ApplyMove, Steady, FormGood, store
<1>2. CASE WriteMove(s)
  BY <1>2, OwnMoves, StoreForms DEF WriteMove, Unwrites, Applying, FormGood, store,
     MovesForm, Base, PTypes, RowTypes
<1> QED
  BY <1>1, <1>2 DEF Kind

(* The rows and the forms of the other saves, after any step.              *)
LEMMA RowsKeep ==
  ASSUME Base, StoreTold, UNCHANGED store \/ \E who \in {"here", "else"} : StoreMoves(who)
  PROVE  /\ RowTypes' /\ RowsGood' /\ StoreTold'
         /\ \A f \in FormType : GoodIn(f, row, given) => GoodIn(f, row', given')
  BY StoreTypes, StoreRows, StoreTells, StoreForms DEF Base, PTypes, RowTypes, store,
     RowsGood, StoreTold, Live

LEMMA LockKeeps ==
  ASSUME Base, NEW s \in Saves, MovesForm(s)
  PROVE  save' \in [Saves -> FormType] /\ Holds' /\ lock' \in Saves \cup {Nobody}
         /\ \A t \in Saves \ {s} : save'[t] = save[t]
BY DEF MovesForm, Base, PTypes, Holds

LEMMA WorldTypes ==
  ASSUME Base, StoreTold, NEW s \in Saves, Kind(s)
  PROVE  /\ runtime' \in [Chans \cup {Nowhere} -> [r : Rows, val : Values \cup {None}]]
         /\ chan' \in [Chans -> ChanNames] /\ members' \in 0 .. MaxMembers /\ listed' \in BOOLEAN
<1> DEFINE e == save[s]
<1>1. e \in FormType
  BY DEF Base, PTypes
<1>2. CASE Quiet(s) \/ WriteMove(s)
  BY <1>2 DEF Quiet, WriteMove, world, Base, PTypes
<1>3. CASE RenameMove(s) \/ MakeMove(s) \/ UndoMove(s)
  BY <1>1, <1>3 DEF RenameMove, MakeMove, UndoMove, Steady, FormType, ChanNames, Base,
     PTypes
<1>4. CASE ApplyMove(s)
  BY <1>1, <1>4 DEF ApplyMove, Steady, FormType, Rows, Applied, NothingOf, Base, PTypes
<1> QED
  BY <1>2, <1>3, <1>4 DEF Kind

(* What a step is one of.                                                  *)
PanelStep ==
  \/ \E s \in Saves : Kind(s)
  \/ /\ StoreMoves("else") /\ UNCHANGED <<world, runtime, lock, save>>
     /\ panelLeft' \in [PanelKinds -> Nat]
  \/ WorldMove
LEMMA PanelSteps ==
  ASSUME Base, StoreTold, PanelNext
  PROVE  PanelStep
BY SaveMoves, OtherMoves, WorldMoves DEF PanelNext, PanelStep

LEMMA BaseKeeps ==
  ASSUME Base, StoreTold, PanelStep
  PROVE  Base' /\ StoreTold'
<1>0. UNCHANGED store \/ \E who \in {"here", "else"} : StoreMoves(who)
  BY SaveKeeps DEF PanelStep, WorldMove
<1>1. /\ RowTypes' /\ RowsGood' /\ StoreTold'
      /\ \A f \in FormType : GoodIn(f, row, given) => GoodIn(f, row', given')
  BY <1>0, RowsKeep
<1>2. ASSUME NEW s \in Saves, Kind(s)
      PROVE  Base'
  BY <1>1, <1>2, SaveKeeps, LockKeeps, WorldTypes DEF Base, PTypes, FormsGood, FormGood,
     RowTypes
<1>3. ASSUME UNCHANGED <<lock, save>>, runtime' = runtime, panelLeft' \in [PanelKinds -> Nat],
             chan' \in [Chans -> ChanNames], members' \in 0 .. MaxMembers, listed' \in BOOLEAN
      PROVE  Base'
  BY <1>1, <1>3 DEF Base, Holds, PTypes, RowTypes, FormsGood, FormGood
<1>4. CASE StoreMoves("else") /\ UNCHANGED <<world, runtime, lock, save>>
           /\ panelLeft' \in [PanelKinds -> Nat]
  BY <1>1, <1>3, <1>4 DEF world, Base, PTypes
<1>5. CASE WorldMove
  BY <1>1, <1>3, <1>5 DEF WorldMove, Base, PTypes
<1> QED
  BY <1>1, <1>2, <1>4, <1>5 DEF PanelStep

-----------------------------------------------------------------------------
(* A save that is about to tell the runtime: the row is as it wrote it,    *)
(* unless another has written it since, and no other row this process      *)
(* wrote has the channel.                                                  *)
AppliedTells(s) ==
  LET f == save[s] IN
  save[s].at = "apply" =>
    /\ f.r <= given /\ row[f.r].ch = f.ch
    /\ f.op = "remove" => ~Live(f.r)
    /\ f.op # "remove" /\ teller[f.r] = "here" => Live(f.r) /\ row[f.r].val = f.val
    /\ \A h \in Hubs \ {f.r} : Live(h) /\ row[h].ch = f.ch => teller[h] = "else"
Applies == \A s \in Saves : AppliedTells(s)
(* A hub in the runtime is at its own channel.                             *)
RuntimeAt == \A c \in Chans : runtime[c].r # Section => row[runtime[c].r].ch = c
(* The runtime has the rows this process wrote, but for the row of the     *)
(* save about to tell it.                                                  *)
Due(r) == \E s \in Saves : save[s].at = "apply" /\ save[s].r = r
Shown(r) ==
  /\ teller[r] = "here" /\ Live(r) => runtime[row[r].ch] = [r |-> r, val |-> row[r].val]
  /\ r # Section /\ teller[r] = "here" /\ ~Live(r) => \A c \in Chans : runtime[c].r # r
RowsShown == \A r \in Rows : ~Due(r) => Shown(r)
(* A channel a create made, before its row is written.                     *)
Making(c) == \E s \in Saves : save[s].op = "create" /\ save[s].at \in {"write", "undo"}
/\ save[s].ch = c
ChansMade == \A c \in Chans \ {1} :
  Stands(c) => (\E r \in Hubs : row[r].ch = c) \/ c \in leftOver \/ Making(c)

(* The one row a write touches.                                            *)
Touches(n, who) ==
  /\ teller' = [teller EXCEPT ![n] = who]
  /\ \A r \in Rows \ {n} : row'[r] = row[r]
  /\ n <= given => row'[n].ch = row[n].ch
  /\ n <= given /\ n # Section /\ row'[n].ver > 0 => row[n].ver > 0
  /\ given' \in Nat /\ given <= given' /\ n <= given'
LEMMA MovesTouch ==
  ASSUME RowTypes, RowsGood, NEW who \in {"here", "else"}, StoreMoves(who)
  PROVE  \E n \in Rows : Touches(n, who)
<1> USE NumbersOf
<1>0. given \in 0 .. MaxHubs
  BY DEF RowTypes
<1>1. ASSUME NEW r \in Rows, NEW v, Written(r, v, who)
      PROVE  Touches(r, who)
  BY <1>0, <1>1 DEF Written, RowsGood, RowTypes, Live, Touches
<1>2. ASSUME NEW v, NEW c, Added(v, c, who)
      PROVE  Touches(given + 1, who) /\ given + 1 \in Rows
  BY <1>0, <1>2 DEF Added, RowTypes, Touches
<1>3. ASSUME NEW r \in Hubs, Removed(r, who)
      PROVE  Touches(r, who)
  BY <1>0, <1>3 DEF Removed, RowsGood, RowTypes, Live, Touches
<1> QED
  BY <1>1, <1>2, <1>3 DEF StoreMoves

LEMMA OwnTouches ==
  ASSUME Base, NEW s \in Saves, NEW who \in {"here", "else"}, WritesOwn(s, who)
  PROVE  /\ Rewritten(s) \in Rows /\ Touches(Rewritten(s), who)
         /\ save[s].op \in Adds => Rewritten(s) = given + 1
<1> USE NumbersOf
<1> DEFINE e == save[s]
<1>0. given \in 0 .. MaxHubs /\ RowTypes /\ RowsGood /\ e.r \in Rows /\ e \in FormType
  BY DEF Base, PTypes, RowTypes, FormType
<1>1. CASE e.op \in Adds
  <2>1. Added(e.val, e.ch, who) /\ Rewritten(s) = given + 1
    BY <1>1 DEF WritesOwn, Adds, Rewritten
  <2> QED
    BY <1>0, <2>1 DEF Added, RowTypes, Touches
<1>2. CASE e.op \in {"update", "set"}
  <2>1. Written(e.r, e.val, who) /\ Rewritten(s) = e.r
    BY <1>2 DEF WritesOwn, Adds, Rewritten
  <2>2. e.r <= given
    BY <1>0, <2>1 DEF Written, RowsGood, RowTypes, Live
  <2> QED
    BY SMTT(30), <1>0, <1>2, <2>1, <2>2 DEF Written, RowTypes, Touches, Live, Adds
<1>3. CASE e.op = "remove"
  <2>1. Removed(e.r, who) /\ Rewritten(s) = e.r /\ e.r \in Hubs
    BY <1>3 DEF WritesOwn, Adds, Rewritten
  <2>2. e.r <= given
    BY <1>0, <2>1 DEF Removed, RowsGood, RowTypes, Live
  <2> QED
    BY <1>0, <1>3, <2>1, <2>2 DEF Removed, RowTypes, Touches, Live, Adds
<1> QED
  BY <1>0, <1>1, <1>2, <1>3 DEF FormType, Ops, Adds

LEMMA ChansStay ==
  ASSUME Base, UNCHANGED store \/ \E who \in {"here", "else"} : StoreMoves(who)
  PROVE  \A r \in Rows : row[r].ch \in Chans => row'[r].ch = row[r].ch
<1> USE NumbersOf
<1>1. CASE UNCHANGED store
  BY <1>1 DEF store
<1>2. CASE \E who \in {"here", "else"} : StoreMoves(who)
  <2>1. PICK who \in {"here", "else"} : StoreMoves(who)
    BY <1>2
  <2>2. PICK n \in Rows : Touches(n, who)
    BY <2>1, MovesTouch DEF Base, PTypes, RowTypes
  <2>3. \A r \in Rows : row[r].ch \in Chans => r <= given
    BY DEF Base, PTypes, RowsGood
  <2> QED
    BY <2>2, <2>3 DEF Touches
<1> QED
  BY <1>1, <1>2

LEMMA RuntimeAtKeeps ==
  ASSUME Base, StoreTold, Applies, RuntimeAt, PanelStep
  PROVE  RuntimeAt'
<1> USE NumbersOf
<1>0. UNCHANGED store \/ \E who \in {"here", "else"} : StoreMoves(who)
  BY SaveKeeps DEF PanelStep, WorldMove
<1>1. \A r \in Rows : row[r].ch \in Chans => row'[r].ch = row[r].ch
  BY <1>0, ChansStay
<1>2. \A c \in Chans : runtime[c].r \in Rows
  BY DEF Base, PTypes
<1>3. CASE UNCHANGED runtime
  BY <1>1, <1>2, <1>3 DEF RuntimeAt
<1>4. ASSUME NEW s \in Saves, ApplyMove(s)
      PROVE  RuntimeAt'
  BY <1>4 DEF Base, PTypes, FormType, ApplyMove, Applies, AppliedTells, Steady, store,
     Applied, NothingOf, RuntimeAt
<1> QED
  BY <1>3, <1>4 DEF PanelStep, Kind, Quiet, RenameMove, MakeMove, UndoMove, WriteMove, WorldMove

(* Only one save applies what it wrote.                                    *)
LEMMA OneApplies ==
  ASSUME Base, NEW s \in Saves, save[s].at \in {"write", "apply"}, NEW t \in Saves,
         save[t].at = "apply"
  PROVE  t = s
BY DEF Base, Holds, Locked

LEMMA AppliesStays ==
  ASSUME Base, NEW s \in Saves, UNCHANGED store, MovesForm(s), save'[s].at # "apply", Applies
  PROVE  Applies'
  BY LockKeeps DEF Applies, AppliedTells, Live, store

(* The writer's own apply is true of the row until another writes it.      *)
LEMMA AppliesKeeps ==
  ASSUME Base, StoreTold, Applies, PanelStep
  PROVE  Applies'
<1> USE NumbersOf
<1>0. RowTypes /\ RowsGood /\ given \in Nat
  BY DEF Base, PTypes, RowTypes
<1>1. ASSUME NEW s \in Saves, Quiet(s) \/ RenameMove(s) \/ MakeMove(s) \/ UndoMove(s)
             \/ ApplyMove(s)
      PROVE  Applies'
  BY <1>1, AppliesStays DEF Quiet, RenameMove, MakeMove, UndoMove, ApplyMove, Steady
<1>2. ASSUME NEW s \in Saves, WriteMove(s)
      PROVE  Applies'
  <2>1. MovesForm(s) /\ save[s].at = "write"
    BY <1>2, SaveKeeps DEF Kind, WriteMove
  <2>2. \A t \in Saves : save'[t] = save[t] \/ t = s
    BY <2>1, LockKeeps
  <2>3. \A t \in Saves : save[t].at # "apply"
    BY <2>1, OneApplies
  <2>4. CASE Unwrites(s)
    BY <2>2, <2>3, <2>4 DEF Applies, AppliedTells, Unwrites
  <2>5. CASE WritesOwn(s, "here") /\ Applying(s)
    <3> DEFINE f == save'[s]
               n == Rewritten(s)
               e == save[s]
    <3>1. /\ f.at = "apply" /\ f.r = n /\ f.op = e.op /\ f.ch = e.ch /\ f.val = e.val
          /\ n \in Rows /\ Touches(n, "here") /\ (e.op \in Adds => n = given + 1)
          /\ e \in FormType
      BY <2>5, OwnTouches DEF Applying, Base, PTypes
    <3>2. RowTypes' /\ StoreTold'
      BY <2>5, OwnMoves, RowsKeep
    <3>3. CASE e.op \in Adds
      <4>1. row'[n] = [ver |-> 1, val |-> e.val, ch |-> e.ch] /\ n <= given' /\ e.ch \in Chans
        BY <2>5, <3>1, <3>3, <1>0 DEF WritesOwn, Adds, Added, RowTypes, Touches
      <4>2. n \in Hubs
        BY <1>0, <3>1, <3>3
      <4>3. \A h \in Hubs \ {n} : ~(row'[h].ver > 0 /\ row'[h].ch = e.ch)
        BY <3>2, <4>1, <4>2 DEF StoreTold, Live
      <4> QED
        BY <2>2, <2>3, <3>1, <3>3, <4>1, <4>3 DEF Applies, AppliedTells, Live, Adds
    <3>4. CASE e.op \in {"update", "set"}
      <4>1. /\ Written(e.r, e.val, "here") /\ e.ch = row[e.r].ch /\ n = e.r
        BY <2>5, <3>4 DEF WritesOwn, Adds, Rewritten
      <4>2. row[n] \in [ver : Nat, val : Values \cup {None}, ch : Chans \cup {Nowhere}]
        BY <1>0, <3>1 DEF RowTypes
      <4>3. /\ row'[n].ver > 0 /\ row'[n].val = e.val /\ row'[n].ch = e.ch /\ n <= given'
        BY <1>0, <3>1, <4>1, <4>2 DEF Written, RowTypes, Touches
      <4>4. \A h \in Hubs \ {n} : ~(row'[h].ver > 0 /\ row'[h].ch = e.ch)
        <5>1. CASE n \in Hubs
          BY <3>2, <4>3, <5>1 DEF StoreTold, Live
        <5>2. CASE n = Section
          BY SMTT(30), <1>0, <3>1, <4>1, <5>2 DEF RowsGood, Touches, RowTypes
        <5> QED
          BY <3>1, <5>1, <5>2
      <4> QED
        BY <2>2, <2>3, <3>1, <3>4, <4>3, <4>4 DEF Applies, AppliedTells, Live, Adds
    <3>5. CASE e.op = "remove"
      <4>1. Removed(e.r, "here") /\ e.ch = row[e.r].ch /\ n = e.r /\ n \in Hubs
        BY <2>5, <3>5 DEF WritesOwn, Adds, Rewritten
      <4>2. /\ row'[n].ver = 0 /\ row'[n].ch = e.ch /\ n <= given'
        BY <1>0, <3>1, <4>1 DEF Removed, RowTypes, Touches
      <4>3. \A h \in Hubs \ {n} : ~(row[h].ver > 0 /\ row[h].ch = e.ch)
        BY <4>1 DEF StoreTold, Removed, Live
      <4>4. \A h \in Hubs \ {n} : ~(row'[h].ver > 0 /\ row'[h].ch = e.ch)
        BY <3>1, <4>3 DEF Touches
      <4> QED
        BY <2>2, <2>3, <3>1, <3>5, <4>2, <4>4 DEF Applies, AppliedTells, Live, Adds
    <3> QED
      BY <3>1, <3>3, <3>4, <3>5 DEF FormType, Ops, Adds
  <2> QED
    BY <1>2, <2>1, <2>4, <2>5 DEF WriteMove
<1>3. CASE StoreMoves("else") /\ UNCHANGED <<world, runtime, lock, save>>
  <2>1. PICK n \in Rows : Touches(n, "else")
    BY <1>0, <1>3, MovesTouch
  <2>2. ASSUME NEW t \in Saves, save[t].at = "apply"
        PROVE  AppliedTells(t)'
    <3> DEFINE f == save[t]
    <3>1. /\ f.r <= given /\ row[f.r].ch = f.ch /\ (f.op = "remove" => ~(row[f.r].ver > 0))
          /\ (f.op # "remove" /\ teller[f.r] = "here" => row[f.r].ver > 0 /\ row[f.r].val = f.val)
          /\ \A h \in Hubs \ {f.r} : row[h].ver > 0 /\ row[h].ch = f.ch => teller[h] = "else"
      BY <2>2 DEF Applies, AppliedTells, Live
    <3>2. f.r \in Rows /\ save' = save /\ (f.op = "remove" => f.r # Section)
      BY <1>3 DEF Base, PTypes, FormType, FormsGood, FormGood, GoodIn
    <3>3. /\ row'[f.r].ch = row[f.r].ch
          /\ f.r # Section /\ row'[f.r].ver > 0 => row[f.r].ver > 0
          /\ row'[f.r] = row[f.r] \/ teller'[f.r] = "else"
          /\ teller'[f.r] = "here" => teller[f.r] = "here"
      BY <1>0, <2>1, <3>1, <3>2 DEF Touches, RowTypes
    <3>4. \A h \in Hubs : (row'[h] = row[h] /\ teller'[h] = teller[h]) \/ teller'[h] = "else"
      BY <1>0, <2>1 DEF Touches, RowTypes
    <3>5. f.r <= given'
      BY <1>0, <2>1, <3>1, <3>2 DEF Touches
    <3> QED
      BY <3>1, <3>2, <3>3, <3>4, <3>5 DEF AppliedTells, Live
  <2> QED
    BY <1>3, <2>2 DEF Applies, AppliedTells
<1>4. CASE WorldMove
  BY <1>4 DEF WorldMove, Applies, AppliedTells, Live, store
<1> QED
  BY <1>1, <1>2, <1>3, <1>4 DEF PanelStep, Kind

LEMMA ShownStays ==
  ASSUME Base, NEW s \in Saves, UNCHANGED <<store, runtime>>, MovesForm(s), RowsShown,
         save[s].at # "apply", save'[s].at # "apply"
  PROVE  RowsShown'
  BY LockKeeps DEF Due, RowsShown, Shown, Live, store

(* A row touched with no answer here is nobody's to show.                  *)
LEMMA ShownElse ==
  ASSUME Base, NEW n \in Rows, Touches(n, "else"), runtime' = runtime, RowsShown,
         \A r \in Rows : Due(r)' <=> Due(r)
  PROVE  RowsShown'
  BY DEF Base, PTypes, Touches, RowsShown, Shown, Live

LEMMA ShownApplied ==
  ASSUME Base, StoreTold, Applies, RuntimeAt, RowsShown, NEW s \in Saves, ApplyMove(s)
  PROVE  RowsShown'
<1> USE NumbersOf
<1> DEFINE e == save[s]
<1>1. /\ e \in FormType /\ e.r \in Rows /\ e.ch \in Chans \cup {Nowhere} /\ e.at = "apply"
      /\ (e.op = "set" <=> e.r = Section)
  BY DEF Base, PTypes, FormType, FormsGood, FormGood, GoodIn, ApplyMove
<1>2. /\ e.r <= given /\ row[e.r].ch = e.ch /\ (e.op = "remove" => ~Live(e.r))
      /\ (e.op # "remove" /\ teller[e.r] = "here" => Live(e.r) /\ row[e.r].val = e.val)
      /\ \A h \in Hubs \ {e.r} : Live(h) /\ row[h].ch = e.ch => teller[h] = "else"
  BY <1>1 DEF Applies, AppliedTells
<1>3. row' = row /\ teller' = teller
  BY DEF ApplyMove, Steady, store
<1>4. \A r \in Rows \ {e.r} : ~Due(r)
  BY <1>1, OneApplies DEF Due
<1> DEFINE new == IF e.op = "remove" THEN NothingOf(e.ch) ELSE [r |-> e.r, val |-> e.val]
<1>5. runtime'[e.ch] = new /\ \A c \in (Chans \cup {Nowhere}) \ {e.ch} : runtime'[c] = runtime[c]
  BY <1>1 DEF ApplyMove, Applied, Base, PTypes
<1>6. ASSUME NEW r \in Rows
      PROVE  Shown(r)'
  <2>1. CASE r = e.r
    BY <1>2, <1>3, <1>5, <2>1 DEF NothingOf, RuntimeAt, Shown, Live
  <2>2. CASE r # e.r
    <3>0. Shown(r)
      BY <1>4, <2>2 DEF RowsShown
    <3>1. ASSUME teller[r] = "here", Live(r)
          PROVE  runtime'[row[r].ch] = [r |-> r, val |-> row[r].val]
      <4>1. row[r].ch # e.ch
        BY SMTT(60), <1>1, <1>2, <2>2, <3>1 DEF Base, PTypes, RowsGood
      <4>2. row[r].ch \in Chans \cup {Nowhere}
        BY DEF Base, PTypes
      <4> QED
        BY <1>5, <3>0, <3>1, <4>1, <4>2 DEF Shown
    <3>2. ASSUME teller[r] = "here", r # Section, ~Live(r), NEW c \in Chans
          PROVE  runtime'[c].r # r
      BY <1>5, <2>2, <3>0, <3>2 DEF Shown, NothingOf
    <3> QED
      BY <1>3, <3>1, <3>2 DEF Shown, Live
  <2> QED
    BY <2>1, <2>2
<1> QED
  BY <1>6 DEF RowsShown

LEMMA ShownKeeps ==
  ASSUME Base, StoreTold, Applies, RuntimeAt, RowsShown, PanelStep
  PROVE  RowsShown'
<1>1. ASSUME NEW s \in Saves, Quiet(s) \/ RenameMove(s) \/ MakeMove(s) \/ UndoMove(s)
      PROVE  RowsShown'
  BY <1>1, ShownStays DEF Quiet, RenameMove, MakeMove, UndoMove, Steady
<1>2. ASSUME NEW s \in Saves, WriteMove(s)
      PROVE  RowsShown'
  <2>1. MovesForm(s) /\ save[s].at = "write" /\ runtime' = runtime
    BY <1>2, SaveKeeps DEF Kind, WriteMove
  <2>2. \A t \in Saves : save'[t] = save[t] \/ t = s
    BY <2>1, LockKeeps
  <2>3. CASE UNCHANGED store /\ Unwrites(s)
    BY <2>1, <2>3, ShownStays DEF Unwrites
  <2>4. CASE WritesOwn(s, "else") /\ Unwrites(s)
    BY <2>1, <2>2, <2>4, OwnTouches, ShownElse DEF Due, Unwrites
  <2>5. CASE WritesOwn(s, "here") /\ Applying(s)
    <3>1. PICK n \in Rows : Touches(n, "here") /\ save'[s].at = "apply" /\ save'[s].r = n
      BY <2>5, OwnTouches DEF Applying
    <3>2. Due(n)' /\ \A r \in Rows \ {n} : Due(r)' <=> Due(r)
      BY <2>1, <2>2, <3>1 DEF Due
    <3>3. \A r \in Rows \ {n} : row'[r] = row[r] /\ teller'[r] = teller[r]
      BY <3>1 DEF Touches, Base, PTypes
    <3> QED
      BY <2>1, <3>2, <3>3 DEF RowsShown, Shown, Live
  <2> QED
    BY <1>2, <2>3, <2>4, <2>5 DEF WriteMove
<1>3. ASSUME NEW s \in Saves, ApplyMove(s)
      PROVE  RowsShown'
  BY <1>3, ShownApplied
<1>4. CASE StoreMoves("else") /\ UNCHANGED <<world, runtime, lock, save>>
  BY <1>4, MovesTouch, ShownElse DEF Base, PTypes, RowTypes, Due
<1>5. CASE WorldMove
  BY <1>5 DEF WorldMove, RowsShown, Shown, Due, Live, store
<1> QED
  BY <1>1, <1>2, <1>3, <1>4, <1>5 DEF PanelStep, Kind

-----------------------------------------------------------------------------
(* A channel is a hub's, was one, or is left over.                         *)
ChanTold(c) == (\E r \in Hubs : row[r].ch = c) \/ c \in leftOver

LEMMA ToldStays ==
  ASSUME Base, UNCHANGED store \/ \E who \in {"here", "else"} : StoreMoves(who),
         leftOver \subseteq leftOver', NEW c \in Chans, ChanTold(c)
  PROVE  ChanTold(c)'
BY ChansStay, NumbersOf DEF ChanTold

LEMMA ChansKeep ==
  ASSUME Base, StoreTold, ChansMade, PanelStep
  PROVE  ChansMade'
<1> USE NumbersOf
<1>0. UNCHANGED store \/ \E who \in {"here", "else"} : StoreMoves(who)
  BY SaveKeeps DEF PanelStep, WorldMove
<1>1. chan \in [Chans -> ChanNames]
  BY DEF Base, PTypes
<1>2. SUFFICES ASSUME NEW c \in Chans \ {1}, Stands(c)'
               PROVE  ChanTold(c)' \/ Making(c)'
  BY DEF ChansMade, ChanTold
<1>3. Stands(c) => ChanTold(c) \/ Making(c)
  BY DEF ChansMade, ChanTold
<1>4. ASSUME NEW s \in Saves, Quiet(s) \/ RenameMove(s) \/ ApplyMove(s)
      PROVE  ChanTold(c)' \/ Making(c)'
  BY <1>0, <1>1, <1>2, <1>3, <1>4, LockKeeps, ToldStays DEF Quiet, RenameMove, ApplyMove,
     Steady, world, Stands, Making
<1>5. ASSUME NEW s \in Saves, MakeMove(s)
      PROVE  ChanTold(c)' \/ Making(c)'
  <2>1. MovesForm(s) /\ save[s].at = "make" /\ leftOver \subseteq leftOver'
    BY <1>5 DEF MakeMove, Steady
  <2>2. \A t \in Saves : save'[t] = save[t] \/ t = s
    BY <2>1, LockKeeps
  <2>3. Making(c) => Making(c)'
    BY <2>1, <2>2 DEF Making
  <2>4. CASE UNCHANGED <<chan, leftOver>>
    BY <1>0, <1>2, <1>3, <2>1, <2>3, <2>4, ToldStays DEF Stands
  <2>5. ASSUME NEW d \in Chans, chan' = [chan EXCEPT ![d] = Typed],
               \/ save'[s].op = "create" /\ save'[s].at = "write" /\ save'[s].ch = d
               \/ leftOver' = leftOver \cup {d}
        PROVE  ChanTold(c)' \/ Making(c)'
    BY <1>0, <1>1, <1>2, <1>3, <2>1, <2>3, <2>5, ToldStays DEF Making, ChanTold, Stands
  <2> QED
    BY <1>5, <2>4, <2>5 DEF MakeMove
<1>6. ASSUME NEW s \in Saves, UndoMove(s)
      PROVE  ChanTold(c)' \/ Making(c)'
  <2>1. MovesForm(s) /\ save[s].ch \in Chans /\ leftOver \subseteq leftOver'
    BY <1>6 DEF UndoMove, Steady
  <2>2. \A t \in Saves : save'[t] = save[t] \/ t = s
    BY <2>1, LockKeeps
  <2>3. c # save[s].ch /\ Making(c) => Making(c)'
    BY <2>2 DEF Making
  <2>4. CASE c = save[s].ch
    BY <1>1, <1>2, <1>6, <2>4 DEF UndoMove, Stands, ChanTold
  <2>5. CASE c # save[s].ch
    <3>1. Stands(c)
      BY <1>1, <1>2, <1>6, <2>5 DEF UndoMove, Stands
    <3> QED
      BY <1>0, <1>3, <2>1, <2>3, <2>5, <3>1, ToldStays
  <2> QED
    BY <2>4, <2>5
<1>7. ASSUME NEW s \in Saves, WriteMove(s)
      PROVE  ChanTold(c)' \/ Making(c)'
  <2>1. MovesForm(s) /\ save[s].at = "write" /\ chan' = chan /\ leftOver' = leftOver
    BY <1>7, SaveKeeps DEF Kind, WriteMove, world
  <2>2. \A t \in Saves : save'[t] = save[t] \/ t = s
    BY <2>1, LockKeeps
  <2>3. Stands(c)
    BY <1>2, <2>1 DEF Stands
  <2>4. CASE ChanTold(c)
    BY <1>0, <2>1, <2>4, ToldStays
  <2>5. CASE Making(c) /\ Unwrites(s)
    BY <2>2, <2>5 DEF Making, Unwrites
  <2>6. CASE Making(c) /\ WritesOwn(s, "here") /\ Applying(s)
    <3>1. PICK t \in Saves : save[t].op = "create" /\ save[t].at \in {"write", "undo"}
               /\ save[t].ch = c
      BY <2>6 DEF Making
    <3>2. t = s
      BY <2>1, <3>1 DEF Base, Holds, Locked
    <3>3. Added(save[s].val, c, "here")
      BY <2>6, <3>1, <3>2 DEF WritesOwn, Adds
    <3>4. given + 1 \in Hubs /\ row'[given + 1].ch = c
      BY <3>3 DEF Added, Base, PTypes
    <3> QED
      BY <3>4 DEF ChanTold
  <2> QED
    BY <1>3, <1>7, <2>3, <2>4, <2>5, <2>6 DEF WriteMove
<1>8. CASE StoreMoves("else") /\ UNCHANGED <<world, runtime, lock, save>>
  BY <1>0, <1>2, <1>3, <1>8, ToldStays DEF Stands, world, Making
<1>9. CASE WorldMove
  BY <1>0, <1>1, <1>2, <1>3, <1>9, ToldStays DEF Stands, WorldMove, Making
<1> QED
  BY <1>4, <1>5, <1>6, <1>7, <1>8, <1>9 DEF PanelStep, Kind

-----------------------------------------------------------------------------
(* The invariant of the saves.                                             *)
SavesInv == Base /\ StoreTold /\ Applies /\ RuntimeAt /\ RowsShown /\ ChansMade

LEMMA SavesInit == PanelInit => SavesInv
<1> USE NumbersOf
<1> SUFFICES ASSUME PanelInit
             PROVE  SavesInv
  OBVIOUS
<1>1. NoForm \in FormType
  BY PanelAssumption DEF NoForm, FormType, Places, Ops, Rows, ChanNames, NoCount, Section
<1>2. PTypes
  BY <1>1, PanelAssumption DEF PanelInit, ChanNames, NothingOf, PTypes
<1>3. \A s \in Saves : save[s] = NoForm
  BY DEF PanelInit
<1>4. Holds
  BY <1>3, PanelAssumption DEF PanelInit, Holds, NoForm, Locked
<1>5. RowsGood
  BY DEF PanelInit, RowsGood
<1>6. FormsGood
  BY <1>3 DEF PanelInit, GoodIn, NoForm, Adds, FormsGood, FormGood
<1>7. StoreTold
  BY DEF PanelInit, StoreTold, Live
<1>8. Applies /\ RuntimeAt /\ RowsShown
  BY <1>3 DEF PanelInit, Applies, AppliedTells, RuntimeAt, RowsShown, Shown, Live, NoForm, NothingOf
<1>9. ChansMade
  BY DEF PanelInit, ChansMade, Stands
<1> QED
  BY <1>2, <1>4, <1>5, <1>6, <1>7, <1>8, <1>9 DEF SavesInv, Base

LEMMA SavesNext == SavesInv /\ [PanelNext]_panelVars => SavesInv'
<1> SUFFICES ASSUME SavesInv, [PanelNext]_panelVars
             PROVE  SavesInv'
  OBVIOUS
<1>1. CASE PanelNext
  BY <1>1, PanelSteps, BaseKeeps, AppliesKeeps, RuntimeAtKeeps, ShownKeeps, ChansKeep DEF
     SavesInv
<1>2. CASE UNCHANGED panelVars
  <2>1. /\ row' = row /\ log' = log /\ given' = given /\ runtime' = runtime /\ chan' = chan
        /\ guild' = guild /\ members' = members /\ listed' = listed /\ lock' = lock /\ save' = save
        /\ teller' = teller /\ leftOver' = leftOver /\ panelLeft' = panelLeft
    BY <1>2 DEF panelVars
  <2>2. Base'
    BY <2>1 DEF SavesInv, Base, PTypes, Holds, RowsGood, FormsGood, FormGood
  <2>3. StoreTold' /\ Applies' /\ RuntimeAt' /\ RowsShown' /\ ChansMade'
    BY <2>1 DEF SavesInv, StoreTold, Applies, AppliedTells, RuntimeAt, RowsShown, Shown, Due,
       ChansMade,
                Stands, Making, Live
  <2> QED
    BY <2>2, <2>3 DEF SavesInv
<1> QED
  BY <1>1, <1>2

LEMMA SavesMean == SavesInv => PanelTypeOK /\ StoreTold /\ InStep
<1> SUFFICES ASSUME SavesInv
             PROVE  PanelTypeOK /\ StoreTold /\ InStep
  OBVIOUS
<1>1. PanelTypeOK
  BY DEF SavesInv, Base, PTypes, PanelTypeOK, FormType, ChanNames, Holds
<1>2. ASSUME lock = Nobody
      PROVE  /\ \A r \in Rows : teller[r] = "here" /\ Live(r) =>
                  runtime[row[r].ch] = [r |-> r, val |-> row[r].val]
             /\ \A r \in Hubs : teller[r] = "here" /\ ~Live(r) => \A c \in Chans : runtime[c].r # r
             /\ \A c \in Chans \ {1} : Stands(c) => \E r \in Hubs : row[r].ch = c \/ c \in leftOver
  <2>1. \A s \in Saves : save[s].at \notin Locked
    BY <1>2, PanelAssumption DEF SavesInv, Base, Holds
  <2>2. \A r \in Rows : ~Due(r)
    BY <2>1 DEF Due, Locked
  <2>3. \A c \in Chans : ~Making(c)
    BY <2>1 DEF Making, Locked
  <2>4. \A r \in Rows : Shown(r)
    BY <2>2 DEF SavesInv, RowsShown
  <2>5. \A c \in Chans \ {1} : Stands(c) => (\E r \in Hubs : row[r].ch = c) \/ c \in leftOver
    BY <2>3 DEF SavesInv, ChansMade
  <2>6. 1 \in Hubs
    BY NumbersOf
  <2> QED
    BY <2>4, <2>5, <2>6, NumbersOf DEF Shown
<1> QED
  BY <1>1, <1>2 DEF SavesInv, InStep

-----------------------------------------------------------------------------
(* What a step of one save does to another.                                *)
LEMMA OthersKeep ==
  ASSUME SavesInv, PanelStep, NEW s \in Saves, save'[s] # save[s]
  PROVE  Kind(s)
  BY SaveKeeps, LockKeeps DEF SavesInv, PanelStep, WorldMove

(* The three parts of SavesAsAsked.                                        *)
LEMMA OverShown ==
  ASSUME SavesInv, PanelStep, NEW s \in Saves
  PROVE  WritesOverShown(s)
<1> DEFINE r == save[s].r
<1> SUFFICES ASSUME save[s].op \in {"update", "set"}, save[s].at = "write", save'[s] # save[s],
                    row'[r] # row[r]
             PROVE  row[r].ver <= save[s].shown
  BY DEF WritesOverShown, At
<1>1. Kind(s)
  BY OthersKeep
<1>2. ~UNCHANGED store
  BY DEF store
<1>3. WriteMove(s)
  BY <1>1, <1>2 DEF Kind, Quiet, RenameMove, MakeMove, UndoMove, ApplyMove, Steady
<1>4. WritesOwn(s, "here") \/ WritesOwn(s, "else")
  BY <1>2, <1>3 DEF WriteMove
<1> QED
  BY <1>4 DEF WritesOwn, Adds

LEMMA TypedNames ==
  ASSUME SavesInv, PanelStep, NEW s \in Saves
  PROVE  RenamesTyped(s)
BY DEF RenamesTyped, SavesInv, Base, FormsGood, FormGood, GoodIn, At

LEMMA ConfirmedDrops ==
  ASSUME SavesInv, PanelNext, NEW s \in Saves
  PROVE  DropsConfirmed(s)
<1> DEFINE e == save[s]
<1> SUFFICES ASSUME e.at = "check", save'[s].at = "write", e.op = "set", listed, Drops(s) > 0
             PROVE  e.count = Drops(s)
  BY DEF DropsConfirmed, At
<1>0. e \in FormType /\ members \in Nat
  BY DEF SavesInv, Base, PTypes
<1>1. CheckSection(s)
  <2>1. \A t \in Saves : Browser(t) \/ SaveSteps(t) => t = s
    BY SaveMoves, SaveKeeps, LockKeeps DEF SavesInv
  <2>2. Browser(s) \/ SaveSteps(s)
    BY <2>1 DEF PanelNext, Other, World
  <2>3. ~Browser(s)
    BY DEF Browser, Open, Post, PostSection, Again, PreviewShown, At
  <2> QED
    BY <2>2, <2>3 DEF SaveSteps, ShowLog, WaitForGuild, TakeLock, ReadHubs, Read, Remove, CheckHub,
       Rename, Make, Undo, Write, Apply, At
<1>2. ASSUME NEW p, Goes(s, p), p # "write"
      PROVE  FALSE
  BY <1>0, <1>2 DEF Goes, Sets, SavesInv, Base, PTypes, FormType
<1>3. Counts(s) = Drops(s)
  BY DEF Counts
<1>4. CASE Previews(s) /\ ~Confirms(s)
  BY ZenonT(60), <1>0, <1>1, <1>2, <1>4 DEF Sets, SavesInv, Base, PTypes, FormType, CheckSection,
     GuildRead, Fails, Ends
<1>5. CASE Confirms(s)
  BY <1>3, <1>5 DEF Confirms
<1>6. CASE ~Previews(s)
  BY <1>0, <1>3, <1>6 DEF Previews, Drops
<1> QED
  BY <1>4, <1>5, <1>6

-----------------------------------------------------------------------------
SessionType == [signedIn : Nat, access : Accesses, discord : Lookups]
RequestType == [at : {"none", "exchange", "check", "page"}, id : Nat, copy : SessionType, found : Accesses]

SessionTypes ==
  /\ now \in 0 .. MaxNow /\ drawn \in 0 .. MaxIDs /\ made \in 0 .. MaxRequests
  /\ DOMAIN pending \subseteq 1 .. drawn /\ DOMAIN active \subseteq 1 .. drawn
  /\ \A i \in DOMAIN active : active[i] \in SessionType
  /\ req \in [Requests -> RequestType] /\ \A q \in Requests : req[q].id \in 0 .. drawn
  /\ ended \subseteq 1 .. drawn
  /\ admitted \in Seq(Nat) /\ \A n \in DOMAIN admitted : admitted[n] \in 1 .. drawn

(* A sign-in is pending, with one callback, or over.                       *)
Came(i) == \E n \in DOMAIN admitted : admitted[n] = i
SignInOnce ==
  /\ \A m, n \in DOMAIN admitted : admitted[m] = admitted[n] => m = n
  /\ \A i \in DOMAIN pending : ~Came(i)
  /\ \A q \in Requests : req[q].at = "exchange" =>
       /\ req[q].id \in 1 .. drawn /\ req[q].id \notin DOMAIN pending /\ ~Came(req[q].id)
       /\ \A p \in Requests \ {q} : req[p].at = "exchange" => req[p].id # req[q].id

(* A session ended is not there.                                           *)
Over == DOMAIN active \cap ended = {}
(* A page goes by its own request's check.                                 *)
OwnCheck == \A q \in Requests : req[q].at = "page" => req[q].copy.access = req[q].found
SessionsInv == SessionTypes /\ SignInOnce /\ Over /\ OwnCheck

(* A Discord account found stays found, in a step.                         *)
FoundStays == \A i \in DOMAIN active \cap DOMAIN active' :
                active[i].discord = "found" => active'[i].discord = "found"

LEMMA SessionNumbers ==
  /\ MaxNow \in Nat /\ MaxIDs \in Nat /\ MaxRequests \in Nat
  /\ SessionLifetime \in Nat /\ PendingLifetime \in Nat
BY SessionsAssumption

(* The store of sessions with one more, and without one.                   *)
LEMMA WithDomain ==
  ASSUME NEW f, NEW i, NEW v
  PROVE  DOMAIN With(f, i, v) = DOMAIN f \cup {i}
BY DEF With

LEMMA WithoutIs ==
  ASSUME NEW f, NEW i
  PROVE  /\ DOMAIN Without(f, i) = DOMAIN f \ {i}
         /\ \A j \in DOMAIN f \ {i} : Without(f, i)[j] = f[j]
BY DEF Without

LEMMA NoRequestType == NoRequest \in RequestType /\ NoRequest.at = "none" /\ NoRequest.id = 0
BY DEF NoRequest, RequestType, SessionType, Session, Accesses, Lookups

LEMMA SessionTyped ==
  ASSUME NEW t \in Nat, NEW a \in Accesses, NEW d \in Lookups
  PROVE  Session(t, a, d) \in SessionType
BY DEF Session, SessionType

LEMMA DrawnNat == SessionsInv => drawn \in Nat
BY DEF SessionsInv, SessionTypes

(* A request that turns to one that is no sign-in.                         *)
LEMMA TurnsTo ==
  ASSUME SessionsInv, NEW q \in Requests, NEW r \in RequestType, Turns(q, r), r.id \in 0 .. drawn,
         r.at = "page" => r.copy.access = r.found, UNCHANGED drawn
  PROVE  /\ req' \in [Requests -> RequestType] /\ \A p \in Requests : req'[p].id \in 0 .. drawn'
         /\ OwnCheck'
         /\ req'[q] = r /\ \A p \in Requests \ {q} : req'[p] = req[p]
BY DEF SessionsInv, SessionTypes, Turns, OwnCheck

(* A step that draws no sign-in keeps each at one session.                 *)
LEMMA OnceStays ==
  ASSUME SessionsInv, NEW q \in Requests, NEW r \in RequestType, Turns(q, r), r.at # "exchange",
         drawn <= drawn', drawn' \in Nat, DOMAIN pending' \subseteq DOMAIN pending,
         UNCHANGED admitted
  PROVE  SignInOnce'
  BY DEF SessionsInv, SessionTypes, Turns, Came, SignInOnce

LEMMA OnceKept ==
  ASSUME SessionsInv, UNCHANGED <<req, admitted, drawn>>, DOMAIN pending' \subseteq DOMAIN pending
  PROVE  SignInOnce'
  BY DEF Came, SessionsInv, SignInOnce

(* The sign-ins.                                                           *)
LEMMA AuthStartKeeps ==
  ASSUME SessionsInv, AuthStart
  PROVE  SessionsInv' /\ FoundStays
<1> USE SessionNumbers
<1>0. DOMAIN With(pending, drawn + 1, now) = DOMAIN pending \cup {drawn + 1}
  BY WithDomain
<1>1. drawn' = drawn + 1 /\ DOMAIN pending' = DOMAIN pending \cup {drawn + 1} /\ drawn \in Nat
      /\ UNCHANGED <<now, active, req, made, ended, admitted>>
  BY <1>0 DEF AuthStart, SessionsInv, SessionTypes
<1>2. SessionTypes'
  BY <1>1 DEF SessionsInv, SessionTypes, AuthStart
<1>3. \A i : Came(i)' <=> Came(i)
  BY <1>1 DEF Came
<1>4. ~Came(drawn + 1) /\ \A q \in Requests : req[q].id # drawn + 1
  BY <1>1 DEF SessionsInv, SessionTypes, Came
<1>5. SignInOnce'
  BY <1>1, <1>3, <1>4 DEF SessionsInv, SignInOnce
<1> QED
  BY <1>1, <1>2, <1>5 DEF SessionsInv, Over, OwnCheck, FoundStays

LEMMA CallbackKeeps ==
  ASSUME SessionsInv, NEW q \in Requests, NEW i \in IDs, Callback(q, i)
  PROVE  SessionsInv' /\ FoundStays
<1> USE SessionNumbers
<1>0. DOMAIN Without(pending, i) = DOMAIN pending \ {i}
  BY WithoutIs
<1>1. /\ i \in DOMAIN pending /\ DOMAIN pending' = DOMAIN pending \ {i}
         /\ made' \in 0 .. MaxRequests
      /\ UNCHANGED <<now, active, drawn, ended, admitted>> /\ drawn \in Nat
  BY SMTT(30), <1>0 DEF Callback, Taken, Begins, SessionsInv, SessionTypes
<1>2. i \in 1 .. drawn /\ ~Came(i)
  BY <1>1 DEF SessionsInv, SessionTypes, SignInOnce
<1>3. \A j : Came(j)' <=> Came(j)
  BY <1>1 DEF Came
<1>4. CASE Turns(q, NoRequest)
  <2>1. OwnCheck' /\ req' \in [Requests -> RequestType]
        /\ \A p \in Requests : req'[p].id \in 0 .. drawn'
    BY <1>1, <1>4, NoRequestType, TurnsTo
  <2>2. SignInOnce'
    BY <1>1, <1>4, NoRequestType, OnceStays
  <2> QED
    BY <1>1, <2>1, <2>2 DEF SessionsInv, SessionTypes, Over, FoundStays
<1>5. CASE Turns(q, [NoRequest EXCEPT !.at = "exchange", !.id = i])
  <2> DEFINE r == [NoRequest EXCEPT !.at = "exchange", !.id = i]
  <2>0. i \in Nat /\ i \in 0 .. drawn
    BY <1>1, <1>2
  <2>1. r \in RequestType /\ r.at = "exchange" /\ r.id = i
    BY <2>0, NoRequestType DEF RequestType
  <2> HIDE DEF r
  <2>2. /\ req' \in [Requests -> RequestType] /\ \A p \in Requests : req'[p].id \in 0 .. drawn'
        /\ OwnCheck' /\ req'[q] = r /\ \A p \in Requests \ {q} : req'[p] = req[p]
    BY ZenonT(30), <1>1, <1>5, <2>0, <2>1, TurnsTo DEF r
  <2>3. SignInOnce'
    BY <1>1, <1>2, <1>3, <2>1, <2>2 DEF SessionsInv, SignInOnce
  <2> QED
    BY <1>1, <2>2, <2>3 DEF SessionsInv, SessionTypes, Over, FoundStays
<1> QED
  BY <1>4, <1>5 DEF Callback

LEMMA SignInKeeps ==
  ASSUME SessionsInv, NEW q \in Requests, SignIn(q)
  PROVE  SessionsInv' /\ FoundStays
<1> USE SessionNumbers
<1>1. req[q].at = "exchange" /\ UNCHANGED <<now, made, pending, ended>> /\ Turns(q, NoRequest)
  BY DEF SignIn, Elsewhere
<1>2. CASE UNCHANGED <<active, drawn, admitted>>
  BY SMTT(30), <1>1, <1>2, NoRequestType, TurnsTo, DrawnNat, OnceStays DEF SessionsInv,
     SessionTypes, Over, FoundStays
<1>3. ASSUME NEW a \in Accesses, NEW d \in Lookups, drawn < MaxIDs, drawn' = drawn + 1,
             active' = With(active, drawn + 1, Session(now, a, d)),
             admitted' = Append(admitted, req[q].id)
      PROVE  SessionsInv' /\ FoundStays
  <2> DEFINE n == Len(admitted) + 1
  <2>0. /\ drawn \in Nat /\ drawn + 1 \in 0 .. MaxIDs /\ now \in Nat /\ admitted \in Seq(Nat)
        /\ req \in [Requests -> RequestType] /\ req[q].id \in 1 .. drawn
    BY <1>1, <1>3 DEF SessionsInv, SessionTypes, SignInOnce
  <2>1. /\ req'[q] = NoRequest /\ \A p \in Requests \ {q} : req'[p] = req[p]
        /\ req' \in [Requests -> RequestType]
    BY <1>1, <2>0, NoRequestType DEF Turns
  <2>2. /\ DOMAIN active' = DOMAIN active \cup {drawn + 1}
           /\ active'[drawn + 1] = Session(now, a, d)
        /\ \A j \in DOMAIN active \ {drawn + 1} : active'[j] = active[j]
    BY <1>3 DEF With
  <2>3. drawn + 1 \notin DOMAIN active /\ drawn + 1 \notin ended
    BY <2>0 DEF SessionsInv, SessionTypes
  <2>4. /\ admitted' \in Seq(Nat) /\ DOMAIN admitted' = DOMAIN admitted \cup {n}
           /\ n \notin DOMAIN admitted
        /\ admitted'[n] = req[q].id /\ \A m \in DOMAIN admitted : admitted'[m] = admitted[m]
    BY <1>3, <2>0 DEF RequestType
  <2> HIDE DEF n
  <2>5. SessionTypes'
    <3>1. active'[drawn + 1] \in SessionType
      BY <2>0, <2>2, SessionTyped
    <3>2. \A p \in Requests : req'[p].id \in 0 .. drawn'
      BY SMTT(30), <1>3, <2>0, <2>1, NoRequestType DEF SessionsInv, SessionTypes
    <3>3. DOMAIN active' \subseteq 1 .. drawn'
          /\ \A i \in DOMAIN active' : active'[i] \in SessionType
      BY SMTT(60), <1>3, <2>0, <2>2, <2>3, <3>1 DEF SessionsInv, SessionTypes
    <3>4. \A m \in DOMAIN admitted' : admitted'[m] \in 1 .. drawn'
      BY SMTT(30), <1>3, <2>0, <2>4 DEF SessionsInv, SessionTypes
    <3>5. DOMAIN pending' \subseteq 1 .. drawn' /\ ended' \subseteq 1 .. drawn'
      BY <1>1, <1>3, <2>0 DEF SessionsInv, SessionTypes
    <3> QED
      BY <1>1, <1>3, <2>0, <2>1, <2>4, <3>2, <3>3, <3>4, <3>5 DEF SessionsInv, SessionTypes
  <2>6. \A j : Came(j)' <=> Came(j) \/ j = req[q].id
    BY <2>4 DEF Came
  <2>7. SignInOnce'
    <3>1. ~Came(req[q].id) /\ req[q].id \notin DOMAIN pending
          /\ \A p \in Requests \ {q} : req[p].at = "exchange" => req[p].id # req[q].id
      BY <1>1 DEF SessionsInv, SignInOnce
    <3>2. \A m \in DOMAIN admitted : admitted[m] # req[q].id
      BY <3>1 DEF Came
    <3>3. \A m, k \in DOMAIN admitted' : admitted'[m] = admitted'[k] => m = k
      BY <2>4, <3>2 DEF SessionsInv, SignInOnce
    <3>4. \A i \in DOMAIN pending' : ~Came(i)'
      BY <1>1, <2>6, <3>1 DEF SessionsInv, SignInOnce
    <3>5. ASSUME NEW p \in Requests, req'[p].at = "exchange"
          PROVE  /\ req'[p].id \in 1 .. drawn' /\ req'[p].id \notin DOMAIN pending'
                 /\ ~(\E m \in DOMAIN admitted' : admitted'[m] = req'[p].id)
                 /\ \A k \in Requests \ {p} : req'[k].at = "exchange" => req'[k].id # req'[p].id
      <4>1. p # q /\ req'[p] = req[p]
        BY <2>1, <3>5, NoRequestType
      <4>2. /\ req[p].id \in 1 .. drawn /\ req[p].id \notin DOMAIN pending /\ ~Came(req[p].id)
            /\ \A k \in Requests \ {p} : req[k].at = "exchange" => req[k].id # req[p].id
        BY <3>5, <4>1 DEF SessionsInv, SignInOnce
      <4>3. ~(\E m \in DOMAIN admitted' : admitted'[m] = req[p].id)
        BY <2>6, <3>1, <3>5, <4>1, <4>2 DEF Came
      <4>4. \A k \in Requests \ {p} : req'[k].at = "exchange" => req'[k].id # req[p].id
        BY <2>1, <4>2, NoRequestType
      <4> QED
        BY <1>1, <1>3, <2>0, <4>1, <4>2, <4>3, <4>4
    <3> QED
      BY <3>3, <3>4, <3>5 DEF SignInOnce, Came
  <2>8. OwnCheck' /\ Over' /\ FoundStays
    BY <1>1, <2>1, <2>2, <2>3, NoRequestType DEF SessionsInv, OwnCheck, Over, FoundStays
  <2> QED
    BY <2>5, <2>7, <2>8 DEF SessionsInv
<1> QED
  BY <1>1, <1>2, <1>3 DEF SignIn

(* A step that takes sessions away, or changes what one holds.             *)
Narrows ==
  /\ DOMAIN active' \subseteq DOMAIN active
  /\ \A i \in DOMAIN active' :
       /\ active'[i] \in SessionType
       /\ active[i].discord = "found" => active'[i].discord = "found"
  /\ \E gone \in SUBSET DOMAIN active : ended' = ended \cup gone /\ DOMAIN active' \cap gone = {}

LEMMA NarrowKeeps ==
  ASSUME SessionsInv, Narrows, UNCHANGED drawn
  PROVE  Over' /\ FoundStays /\ DOMAIN active' \subseteq 1 .. drawn' /\ ended' \subseteq 1 .. drawn'
         /\ \A i \in DOMAIN active' : active'[i] \in SessionType
BY DEF SessionsInv, SessionTypes, Narrows, Over, FoundStays

LEMMA NarrowSame ==
  ASSUME SessionsInv, UNCHANGED <<active, ended>>
  PROVE  Narrows
<1>1. ended' = ended \cup {} /\ DOMAIN active' \cap {} = {} /\ {} \in SUBSET DOMAIN active
  OBVIOUS
<1> QED
  BY <1>1 DEF SessionsInv, SessionTypes, Narrows

LEMMA NarrowEnds ==
  ASSUME SessionsInv, NEW i \in DOMAIN active, active' = Without(active, i), ended' = ended \cup {i}
  PROVE  Narrows
<1>1. /\ DOMAIN active' = DOMAIN active \ {i}
      /\ \A j \in DOMAIN active \ {i} : active'[j] = active[j]
  BY WithoutIs
<1> QED
  BY <1>1 DEF SessionsInv, SessionTypes, Narrows

LEMMA NarrowSets ==
  ASSUME SessionsInv, NEW i \in DOMAIN active, NEW v \in SessionType, active' = With(active, i, v),
         UNCHANGED ended,
         active[i].discord = "found" => v.discord = "found"
  PROVE  Narrows
<1>0. /\ DOMAIN With(active, i, v) = DOMAIN active \cup {i} /\ With(active, i, v)[i] = v
      /\ \A j \in DOMAIN active \ {i} : With(active, i, v)[j] = active[j]
  BY DEF With
<1>1. /\ DOMAIN active' = DOMAIN active /\ active'[i] = v
      /\ \A j \in DOMAIN active \ {i} : active'[j] = active[j]
  BY <1>0
<1>2. ended' = ended \cup {} /\ DOMAIN active' \cap {} = {} /\ {} \in SUBSET DOMAIN active
  OBVIOUS
<1> QED
  BY <1>1, <1>2 DEF SessionsInv, SessionTypes, Narrows

(* A request's step that narrows, and is no sign-in.                       *)
LEMMA RequestKeeps ==
  ASSUME SessionsInv, Narrows, UNCHANGED <<now, pending, drawn, admitted>>,
         made' \in 0 .. MaxRequests,
         NEW q \in Requests, NEW r \in RequestType, Turns(q, r), r.id \in 0 .. drawn,
         r.at # "exchange",
         r.at = "page" => r.copy.access = r.found
  PROVE  SessionsInv' /\ FoundStays
<1>1. OwnCheck' /\ req' \in [Requests -> RequestType]
      /\ \A p \in Requests : req'[p].id \in 0 .. drawn'
  BY TurnsTo
<1>2. SignInOnce'
  BY OnceStays, DrawnNat
<1>3. /\ Over' /\ FoundStays /\ DOMAIN active' \subseteq 1 .. drawn' /\ ended' \subseteq 1 .. drawn'
      /\ \A i \in DOMAIN active' : active'[i] \in SessionType
  BY NarrowKeeps
<1>4. SessionTypes'
  BY <1>1, <1>3 DEF SessionsInv, SessionTypes
<1> QED
  BY <1>1, <1>2, <1>3, <1>4 DEF SessionsInv

LEMMA Finishes ==
  ASSUME SessionsInv, Narrows, UNCHANGED <<now, pending, drawn, admitted>>,
         made' \in 0 .. MaxRequests,
         NEW q \in Requests, Turns(q, NoRequest)
  PROVE  SessionsInv' /\ FoundStays
BY NoRequestType, DrawnNat, RequestKeeps

(* The requests of a session.                                              *)
LEMMA ArriveKeeps ==
  ASSUME SessionsInv, NEW q \in Requests, NEW i \in IDs, Arrive(q, i)
  PROVE  SessionsInv' /\ FoundStays
<1> USE SessionNumbers
<1>1. i \in 1 .. drawn /\ UNCHANGED <<now, pending, drawn, admitted>> /\ made' \in 0 .. MaxRequests
  BY SMTT(30) DEF Arrive, Begins, SessionsInv, SessionTypes
<1>2. CASE ~Has(i)
  BY <1>1, <1>2, NarrowSame, Finishes DEF Arrive
<1>3. CASE Has(i) /\ Expired(active[i])
  BY <1>1, <1>3, NarrowEnds, Finishes DEF Arrive, Has
<1>4. CASE Has(i) /\ ~Expired(active[i])
  <2> DEFINE r == [NoRequest EXCEPT !.at = "check", !.id = i, !.copy = active[i]]
  <2>1. active[i] \in SessionType
    BY <1>4 DEF Has, SessionsInv, SessionTypes
  <2>2. i \in Nat /\ i \in 0 .. drawn
    BY <1>1, DrawnNat
  <2>3. r \in RequestType /\ r.at = "check" /\ r.id = i
    BY <2>1, <2>2, NoRequestType DEF RequestType
  <2>4. Turns(q, r) /\ Narrows
    BY <1>4, NarrowSame DEF Arrive
  <2> HIDE DEF r
  <2> QED
    BY <1>1, <2>2, <2>3, <2>4, RequestKeeps
<1> QED
  BY <1>2, <1>3, <1>4

LEMMA CheckKeeps ==
  ASSUME SessionsInv, NEW q \in Requests, Check(q)
  PROVE  SessionsInv' /\ FoundStays
<1> DEFINE i == req[q].id
<1>1. /\ UNCHANGED <<now, pending, drawn, admitted>> /\ made' \in 0 .. MaxRequests
      /\ req[q] \in RequestType /\ i \in 0 .. drawn
  BY DEF Check, Elsewhere, SessionsInv, SessionTypes
<1>2. ASSUME NEW a \in Accesses, LET sess == [req[q].copy EXCEPT !.access = a] IN
               /\ active' = Updated(i, sess) /\ UNCHANGED ended
               /\ Turns(q, [req[q] EXCEPT !.at = "page", !.copy = PageOf(i, sess), !.found = a])
      PROVE  SessionsInv' /\ FoundStays
  BY <1>1, <1>2, NarrowSets, NarrowSame, RequestKeeps DEF RequestType, SessionType,
     PageOf, Has, SessionsInv, SessionTypes, Updated
<1>3. CASE Turns(q, NoRequest) /\ UNCHANGED <<active, ended>>
  BY <1>1, <1>3, NarrowSame, Finishes
<1>4. CASE /\ Turns(q, NoRequest) /\ active' = Without(active, i)
           /\ ended' = IF Has(i) THEN ended \cup {i} ELSE ended
  <2>1. Narrows
    <3>1. CASE Has(i)
      BY <1>4, <3>1, NarrowEnds DEF Has
    <3>2. CASE ~Has(i)
      <4>1. DOMAIN active' = DOMAIN active \ {i}
            /\ \A j \in DOMAIN active \ {i} : active'[j] = active[j]
        BY <1>4, WithoutIs
      <4>2. ended' = ended \cup {} /\ DOMAIN active' \cap {} = {} /\ {} \in SUBSET DOMAIN active
        BY <1>4, <3>2
      <4> QED
        BY <3>2, <4>1, <4>2 DEF Has, SessionsInv, SessionTypes, Narrows
    <3> QED
      BY <3>1, <3>2
  <2> QED
    BY <1>1, <1>4, <2>1, Finishes
<1> QED
  BY <1>2, <1>3, <1>4 DEF Check

LEMMA LookKeeps ==
  ASSUME SessionsInv, NEW q \in Requests, Look(q)
  PROVE  SessionsInv' /\ FoundStays
<1> DEFINE i == req[q].id
<1>1. UNCHANGED <<now, pending, drawn, admitted, ended>> /\ made' \in 0 .. MaxRequests
      /\ Turns(q, NoRequest)
  BY DEF Look, Elsewhere, SessionsInv, SessionTypes
<1>2. CASE UNCHANGED active
  BY <1>1, <1>2, NarrowSame, Finishes
<1>3. ASSUME NEW d \in Lookups, Has(i), active' = Kept(i, d)
      PROVE  SessionsInv' /\ FoundStays
  BY <1>1, <1>2, <1>3, NarrowSets, Finishes DEF Has, SessionsInv, SessionTypes, Kept,
     SessionType
<1> QED
  BY <1>2, <1>3 DEF Look

(* Sessions that end, and the clock.                                       *)
LEMMA SignOutKeeps ==
  ASSUME SessionsInv, NEW i \in IDs, SignOut(i)
  PROVE  SessionsInv' /\ FoundStays
  BY NarrowEnds, OnceKept, NarrowKeeps DEF SignOut, Has, SessionsInv, SessionTypes,
     OwnCheck

LEMMA TicksKeeps ==
  ASSUME SessionsInv, Ticks
  PROVE  SessionsInv' /\ FoundStays
  BY SessionNumbers, OnceKept DEF Ticks, SessionsInv, SessionTypes, Over, OwnCheck,
     FoundStays

LEMMA PruneKeeps ==
  ASSUME SessionsInv, Prune
  PROVE  SessionsInv' /\ FoundStays
<1> DEFINE late == {i \in DOMAIN active : Expired(active[i])}
           old == {i \in DOMAIN pending : now >= pending[i] + PendingLifetime}
<1>1. /\ active' = [i \in DOMAIN active \ late |-> active[i]] /\ ended' = ended \cup late
      /\ pending' = [i \in DOMAIN pending \ old |-> pending[i]]
      /\ UNCHANGED <<now, drawn, req, made, admitted>>
  BY DEF Prune
<1>2. late \subseteq DOMAIN active
  OBVIOUS
<1> HIDE DEF late, old
<1>3. Narrows
  BY <1>1, <1>2 DEF SessionsInv, SessionTypes, Narrows
<1>4. DOMAIN pending' \subseteq DOMAIN pending
  BY <1>1
<1>5. SignInOnce'
  BY <1>1, <1>4, OnceKept
<1>6. /\ Over' /\ FoundStays /\ DOMAIN active' \subseteq 1 .. drawn' /\ ended' \subseteq 1 .. drawn'
      /\ \A j \in DOMAIN active' : active'[j] \in SessionType
  BY <1>1, <1>3, NarrowKeeps
<1> QED
  BY <1>1, <1>4, <1>5, <1>6 DEF SessionsInv, SessionTypes, OwnCheck

LEMMA SessionsInitHolds == SessionsInit => SessionsInv
  BY SessionNumbers, NoRequestType DEF SessionsInit, SessionTypes, SessionsInv,
     SignInOnce, Over, OwnCheck, Came

LEMMA SessionsNextHolds == SessionsInv /\ [SessionsNext]_sessionVars => SessionsInv' /\ FoundStays
<1> SUFFICES ASSUME SessionsInv, [SessionsNext]_sessionVars
             PROVE  SessionsInv' /\ FoundStays
  OBVIOUS
<1>1. CASE SessionsNext
  BY <1>1, AuthStartKeeps, CallbackKeeps, SignInKeeps, ArriveKeeps, CheckKeeps, LookKeeps,
     SignOutKeeps,
     TicksKeeps, PruneKeeps DEF SessionsNext
<1>2. CASE UNCHANGED sessionVars
  BY <1>2, OnceKept DEF sessionVars, SessionsInv, SessionTypes, Over, OwnCheck, FoundStays
<1> QED
  BY <1>1, <1>2

-----------------------------------------------------------------------------
(* The two parts share nothing but the module that runs them.              *)
PanelInv == SavesInv /\ SessionsInv

LEMMA PanelInvInit == Init => PanelInv
BY SavesInit, SessionsInitHolds DEF Init, PanelInv

LEMMA StepsOf ==
  ASSUME [Next]_all
  PROVE  [PanelNext]_panelVars /\ [SessionsNext]_sessionVars
BY DEF Next, OfSaves, all

LEMMA PanelInvNext == PanelInv /\ [Next]_all => PanelInv'
BY StepsOf, SavesNext, SessionsNextHolds DEF PanelInv

LEMMA PanelInvHolds == Spec => []PanelInv
<1>1. Init => PanelInv
  BY PanelInvInit
<1>2. PanelInv /\ [Next]_all => PanelInv'
  BY PanelInvNext
<1> QED
  BY <1>1, <1>2, PTL DEF Spec

(* The store, its change log and the runtime agree after every save,       *)
(* whatever fails, races or is written elsewhere; each channel a create    *)
(* made is accounted for; and the save lock is held by the one save under  *)
(* way (store/postgres.go, panel/hubs.go saveHub, create, remove).         *)
THEOREM StoreRight == Spec => []StoreHolds
<1>1. PanelInv => StoreHolds
  BY SavesMean DEF SessionsInv, SessionTypes, SessionsTypeOK, SessionType, PanelInv,
     StoreHolds, TypesOK
<1> QED
  BY <1>1, PanelInvHolds, PTL

(* A save writes over nothing its form had not been loaded over or shown,  *)
(* renames a channel only to a name its user typed, and takes members away *)
(* only by a Confirm of as many; and no request in flight brings back a    *)
(* session that ended (formIsCurrent, postedBackVersion, editForm,         *)
(* setRankRoles, sessions.update).                                         *)
THEOREM SavesRight == Spec => SavesAsAsked
<1> DEFINE SavesStep == \A s \in Saves : WritesOverShown(s) /\ RenamesTyped(s) /\ DropsConfirmed(s)
           SessionsStep ==
             /\ DOMAIN active' \cap ended' = {}
             /\ \A i \in DOMAIN active \cap DOMAIN active' :
                  active[i].discord = "found" => active'[i].discord = "found"
             /\ \A m, n \in DOMAIN admitted' : admitted'[m] = admitted'[n] => m = n
             /\ \A q \in Requests : req'[q].at = "page" => req'[q].copy.access = req'[q].found
<1>1. PanelInv /\ [Next]_all => [SavesStep]_all
  BY PanelSteps, OverShown, TypedNames, ConfirmedDrops, StepsOf DEF PanelInv, SavesInv,
     panelVars, WritesOverShown, RenamesTyped, DropsConfirmed, At
<1>2. PanelInv /\ [Next]_all => [SessionsStep]_all
  BY StepsOf, SessionsNextHolds DEF PanelInv, SessionsInv, SignInOnce, Over, OwnCheck,
     FoundStays
<1> QED
  BY <1>1, <1>2, PanelInvHolds, PTL DEF Spec, SavesAsAsked, SessionsHold
=============================================================================
