--------------------------- MODULE FoxholeRecords ---------------------------
(***************************************************************************)
(* The Foxhole records: the notes and approvals managers save on the       *)
(* Foxhole page (panel/foxhole.go: saveNote, approve, clearApprovals), the *)
(* clear of an approval by a running removal, and the transactions of      *)
(* store/postgres.go that write them with their change log entries.        *)
(*                                                                         *)
(* A save reads the records and the member list, then runs a transaction   *)
(* under READ COMMITTED that takes one row lock after another and keeps    *)
(* them to its end.  One action is one statement.  Names are left out.     *)
(***************************************************************************)
EXTENDS Naturals, FiniteSets, Sequences, Functions

CONSTANTS
  Members,       \* Discord members
  Texts, NoNote, \* note texts, and the empty note
  Saves, Nobody, \* saves in flight, each of one manager or one removal
  SaveAllowances \* how often each kind of disturbance may happen: bounds

Approvals == {"internal", "external"}
SaveDisturbances == {"saves", "roles", "saveFault"}

ASSUME RecordsAssumption ==
  /\ IsFiniteSet(Members) /\ NoNote \notin Texts /\ Nobody \notin Saves
  /\ SaveAllowances \subseteq [SaveDisturbances -> Nat]

VARIABLES
  rows,     \* foxhole_records: what is committed, NoRow for no record
  changes,  \* foxhole_change_log, oldest first, with the removals' clears
  lock,     \* who holds each member's row lock
  save,     \* the saves in flight
  listed,   \* the roles each member holds in the member list, complete
  saveLeft  \* disturbances still to come, by kind

recordsVars == <<rows, changes, lock, save, listed, saveLeft>>

NoRow == [there |-> FALSE, note |-> NoNote, approved |-> {}]
Idle == [at |-> "idle", kind |-> "note", loaded |-> NoNote, note |-> NoNote, todo |-> <<>>,
         roles |-> [m \in Members |-> {}], wrote |-> [m \in Members |-> NoRow], hit |-> {}]
MaySave(k) == saveLeft[k] > 0 /\ saveLeft' = [saveLeft EXCEPT ![k] = @ - 1]
Orders == {q \in UNION {[1 .. n -> Members] : n \in 1 .. Cardinality(Members)} : IsInjective(q)}
Kinds == {"note", "approve", "clear", "removal"}
Records == [there : BOOLEAN, note : Texts \cup {NoNote}, approved : SUBSET Approvals]
SavesInFlight ==
  [at : {"idle", "sent", "writing", "insert", "commit"}, kind : Kinds,
   loaded : Texts \cup {NoNote}, note : Texts \cup {NoNote}, todo : Seq(Members),
   roles : [Members -> SUBSET Approvals], wrote : [Members -> Records], hit : SUBSET Members]

RecordsTypeOK ==
  /\ rows \in [Members -> Records]
  /\ lock \in [Members -> Saves \cup {Nobody}]
  /\ save \in [Saves -> SavesInFlight]
  /\ listed \in [Members -> SUBSET Approvals]
  /\ saveLeft \in [SaveDisturbances -> Nat]

RecordsInit ==
  /\ rows = [m \in Members |-> NoRow] /\ changes = <<>> /\ lock = [m \in Members |-> Nobody]
  /\ save = [s \in Saves |-> Idle] /\ listed \in [Members -> {{}, Approvals}]
  /\ saveLeft \in SaveAllowances

Becomes(s, r) == save' = [save EXCEPT ![s] = r]
(* Wrong on purpose, to test DeskTells: the row is locked for its member.  *)
LockedFor(s, m) == lock' = [lock EXCEPT ![m] = m]
Locked(s, m) == lock' = [lock EXCEPT ![m] = s]
Unlocked(s) == [m \in Members |-> IF lock[m] = s THEN Nobody ELSE lock[m]]
Holder(m) == lock[m] # Nobody
HasRow(m) == rows[m].there

----------------------------------------------------------------------------
(* A form as its page loaded it, posted later.                             *)
Send(s) ==
  /\ save[s].at = "idle" /\ MaySave("saves") /\ UNCHANGED <<rows, changes, lock, listed>>
  /\ \/ \E m \in Members, n \in Texts \cup {NoNote} :
          Becomes(s, [Idle EXCEPT !.at = "sent", !.loaded = rows[m].note, !.note = n, !.todo = <<m>>])
     \/ \E kind \in {"approve", "clear"}, q \in Orders :
          Becomes(s, [Idle EXCEPT !.at = "sent", !.kind = kind, !.todo = q])
     \/ \E m \in Members, r \in Approvals :
          Becomes(s, [Idle EXCEPT !.at = "writing", !.kind = "removal", !.todo = <<m>>,
                                  !.roles[m] = {r}])

Proceeds(s, r) == Becomes(s, r) /\ UNCHANGED <<rows, changes, lock, listed, saveLeft>>

(* A note is read against the records: the same note is refused, and a     *)
(* first note of a member who holds no Foxhole role.                       *)
ReadNote(s) ==
  LET m == Head(save[s].todo) IN
    /\ save[s].at = "sent" /\ save[s].kind = "note"
    /\ Proceeds(s, IF \/ save[s].note = rows[m].note
                      \/ ~HasRow(m) /\ save[s].loaded = NoNote /\ listed[m] = {}
                   THEN Idle ELSE [save[s] EXCEPT !.at = "writing"])

(* A save of the approvals each member has to touch, nobody else's.  With  *)
(* nobody to touch it is refused.                                          *)
Touching(s, touch) ==
  LET who == {m \in Range(save[s].todo) : touch[m] # {}} IN
    Proceeds(s, IF who = {} THEN Idle
                ELSE [save[s] EXCEPT !.at = "writing",
                        !.roles = [m \in Members |-> IF m \in who THEN touch[m] ELSE {}]])

(* The approvals an approve gives: the roles each member holds and has no  *)
(* approval for.  A clear takes every approval a member has.               *)
Giving(m) == listed[m] \ rows[m].approved
ReadApprove(s) ==
  /\ save[s].at = "sent" /\ save[s].kind = "approve"
  /\ Touching(s, [m \in Members |-> Giving(m)])
ReadClear(s) ==
  /\ save[s].at = "sent" /\ save[s].kind = "clear"
  /\ Touching(s, [m \in Members |-> rows[m].approved])

(* A transaction that fails rolls back: nothing is written.                *)
(* Wrong on purpose, to test DeskEnds: it is left open, with its locks.    *)
LeftOpen(s) == lock
RolledBack(s) == Unlocked(s)
RollBack(s) ==
  Becomes(s, Idle) /\ lock' = RolledBack(s) /\ UNCHANGED <<rows, changes, listed>>

(* Wrong on purpose, to test DeskTells: the note the form loaded is not    *)
(* compared with the stored one.                                           *)
AnyNote(stored, loaded) == TRUE
SameNote(stored, loaded) == stored = loaded

(* SELECT ... FOR UPDATE: it waits for the row's lock and takes it.  A row *)
(* that is not there locks nothing.                                        *)
LockNote(s) ==
  LET m == Head(save[s].todo)
      kept == [rows[m] EXCEPT !.note = save[s].note]
  IN /\ save[s].at = "writing" /\ save[s].kind = "note"
     /\ \/ HasRow(m) /\ ~Holder(m) /\ SameNote(rows[m].note, save[s].loaded) /\ Locked(s, m)
           /\ Becomes(s, [save[s] EXCEPT !.at = "commit", !.wrote[m] = kept, !.hit = {m}])
           /\ UNCHANGED <<rows, changes, listed, saveLeft>>
        \/ ~HasRow(m) /\ save[s].loaded = NoNote
           /\ Proceeds(s, [save[s] EXCEPT !.at = "insert"])
        \/ (HasRow(m) => ~Holder(m)) /\ ~SameNote(rows[m].note, save[s].loaded)
           /\ RollBack(s) /\ UNCHANGED saveLeft

(* INSERT ... ON CONFLICT DO NOTHING: it waits for another's insert, and a *)
(* record that stands then makes it stale.                                 *)
InsertNote(s) ==
  LET m == Head(save[s].todo) IN
    /\ save[s].at = "insert" /\ ~Holder(m)
    /\ IF HasRow(m) THEN RollBack(s) /\ UNCHANGED saveLeft
       ELSE /\ Locked(s, m) /\ UNCHANGED <<rows, changes, listed, saveLeft>>
            /\ Becomes(s, [save[s] EXCEPT !.at = "commit", !.hit = {m},
                             !.wrote[m] = [NoRow EXCEPT !.there = TRUE, !.note = save[s].note]])

(* What a row becomes: an approve adds to it, a clear and a removal take   *)
(* from it.  A clear removes every approval that stands by then.           *)
Takes(s, m) == IF save[s].kind = "clear" THEN Approvals ELSE save[s].roles[m]
Touches(s, m) ==
  save[s].roles[m] # {} /\ (save[s].kind = "approve" \/ rows[m].approved \cap Takes(s, m) # {})
After(s, m) ==
  [rows[m] EXCEPT !.there = TRUE, !.approved = IF save[s].kind = "approve" THEN @ \cup save[s].roles[m]
                               ELSE @ \ Takes(s, m)]

(* One member's upsert or update.  An update that matches no row locks     *)
(* none, and members the save has nothing to do for are passed over.       *)
WriteApproval(s) ==
  LET m == Head(save[s].todo)
      next == [save[s] EXCEPT !.todo = Tail(@), !.at = IF Len(save[s].todo) = 1 THEN "commit" ELSE @]
  IN /\ save[s].at = "writing" /\ save[s].kind # "note"
     /\ UNCHANGED <<rows, changes, listed, saveLeft>>
     /\ \/ Touches(s, m) /\ ~Holder(m) /\ Locked(s, m)
           /\ Becomes(s, [next EXCEPT !.wrote[m] = After(s, m), !.hit = @ \cup {m}])
        \/ ~Touches(s, m) /\ Becomes(s, next) /\ UNCHANGED lock

(* A record left with no note and no approval is dropped.                  *)
Dropped(row) == IF row.note = NoNote /\ row.approved = {} THEN NoRow ELSE row

(* A save's change log entry: a note's old and new text, the approvals an  *)
(* approvals save set out to give or clear, and the rows it matched.       *)
Entry(s) ==
  [kind |-> save[s].kind, hit |-> save[s].hit, before |-> save[s].loaded,
   after |-> save[s].note, roles |-> save[s].roles]

(* The entry goes in with the records, or neither does.  A removal's is    *)
(* its report.  A commit may land with its answer lost, which tells the    *)
(* manager something else and the store nothing.                           *)
Commit(s) ==
  /\ save[s].at = "commit"
  /\ \/ /\ rows' = [m \in Members |-> IF m \in save[s].hit THEN Dropped(save[s].wrote[m]) ELSE rows[m]]
        /\ changes' = IF save[s].kind = "removal" /\ save[s].hit = {} THEN changes
                      ELSE Append(changes, Entry(s))
        /\ Becomes(s, Idle) /\ lock' = Unlocked(s) /\ UNCHANGED <<listed, saveLeft>>
     \/ MaySave("saveFault") /\ RollBack(s)

(* Two saves that wait for one another: the store ends one of them.        *)
WaitsFor(s) ==
  IF save[s].at = "writing" /\ save[s].kind # "note" /\ Touches(s, Head(save[s].todo))
  THEN lock[Head(save[s].todo)] ELSE Nobody
Deadlocked(s) ==
  LET t == WaitsFor(s) IN t # Nobody /\ t # s /\ WaitsFor(t) = s
Abort(s) == Deadlocked(s) /\ RollBack(s) /\ UNCHANGED saveLeft

(* Somebody gets or loses the Foxhole roles in Discord.                    *)
ListedChanges(m) ==
  /\ MaySave("roles") /\ listed' = [listed EXCEPT ![m] = IF @ = {} THEN Approvals ELSE {}]
  /\ UNCHANGED <<rows, changes, lock, save>>

SaveStep(s) ==
  ReadNote(s) \/ ReadApprove(s) \/ ReadClear(s) \/ LockNote(s) \/ InsertNote(s) \/ WriteApproval(s)
    \/ Commit(s) \/ Abort(s)
RecordsNext ==
  \/ \E s \in Saves : Send(s) \/ SaveStep(s)
  \/ \E m \in Members : ListedChanges(m)

RecordsFairness == \A s \in Saves : WF_recordsVars(SaveStep(s))

----------------------------------------------------------------------------
(* Properties                                                              *)

NoteOf(m, i) == changes[i].kind = "note" /\ changes[i].hit = {m}
(* The first n entries leave member m the note text.                       *)
Leaves(m, n, text) ==
  IF \A i \in 1 .. n : ~NoteOf(m, i) THEN text = NoNote
  ELSE \E i \in 1 .. n : NoteOf(m, i) /\ changes[i].after = text /\ \A j \in i + 1 .. n : ~NoteOf(m, j)

(* An entry that matched a member's record gives or takes an approval.     *)
Gives(i, m, r) == m \in changes[i].hit /\ changes[i].kind = "approve" /\ r \in changes[i].roles[m]
TakesBack(i, m, r) ==
  /\ m \in changes[i].hit
  /\ changes[i].kind = "clear" \/ (changes[i].kind = "removal" /\ r \in changes[i].roles[m])

(* The change log tells how each record came to be, however saves race: a  *)
(* note's entry starts from the text the entry before it left, so no       *)
(* manager overwrites a note they never saw; the last one left the stored  *)
(* note; no approval is lost, and none stays that was taken back since;    *)
(* and no record stays that holds neither.                                 *)
RecordsTell ==
  \A m \in Members :
    /\ \A i \in DOMAIN changes : NoteOf(m, i) => Leaves(m, i - 1, changes[i].before)
    /\ Leaves(m, Len(changes), rows[m].note)
    /\ \A r \in Approvals :
         r \in rows[m].approved <=>
           \E i \in DOMAIN changes :
             Gives(i, m, r) /\ \A j \in i + 1 .. Len(changes) : ~TakesBack(j, m, r)
    /\ HasRow(m) <=> rows[m].note # NoNote \/ rows[m].approved # {}

(* Every save ends, though two of them may wait for one another's rows.    *)
SavesEnd == \A s \in Saves : []<>(save[s].at = "idle")
=============================================================================
