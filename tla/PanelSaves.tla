----------------------------- MODULE PanelSaves -----------------------------
(***************************************************************************)
(* The saves of the control panel (panel/hubs.go, moderators.go,           *)
(* recording_roles.go, settings.go): a hub created, registered, edited or  *)
(* removed, and a guild-wide section (moderator, recording or rank roles)  *)
(* set, each from a form a page loaded, through store/postgres.go into the *)
(* runtime.                                                                *)
(*                                                                         *)
(* The save lock orders the saves of this process.  Page loads, Discord,   *)
(* the members and a second process writing the same rows, as when two     *)
(* containers overlap in a deploy, do not take it.  One action is one      *)
(* store call, one Discord call or one read of the gateway state.          *)
(* A row is its version and one value; its fields are not told apart.      *)
(***************************************************************************)
EXTENDS Naturals, FiniteSets

CONSTANTS
  Saves, Nobody,  \* the saves of this process, each of one browser
  Values, None,   \* the settings a row can hold, and a row never saved
  Names, Typed,   \* hub channel names: those given in Discord, one a user types
  Deleted,        \* no channel any more
  MaxHubs,        \* bound: hub IDs the store hands out
  MaxMembers,     \* bound: members who would stop counting as Cav members
  PanelSets       \* how often each kind of disturbance may happen: bounds

Section == 0                       \* the guild-wide row; hubs are 1 .. MaxHubs
Hubs == 1 .. MaxHubs
Rows == {Section} \cup Hubs
Chans == 1 .. MaxHubs              \* channel 1 stands, the others are created
Nowhere == 0                       \* the channel of the section's row
Unknown == MaxMembers + 1          \* the count while the member list has not loaded
NoCount == MaxMembers + 2          \* a form that confirms no preview
PanelKinds == {"post", "other", "hand", "members", "guild", "fault", "lost"}
Adds == {"create", "register"}

ASSUME PanelAssumption ==
  /\ IsFiniteSet(Saves) /\ Nobody \notin Saves /\ None \notin Values
  /\ Typed \notin Names /\ MaxHubs \in Nat \ {0} /\ MaxMembers \in Nat
  /\ PanelSets \subseteq [PanelKinds -> Nat]

VARIABLES
  row,      \* the store's rows: version, 0 for none, value and hub channel
  log,      \* what replaying each row's change log entries tells, and whether
            \* each entry's before is what the entry ahead of it left
  given,    \* the hub IDs the store has given
  runtime,  \* the settings the runtime of this process holds, by hub channel,
            \* and of which row they are
  chan,     \* each hub channel's name, None before it is made
  guild,    \* the guild in the gateway state: present, placeholder, absent
  members,  \* how many members a save that takes the role away stops counting
  listed,   \* the member list has loaded
  lock,     \* saveLock
  save,     \* the saves
  teller,   \* own record: who last wrote a row, "else" with no answer here
  leftOver, \* own record: channels a failed create could not delete
  panelLeft \* disturbances still to come, by kind

panelVars == <<row, log, given, runtime, chan, guild, members, listed, lock, save,
               teller, leftOver, panelLeft>>
store == <<row, log, given, teller>>
world == <<chan, guild, members, listed, leftOver>>

NoForm == [at |-> "idle", op |-> "set", r |-> Section, ver |-> 0, val |-> None, shown |-> 0,
           loaded |-> None, name |-> None, count |-> NoCount, before |-> None, ch |-> Nowhere,
           renamed |-> FALSE]

Locked == {"read", "check", "rename", "make", "write", "apply", "undo"}
PanelTypeOK ==
  /\ row \in [Rows -> [ver : Nat, val : Values \cup {None}, ch : Chans \cup {Nowhere}]]
  /\ log \in [Rows -> [tells : Values \cup {None}, broken : BOOLEAN]]
  /\ given \in 0 .. MaxHubs
  /\ runtime \in [Chans \cup {Nowhere} -> [r : Rows, val : Values \cup {None}]]
  /\ chan \in [Chans -> Names \cup {Typed, None, Deleted}]
  /\ members \in 0 .. MaxMembers /\ listed \in BOOLEAN /\ lock \in Saves \cup {Nobody}
  /\ panelLeft \in [PanelKinds -> Nat]
  /\ \A s \in Saves : /\ save[s].r \in Rows /\ save[s].count \in 0 .. NoCount
                      /\ lock = s <=> save[s].at \in Locked

NothingOf(c) == [r |-> Section, val |-> None]
PanelInit ==
  /\ row = [r \in Rows |-> [ver |-> 0, val |-> None, ch |-> Nowhere]] /\ given = 0
  /\ log = [r \in Rows |-> [tells |-> None, broken |-> FALSE]]
  /\ runtime = [c \in Chans \cup {Nowhere} |-> NothingOf(c)]
  /\ teller = [r \in Rows |-> "here"]
  /\ \E n \in Names : chan = [c \in Chans |-> IF c = 1 THEN n ELSE None]
  /\ guild = "present" /\ members = MaxMembers /\ listed \in BOOLEAN
  /\ lock = Nobody /\ save = [s \in Saves |-> NoForm] /\ leftOver = {}
  /\ panelLeft \in PanelSets

May(k) == panelLeft[k] > 0 /\ panelLeft' = [panelLeft EXCEPT ![k] = @ - 1]
At(s, p) == save[s].at = p
Stays(s) == UNCHANGED <<store, world, runtime>>
Sets(s, form) == save' = [save EXCEPT ![s] = form]
Goes(s, p) == Sets(s, [save[s] EXCEPT !.at = p])
Keeps(s, p) == Goes(s, p) /\ UNCHANGED <<lock, panelLeft>>

(* Wrong on purpose, to test SavesEnd: a save that fails keeps the lock.   *)
EndsLocked(s, p) == Goes(s, p) /\ UNCHANGED lock
(* A save's answer leaves it and its lock.                                 *)
Ends(s, p) == Goes(s, p) /\ lock' = IF lock = s THEN Nobody ELSE lock

Live(r) == row[r].ver > 0
On(c) == {r \in Hubs : Live(r) /\ row[r].ch = c}
Standing(r) == IF Live(r) /\ r # Section THEN chan[row[r].ch] ELSE None
Stands(c) == chan[c] \notin {None, Deleted}

-----------------------------------------------------------------------------
(* Page loads.  A form is rendered from the row and the change log under   *)
(* it, read in that order.                                                 *)
FormOf(s, op, r, v, name) ==
  [save[s] EXCEPT !.at = "loading", !.op = op, !.r = r, !.ver = row[r].ver, !.val = v,
                  !.loaded = Standing(r), !.name = name]
Adding == {s \in Saves : save[s].op \in Adds /\ save[s].at # "idle"}
Open(s, op, r) ==
  /\ At(s, "idle") /\ May("post") /\ UNCHANGED <<store, world, runtime, lock>>
  /\ op = "set" <=> r = Section
  /\ op \in {"update", "remove"} => Live(r)
  /\ op \in Adds => r = given + 1 /\ given + Cardinality(Adding) < MaxHubs
  /\ \E v \in Values, name \in {Standing(r), Typed} :
       /\ op # "update" => name = Standing(r)
       /\ op = "remove" => v = row[r].val
       /\ Sets(s, FormOf(s, op, r, v, name))

(* Wrong on purpose, to test SavesAsAsked: the log is read before the      *)
(* row, so it lacks a save that lands between.                             *)
ShownAtRow(s) ==
  /\ At(s, "loading") /\ Stays(s)
  /\ Sets(s, [save[s] EXCEPT !.at = "form", !.shown = save[s].ver, !.ver = row[save[s].r].ver])
  /\ UNCHANGED <<lock, panelLeft>>
(* Both name the row's entries up to the version they were read at.        *)
ShowLog(s) ==
  /\ At(s, "loading") /\ Stays(s)
  /\ Sets(s, [save[s] EXCEPT !.at = "form", !.shown = row[save[s].r].ver])
  /\ UNCHANGED <<lock, panelLeft>>

(* A browser posts its form.  A remove waits for no guild data.            *)
Post(s) ==
  /\ At(s, "form") /\ save[s].op # "set" /\ UNCHANGED <<store, world, runtime>>
  /\ Keeps(s, IF save[s].op = "remove" THEN "queue" ELSE "wait")
PostSection(s) ==
  /\ At(s, "form") /\ save[s].op = "set" /\ UNCHANGED <<store, world, runtime>>
  /\ Keeps(s, "wait")

(* Wrong on purpose, to test SavesAsAsked: any refused form carries the    *)
(* version its row is at.                                                  *)
PostedBackAnew(s) == row[save[s].r].ver
(* The version a form rendered back after a refusal carries.               *)
PostedBack(s) == IF At(s, "stale") THEN row[save[s].r].ver ELSE save[s].ver

(* The page again after a refusal, with the form as posted: a stale form   *)
(* is told of the saves in the log below it.                               *)
Again(s) ==
  /\ save[s].at \in {"stale", "refused"} /\ May("post")
  /\ UNCHANGED <<store, world, runtime, lock>>
  /\ Sets(s, [save[s] EXCEPT !.at = IF At(s, "stale") THEN "loading" ELSE "form",
                             !.ver = PostedBack(s), !.count = NoCount])

(* A preview's Confirm posts the form again, with the counts it showed.    *)
PreviewShown(s) ==
  /\ At(s, "preview shown") /\ May("post") /\ Goes(s, "form")
  /\ UNCHANGED <<store, world, runtime, lock>>

-----------------------------------------------------------------------------
(* The guild's data: there, on its way until the wait runs out, or absent. *)
GuildRead(s, next) ==
  \/ guild = "present" /\ next
  \/ guild # "present" /\ Ends(s, "no data") /\ UNCHANGED panelLeft

(* lockSave: the wait for the guild's data, then the lock.                 *)
WaitForGuild(s) ==
  At(s, "wait") /\ Stays(s) /\ GuildRead(s, Keeps(s, "queue"))
TakeLock(s) ==
  /\ At(s, "queue") /\ lock = Nobody /\ lock' = s
  /\ Goes(s, "read") /\ UNCHANGED <<store, world, runtime, panelLeft>>

(* Wrong on purpose, to test SavesAsAsked: any form is current.            *)
AnyForm(s) == TRUE
FormIsCurrent(s) == save[s].ver = row[save[s].r].ver

Fails(s, p) == Ends(s, p) /\ UNCHANGED panelLeft
Fault(s, p) == May("fault") /\ Ends(s, p)

(* The row as a save reads it, and what comes next.                        *)
ReadsRow(s, next) ==
  \/ Fault(s, "error")
  \/ save[s].op # "set" /\ ~Live(save[s].r) /\ Fails(s, "gone")
  \/ /\ save[s].op # "set" => Live(save[s].r)
     /\ \/ ~FormIsCurrent(s) /\ Fails(s, "stale")
        \/ /\ FormIsCurrent(s) /\ UNCHANGED <<lock, panelLeft>>
           /\ Sets(s, [save[s] EXCEPT !.before = row[save[s].r].val, !.ch = row[save[s].r].ch,
                                      !.ver = row[save[s].r].ver, !.at = next])

(* The read of the record.  A create and a register read the hub list with *)
(* the guild instead, and a remove goes from its read to the write.        *)
ReadHubs(s) ==
  At(s, "read") /\ save[s].op \in Adds /\ Stays(s) /\ (Fault(s, "error") \/ Keeps(s, "check"))
Read(s) ==
  At(s, "read") /\ save[s].op \in {"update", "set"} /\ Stays(s) /\ ReadsRow(s, "check")
Remove(s) ==
  At(s, "read") /\ save[s].op = "remove" /\ Stays(s) /\ ReadsRow(s, "write")

(* Wrong on purpose, to test SavesAsAsked: a form that posts another       *)
(* name than the channel has renames it, as loaded or not.                 *)
RenamesBack(s) == save[s].op = "update" /\ save[s].name # chan[save[s].ch]
(* A save renames only when the user changed the field from the name the   *)
(* form loaded.                                                            *)
Renames(s) ==
  /\ save[s].op = "update" /\ save[s].name # save[s].loaded
  /\ save[s].name # chan[save[s].ch]

Drops(s) == IF save[s].before # None /\ save[s].val # save[s].before THEN members ELSE 0
Counts(s) == IF listed THEN Drops(s) ELSE Unknown

(* The checks of a create, a register and an edit, in the guild as read.   *)
CheckHub(s) ==
  /\ At(s, "check") /\ save[s].op # "set"
  /\ Stays(s) /\ GuildRead(s,
       CASE save[s].op = "create" -> Keeps(s, "make")
         [] save[s].op = "register" ->
              \/ On(1) # {} /\ Fails(s, "already")
              \/ /\ On(1) = {} /\ UNCHANGED <<lock, panelLeft>>
                 /\ Sets(s, [save[s] EXCEPT !.at = "write", !.ch = 1])
         [] save[s].op = "update" ->
              \/ ~Stands(save[s].ch) /\ Fails(s, "broken")
              \/ /\ Stands(save[s].ch)
                 /\ IF Renames(s) THEN Keeps(s, "rename")
                    ELSE IF save[s].val = save[s].before THEN Fails(s, "unchanged")
                    ELSE Keeps(s, "write"))

(* Wrong on purpose, to test SavesAsAsked: a Confirm saves whatever        *)
(* its preview showed.                                                     *)
ConfirmsAll(s) == save[s].count # NoCount
Confirms(s) == save[s].count = Counts(s)

(* A save that stops members counting, or may while nobody can count them. *)
Previews(s) == IF listed THEN Counts(s) # 0 ELSE save[s].before # None

(* The checks of a section.  A rank roles save that may stop members       *)
(* counting as Cav members answers with its preview, until a Confirm of    *)
(* the preview as it stands.                                               *)
CheckSection(s) ==
  /\ At(s, "check") /\ save[s].op = "set"
  /\ Stays(s) /\ GuildRead(s,
       \/ save[s].val = save[s].before /\ Fails(s, "unchanged")
       \/ /\ save[s].val # save[s].before
          /\ IF ~Previews(s) \/ Confirms(s)
             THEN Keeps(s, "write")
             ELSE /\ Sets(s, [save[s] EXCEPT !.at = "preview shown", !.count = Counts(s)])
                  /\ lock' = Nobody /\ UNCHANGED panelLeft)

-----------------------------------------------------------------------------
(* Discord's answers: done, refused, or done with the answer lost.         *)
Rename(s) ==
  /\ At(s, "rename") /\ UNCHANGED <<store, runtime, guild, members, listed, leftOver>>
  /\ \/ /\ Stands(save[s].ch) /\ chan' = [chan EXCEPT ![save[s].ch] = save[s].name]
        /\ \/ /\ Sets(s, [save[s] EXCEPT !.at = "write", !.renamed = TRUE])
              /\ UNCHANGED <<lock, panelLeft>>
           \/ May("lost") /\ Ends(s, "refused")
     \/ ~Stands(save[s].ch) /\ UNCHANGED chan /\ Fails(s, "refused")
     \/ UNCHANGED chan /\ Fault(s, "refused")

Unmade == {c \in Chans : chan[c] = None}
(* Discord makes the channel, or refuses, as it must at its cap.           *)
Make(s) ==
  /\ At(s, "make") /\ UNCHANGED <<store, runtime, guild, members, listed>>
  /\ \/ \E c \in Unmade :
          /\ \A d \in Unmade : c <= d
          /\ chan' = [chan EXCEPT ![c] = Typed]
          /\ \/ /\ Sets(s, [save[s] EXCEPT !.at = "write", !.ch = c])
                /\ UNCHANGED <<lock, panelLeft, leftOver>>
             \/ May("lost") /\ Ends(s, "refused") /\ leftOver' = leftOver \cup {c}
     \/ UNCHANGED <<chan, leftOver>> /\ Fault(s, "refused")
     \/ Unmade = {} /\ UNCHANGED <<chan, leftOver>> /\ Fails(s, "refused")

(* Wrong on purpose, to test StoreHolds: a failed create leaves its        *)
(* channel.                                                                *)
UndoNone(s) == Fails(s, "error") /\ UNCHANGED <<chan, leftOver>>
(* A create whose write failed deletes the channel it made.                *)
UndoMade(s) ==
  \/ chan' = [chan EXCEPT ![save[s].ch] = Deleted] /\ Fails(s, "error") /\ UNCHANGED leftOver
  \/ UNCHANGED chan /\ leftOver' = leftOver \cup {save[s].ch} /\ Fault(s, "error")
Undo(s) ==
  At(s, "undo") /\ UNCHANGED <<store, runtime, guild, members, listed>> /\ UndoMade(s)

-----------------------------------------------------------------------------
(* The store's one write: the row and its change log entry together.       *)
Entry(r, before, after) ==
  log' = [log EXCEPT ![r] = [tells |-> after, broken |-> @.broken \/ before # @.tells]]
Writes(r, v, c, who) ==
  /\ row' = [row EXCEPT ![r] = [ver |-> @.ver + 1, val |-> v, ch |-> c]]
  /\ teller' = [teller EXCEPT ![r] = who]

(* Wrong on purpose, to test StoreHolds: the store writes over any         *)
(* version.                                                                *)
AtAnyVersion(s) == TRUE
(* updateHub and the sections' sets write only over the version read, and  *)
(* insertHub only where no hub has the channel.                            *)
AtVersion(s) ==
  IF save[s].op \in Adds THEN On(save[s].ch) = {}
  ELSE save[s].ver = row[save[s].r].ver

(* A removal's row goes, and its entry tells of every field it had.        *)
Deletes(r, before, who) ==
  /\ Entry(r, before, None) /\ UNCHANGED given
  /\ row' = [row EXCEPT ![r] = [ver |-> 0, val |-> None, ch |-> @.ch]]
  /\ teller' = [teller EXCEPT ![r] = who]

(* What the write of a save does to the store, committed or not.           *)
Commits(s, who) ==
  CASE save[s].op \in Adds ->
         /\ given < MaxHubs /\ AtVersion(s) /\ given' = given + 1
         /\ Entry(given + 1, None, save[s].val) /\ Writes(given + 1, save[s].val, save[s].ch, who)
    [] save[s].op = "remove" -> Live(save[s].r) /\ Deletes(save[s].r, save[s].before, who)
    [] OTHER ->
         /\ AtVersion(s) /\ (save[s].op = "update" => Live(save[s].r))
         /\ Entry(save[s].r, save[s].before, save[s].val)
         /\ Writes(save[s].r, save[s].val, save[s].ch, who) /\ UNCHANGED given

(* A hub row gone is not found, a row at another version is stale, and a   *)
(* remove asks only that the row is there.                                 *)
Refusal(s) ==
  IF save[s].op \in Adds THEN (IF AtVersion(s) THEN "none" ELSE "already")
  ELSE IF save[s].op # "set" /\ ~Live(save[s].r) THEN "gone"
  ELSE IF save[s].op = "remove" \/ AtVersion(s) THEN "none" ELSE "stale"

(* A save whose write failed: a create undoes its channel, and an update   *)
(* that renamed answers with an error, whatever the store said.            *)
Unwritten(s, p) ==
  IF save[s].op = "create" THEN Goes(s, "undo") /\ UNCHANGED lock
  ELSE Ends(s, IF save[s].renamed THEN "error" ELSE p)

Write(s) ==
  /\ At(s, "write") /\ UNCHANGED <<world, runtime>>
  /\ \/ /\ Refusal(s) # "none" /\ Unwritten(s, Refusal(s)) /\ UNCHANGED <<store, panelLeft>>
     \/ /\ Refusal(s) = "none" /\ Commits(s, "here") /\ UNCHANGED <<lock, panelLeft>>
        /\ Sets(s, [save[s] EXCEPT !.at = "apply", !.r = IF @ \in Hubs /\ save[s].op \in Adds
                                                         THEN given + 1 ELSE @])
     \/ Refusal(s) = "none" /\ May("lost") /\ Commits(s, "else") /\ Unwritten(s, "error")
     \/ May("fault") /\ Unwritten(s, "error") /\ UNCHANGED store

(* Wrong on purpose, to test StoreHolds: the runtime keeps a removed hub.  *)
AppliedStill(s) ==
  [runtime EXCEPT ![save[s].ch] = [r |-> save[s].r, val |-> save[s].val]]
(* ApplyHub, RemoveHub and ApplyGuildModeratorRoles or ApplyRankRoles.     *)
Applied(s) ==
  [runtime EXCEPT ![save[s].ch] = IF save[s].op = "remove" THEN NothingOf(save[s].ch)
                                  ELSE [r |-> save[s].r, val |-> save[s].val]]
Apply(s) ==
  /\ At(s, "apply") /\ runtime' = Applied(s) /\ Fails(s, "done") /\ UNCHANGED <<store, world>>

SaveSteps(s) ==
  \/ ShowLog(s) \/ WaitForGuild(s) \/ TakeLock(s) \/ ReadHubs(s) \/ Read(s) \/ Remove(s) \/ CheckHub(s) \/ CheckSection(s)
  \/ Rename(s) \/ Make(s) \/ Undo(s) \/ Write(s) \/ Apply(s)

-----------------------------------------------------------------------------
(* The other process saves a row from a form of its own, or makes          *)
(* channel 1 a hub, or removes one.                                        *)
Other ==
  /\ May("other") /\ UNCHANGED <<world, runtime, lock, save>>
  /\ \/ \E r \in Rows, v \in Values :
          /\ r = Section \/ Live(r)
          /\ v # row[r].val /\ Entry(r, row[r].val, v) /\ Writes(r, v, row[r].ch, "else")
          /\ UNCHANGED given
     \/ \E v \in Values :
          /\ given + Cardinality(Adding) < MaxHubs /\ On(1) = {} /\ Stands(1) /\ given' = given + 1
          /\ Entry(given + 1, None, v) /\ Writes(given + 1, v, 1, "else")
     \/ \E r \in Hubs : Live(r) /\ Deletes(r, row[r].val, "else")

(* A hub channel renamed or deleted in Discord, members gaining and losing *)
(* roles, the member list loading, and the guild's data going and coming.  *)
World ==
  /\ UNCHANGED <<store, runtime, lock, save, leftOver>>
  /\ \/ /\ May("hand") /\ UNCHANGED <<guild, members, listed>>
        /\ \E c \in Chans, n \in Names \cup {Deleted} :
             Stands(c) /\ n # chan[c] /\ chan' = [chan EXCEPT ![c] = n]
     \/ /\ May("members") /\ members' \in (0 .. MaxMembers) \ {members}
        /\ UNCHANGED <<guild, chan, listed>>
     \/ ~listed /\ listed' = TRUE /\ UNCHANGED <<guild, chan, members, panelLeft>>
     \/ /\ May("guild") /\ guild = "present" /\ guild' \in {"placeholder", "absent"}
        /\ UNCHANGED <<chan, members, listed>>
     \/ /\ guild # "present" /\ guild' = "present"
        /\ UNCHANGED <<chan, members, listed, panelLeft>>

Browser(s) == (\E op \in Adds \cup {"update", "remove", "set"}, r \in Rows : Open(s, op, r))
              \/ Post(s) \/ PostSection(s) \/ Again(s) \/ PreviewShown(s)
PanelNext == (\E s \in Saves : Browser(s) \/ SaveSteps(s)) \/ Other \/ World
=============================================================================
