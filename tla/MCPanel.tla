------------------------------ MODULE MCPanel ------------------------------
(***************************************************************************)
(* TLC instance of the panel's saves and of its sessions, which share      *)
(* nothing: a run checks whichever WHICH names.                            *)
(***************************************************************************)
EXTENDS PanelSaves, PanelSessions, TLC

VARIABLE which

AtMost(f) == [k \in PanelKinds |-> IF k \in DOMAIN f THEN f[k] ELSE 0]
Allowances == {AtMost(f) : f \in
  {[post |-> 3, other |-> 1, fault |-> 1], [post |-> 3, hand |-> 1, fault |-> 1], [post |-> 3, lost |-> 1],
   [post |-> 2, guild |-> 1, other |-> 1],
   [post |-> 4, members |-> 1]}}

all == <<which, panelVars, sessionVars>>
Init ==
  /\ PanelInit /\ SessionsInit /\ which \in {"hubs", "section", "sessions"}
  /\ which = "sessions" => panelLeft = AtMost([post |-> 3, lost |-> 1]) /\ listed
  /\ which = "hubs" => listed /\ panelLeft.members = 0
  /\ chan[1] = CHOOSE n \in Names : TRUE
OfSaves(A) == which # "sessions" /\ A /\ UNCHANGED <<which, sessionVars>>
Next ==
  \/ OfSaves(PanelNext /\ \A s \in Saves : (save'[s].op = "set") = (which = "section" \/ save'[s].at = "idle"))
  \/ which = "sessions" /\ SessionsNext /\ UNCHANGED <<which, panelVars>>

(* Store calls, Discord's calls and the waits end by their deadlines, and  *)
(* a save waiting for the lock gets it.  Browsers need do nothing.         *)
Spec == Init /\ [][Next]_all /\ \A s \in Saves : WF_all(OfSaves(SaveSteps(s)))

-----------------------------------------------------------------------------
(* The types of the variables, and the save lock is held by the one save   *)
(* that is between its read and its answer.                                *)
TypesOK == PanelTypeOK /\ SessionsTypeOK

(* The change log tells the store: replaying a row's entries gives the row *)
(* as it stands, and each entry starts where the one before it ended.      *)
(* Only a hub removed over a save its preview had not shown breaks the     *)
(* chain, and the row is gone (store/postgres.go saveWithEntry, deleteHub).*)
StoreTold ==
  \A r \in Rows :
    /\ log[r].tells = row[r].val
    /\ log[r].broken => r # Section /\ ~Live(r)
    /\ \A h \in Hubs : Live(h) /\ Live(r) /\ r \in Hubs /\ row[h].ch = row[r].ch => h = r

(* Between saves the runtime holds each row this process wrote last, as    *)
(* written (saveHub, remove), and each channel a create made is a hub's,   *)
(* was one, is gone, or is left over from a call that failed (create).     *)
InStep ==
  lock = Nobody =>
    /\ \A r \in Rows : teller[r] = "here" /\ Live(r) =>
         runtime[row[r].ch] = [r |-> r, val |-> row[r].val]
    /\ \A r \in Hubs : teller[r] = "here" /\ ~Live(r) => \A c \in Chans : runtime[c].r # r
    /\ \A c \in Chans \ {1} :
         Stands(c) => \E r \in Hubs : row[r].ch = c \/ c \in leftOver

(* The store, the runtime and the log after a save.                        *)
StoreHolds == TypesOK /\ StoreTold /\ InStep

(* A session ended stays ended, whatever a request in flight writes back.  *)
(* A Discord account found stays found.  A pending sign-in makes one       *)
(* session at most.  A page goes by its own request's group check          *)
(* (sessions.update, keepLookup, takePending, withSession).                *)
SessionsHold ==
  [][/\ DOMAIN active' \cap ended' = {}
     /\ \A i \in DOMAIN active \cap DOMAIN active' :
          active[i].discord = "found" => active'[i].discord = "found"
     /\ \A m, n \in DOMAIN admitted' : admitted'[m] = admitted'[n] => m = n
     /\ \A q \in Requests : req'[q].at = "page" => req'[q].copy.access = req'[q].found]_all

(* A save does what its user saw and asked (formIsCurrent, editForm,       *)
(* postedBackVersion, update, setRankRoles).  It writes over no save but   *)
(* those its form was loaded over, or the log under its stale answer       *)
(* showed; it renames a channel only to a name its user typed, so a rename *)
(* made in Discord stands; and a rank roles save stops members counting    *)
(* only by a Confirm of as many as then stop.                              *)
WritesOverShown(s) == LET r == save[s].r IN
  save[s].op \in {"update", "set"} /\ At(s, "write") /\ save'[s] # save[s] /\ row'[r] # row[r]
    => row[r].ver <= save[s].shown
RenamesTyped(s) ==
  At(s, "rename") /\ save'[s] # save[s] /\ chan' # chan => save[s].name # save[s].loaded
DropsConfirmed(s) ==
  At(s, "check") /\ save'[s].at = "write" /\ save[s].op = "set" /\ listed /\ Drops(s) > 0
    => save[s].count = Drops(s)
SavesAsAsked ==
  [][\A s \in Saves : WritesOverShown(s) /\ RenamesTyped(s) /\ DropsConfirmed(s)]_all /\ SessionsHold

(* Every save posted ends with an answer, whatever fails and whoever holds *)
(* the lock (lockSave, readGuild, boundedStore).                           *)
AtWork(s) == save[s].at \in Locked \cup {"wait", "queue"}
SavesEnd == \A s \in Saves : []<>~AtWork(s)
=============================================================================
