------------------------------ MODULE VoiceLink ------------------------------
(***************************************************************************)
(* What a recorder's voice connection promises its receiver (the answers   *)
(* of renewableGateway.connection in voice/gateway.go): whether it is      *)
(* connected in the call, how many times it has lost it, and why it last   *)
(* did.  A loss is counted once, its cause is named once at most, and a    *)
(* cause named never changes.                                              *)
(***************************************************************************)
EXTENDS Naturals

CONSTANTS Causes, Unknown
ASSUME LinkAssumption == Unknown \notin Causes

VARIABLES connected, losses, cause
linkVars == <<connected, losses, cause>>

LinkInit == connected = TRUE /\ losses = 0 /\ cause = Unknown

Connect == connected' = TRUE /\ UNCHANGED <<losses, cause>>

(* A connection that is up is lost, or a join's never comes to be.         *)
Lose ==
  /\ connected \/ losses = 0
  /\ connected' = FALSE /\ losses' = losses + 1 /\ cause' \in Causes \cup {Unknown}

(* The call's end is told from its move only after a lookup.               *)
NameCause == losses > 0 /\ cause = Unknown /\ cause' \in Causes /\ UNCHANGED <<connected, losses>>

(* A connection that came back during the lookup and is given up for the   *)
(* same loss counts as lost all along.                                     *)
StillLost == losses > 0 /\ connected' = FALSE /\ UNCHANGED <<losses, cause>>

LinkNext == Connect \/ Lose \/ NameCause \/ StillLost
LinkSpec == LinkInit /\ [][LinkNext]_linkVars
=============================================================================
