---------------------------- MODULE MCRecording ----------------------------
(* The instances of Recording that TLC checks.  Allowances bound what the  *)
(* environment may do in one behaviour; each member is checked by itself.  *)
EXTENDS Recording, TLC

CONSTANTS w1, w2, c1, c2

AtMost(f) == [k \in Kinds |-> IF k \in DOMAIN f THEN f[k] ELSE 0]

(* Two recordings, stopped every way there is: by people leaving, a gap, a *)
(* member or a timer, a recorder out of its channel; with leaves that hang,*)
(* refused tokens, failed calls and a restart.                             *)
StopAllowances ==
  {AtMost([people |-> 2]),
   AtMost([stop |-> 1, gap |-> 1]),
   AtMost([gap |-> 1, hang |-> 1]),
   AtMost([gap |-> 1, tokenReset |-> 1]),
   AtMost([kick |-> 1, ownLeave |-> 1]),
   AtMost([discordFault |-> 1, hang |-> 1, loginFault |-> 1]),
   AtMost([discordFault |-> 1, hang |-> 1, tokenReset |-> 1]),
   AtMost([restart |-> 1, storeFault |-> 1]),
   AtMost([restart |-> 1, discordFault |-> 1])}

(* What must come to an end, one recorder taking recordings in turn.       *)
EndAllowances ==
  {AtMost([stop |-> 1, hang |-> 1]),
   AtMost([gap |-> 1]),
   AtMost([restart |-> 1, loginFault |-> 1])}

Symmetry == Permutations(Workers) \cup Permutations(Channels)
=============================================================================
