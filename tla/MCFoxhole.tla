----------------------------- MODULE MCFoxhole -----------------------------
(* The instances of Foxhole that TLC checks.                               *)
EXTENDS Foxhole, TLC

CONSTANTS ann, bob, l1, l2, c1

AtMost(f) == [k \in Disturbances |-> IF k \in DOMAIN f THEN f[k] ELSE 0]
TwoMembers == <<ann, bob>>
TwoLines == <<l1, l2>>

(* Both members hold roles, one of them is approved; the first line names  *)
(* one of them, the second either; one trooper has no Discord account.     *)
Start(ha, hb, aa, ab, second) ==
  [holds |-> (ann :> ha @@ bob :> hb), inServer |-> {ann, bob},
   approved |-> (ann :> aa @@ bob :> ab),
   names |-> (l1 :> {ann} @@ l2 :> second @@ ann :> {} @@ bob :> {}), roster |-> <<ann, NoMember>>]
Some == {Start({"internal", "external"}, {"external"}, {"internal"}, {}, {ann, bob}),
         Start({}, {"internal"}, {"internal", "external"}, {"external"}, {ann})}

ActionAllowances ==
  {AtMost([actions |-> 2, refused |-> 1]),
   AtMost([actions |-> 1, commands |-> 1, lostStart |-> 1, crash |-> 1]),
   AtMost([actions |-> 1, edits |-> 1, approvals |-> 1]),
   AtMost([actions |-> 1, renames |-> 1, leaves |-> 1]),
   AtMost([actions |-> 1, stops |-> 1, list |-> 1]),
   AtMost([actions |-> 1, storeFault |-> 3]),
   AtMost([actions |-> 1, storeFault |-> 1, crash |-> 1]),
   AtMost([actions |-> 2, lostAnswer |-> 1, panic |-> 1]),
   AtMost([actions |-> 2, stops |-> 1])}

(* A member an add missed, and somebody who takes a name before its Retry. *)
RetryAllowances == {AtMost([actions |-> 1, refused |-> 1, renames |-> 1])}
=============================================================================
