--------------------------- MODULE FoxholeProofs ---------------------------
(***************************************************************************)
(* Module Foxhole keeps its promises for any number of members, lines,     *)
(* reports, commands and disturbances: its variables keep their types, its *)
(* reports tell the truth and have somebody to end them, nobody is changed *)
(* and nothing stopped but as a manager saw and asked, and its actions     *)
(* implement FoxholeRule.                                                  *)
(*                                                                         *)
(* The invariant has seven parts, each kept by every step with the help of *)
(* those above it: TypeInv, OwnInv (whose a report is), WholeInv (each     *)
(* change in one list), TruthInv (a report against what Discord did),      *)
(* StopsInv, ShownInv and OverrunInv.                                      *)
(***************************************************************************)
EXTENDS Foxhole, SequenceTheorems, FiniteSetTheorems, TLAPS

----------------------------------------------------------------------------
(* The members of a set in the order of a sequence                         *)

(* A set of naturals has a least element: what stands in for induction.    *)
LEMMA Least ==
  ASSUME NEW T \in SUBSET Nat, T # {}
  PROVE  \E x \in T : \A y \in T : x <= y
<1> DEFINE R == {ss \in Nat \X Nat : ss[1] < ss[2]}
<1>1. IsWellFoundedOn(R, Nat)
  BY NatLessThanWellFounded, Zenon DEF OpToRel
<1>2. PICK x \in T : \A y \in T : ~ (<<y, x>> \in R)
  <2> HIDE DEF R
  <2> QED
    BY <1>1, WFMin
<1>3. \A y \in T : <<y, x>> \in R <=> y < x
  OBVIOUS
<1> HIDE DEF R
<1>4. \A y \in T : y \in Nat /\ ~(y < x)
  BY <1>2, <1>3
<1> QED
  BY <1>4

(* A sequence no element of which comes twice.                             *)
Apart(q) == \A i, j \in DOMAIN q : q[i] = q[j] => i = j

(* The members of S can be put in the order of q.                          *)
Orders(p, S, q) ==
  /\ p \in [1 .. Cardinality(S) -> S] /\ Range(p) = S
  /\ \A i, j \in 1 .. Cardinality(S) : i < j => Before(q, p[i], p[j])
Ordered(S, q) == IsFiniteSet(S) /\ \E p : Orders(p, S, q)

(* One more element at the end keeps the order of those before it.         *)
LEMMA OrderedLonger ==
  ASSUME NEW T, NEW n \in Nat, NEW q \in [1 .. n + 1 -> T], NEW S \in SUBSET Range(q),
         \A r \in [1 .. n -> T] : \A U \in SUBSET Range(r) : Ordered(U, r)
  PROVE  Ordered(S, q)
<1> DEFINE x == q[n + 1]
           r == [k \in 1 .. n |-> q[k]]
           U == S \cap Range(r)
<1>1. r \in [1 .. n -> T] /\ Range(q) = Range(r) \cup {x}
  BY DEF Range
<1>2. IsFiniteSet(U) /\ \E p : Orders(p, U, r)
  BY <1>1 DEF Ordered
<1>3. PICK p : Orders(p, U, r)
  BY <1>2
<1>4. Cardinality(U) \in Nat
  BY <1>2, FS_CardinalityType
<1>5. ASSUME NEW y, NEW z, Before(r, y, z) PROVE Before(q, y, z)
  <2>1. PICK k \in 1 .. n : r[k] = y /\ \A l \in 1 .. k : r[l] # z
    BY <1>1, <1>5 DEF Before
  <2>2. k \in 1 .. n + 1 /\ \A l \in 1 .. k : l \in 1 .. n
    OBVIOUS
  <2>3. q[k] = y /\ \A l \in 1 .. k : q[l] # z
    BY <2>1, <2>2
  <2> QED
    BY <2>2, <2>3 DEF Before
<1>6. CASE S = U
  <2>1. Orders(p, S, q)
    BY <1>3, <1>5, <1>6 DEF Orders
  <2> QED
    BY <1>2, <1>6, <2>1 DEF Ordered
<1>7. CASE S # U
  <2>1. x \in S /\ x \notin Range(r) /\ S = U \cup {x} /\ x \notin U
    BY <1>1, <1>7
  <2>2. IsFiniteSet(S) /\ Cardinality(S) = Cardinality(U) + 1
    <3> HIDE DEF U, x
    <3> QED
      BY <1>2, <2>1, FS_AddElement
  <2> HIDE DEF U
  <2> DEFINE m == Cardinality(U)
             o == [i \in 1 .. m + 1 |-> IF i = m + 1 THEN x ELSE p[i]]
  <2>3. p \in [1 .. m -> U] /\ Range(p) = U
    BY <1>3 DEF Orders
  <2>4. o \in [1 .. m + 1 -> S]
    BY <2>1, <2>3, <1>4
  <2>5. Range(o) = S
    <3>1. \A y \in U : \E i \in 1 .. m : p[i] = y
      BY <2>3 DEF Range
    <3>2. \A y \in U : \E i \in 1 .. m + 1 : o[i] = y
      BY <3>1, <1>4
    <3>3. o[m + 1] = x /\ m + 1 \in 1 .. m + 1
      BY <1>4
    <3>4. \A y \in S : \E i \in 1 .. m + 1 : o[i] = y
      BY <2>1, <3>2, <3>3
    <3> QED
      BY <2>4, <3>4 DEF Range
  <2>6. ASSUME NEW i \in 1 .. m + 1, NEW j \in 1 .. m + 1, i < j PROVE Before(q, o[i], o[j])
    <3>1. CASE j = m + 1
      <4>1. i \in 1 .. m /\ o[i] = p[i] /\ o[j] = x
        BY <1>4, <2>6, <3>1
      <4>2. p[i] \in Range(r)
        BY <2>3, <4>1 DEF U
      <4>3. PICK k \in 1 .. n : q[k] = o[i]
        BY <4>1, <4>2 DEF Range
      <4>4. \A l \in 1 .. k : q[l] # x
        BY <2>1 DEF Range
      <4> QED
        BY <4>1, <4>3, <4>4 DEF Before
    <3>2. CASE j # m + 1
      <4>1. i \in 1 .. m /\ j \in 1 .. m /\ o[i] = p[i] /\ o[j] = p[j]
        BY <1>4, <2>6, <3>2
      <4>2. Before(r, p[i], p[j])
        BY <1>3, <2>6, <4>1 DEF Orders
      <4> QED
        BY <1>5, <4>1, <4>2
    <3> QED
      BY <3>1, <3>2
  <2>7. Orders(o, S, q)
    BY <2>2, <2>4, <2>5, <2>6 DEF Orders
  <2> QED
    BY <2>2, <2>7 DEF Ordered
<1> QED
  BY <1>6, <1>7

(* Every sequence orders the sets of its elements.                         *)
LEMMA OrderExists ==
  ASSUME NEW T, NEW n \in Nat
  PROVE  \A q \in [1 .. n -> T] : \A S \in SUBSET Range(q) : Ordered(S, q)
<1> DEFINE Fails == {k \in Nat : \E q \in [1 .. k -> T] : \E S \in SUBSET Range(q) : ~Ordered(S, q)}
<1>1. SUFFICES ASSUME Fails # {} PROVE FALSE
  OBVIOUS
<1>2. PICK k \in Fails : \A l \in Fails : k <= l
  BY <1>1, Least
<1>3. CASE k = 0
  <2>1. PICK q \in [1 .. 0 -> T] : \E S \in SUBSET Range(q) : ~Ordered(S, q)
    BY <1>2, <1>3
  <2>0. PICK S \in SUBSET Range(q) : ~Ordered(S, q)
    BY <2>1
  <2>2. S = {} /\ IsFiniteSet(S) /\ Cardinality(S) = 0
    BY <2>1, FS_EmptySet DEF Range
  <2>3. Orders(q, S, q)
    BY <2>2 DEF Orders, Range
  <2> QED
    BY <2>0, <2>2, <2>3 DEF Ordered
<1>4. CASE k # 0
  <2>1. k - 1 \in Nat /\ k - 1 \notin Fails /\ k = (k - 1) + 1
    BY <1>2, <1>4
  <2>2. \A r \in [1 .. k - 1 -> T] : \A U \in SUBSET Range(r) : Ordered(U, r)
    BY <2>1
  <2>3. PICK q \in [1 .. k -> T] : \E S \in SUBSET Range(q) : ~Ordered(S, q)
    BY <1>2
  <2> HIDE DEF Fails
  <2> QED
    BY <2>1, <2>2, <2>3, OrderedLonger
<1> QED
  BY <1>3, <1>4

(* InOrder gives its members, each once.                                   *)
LEMMA InOrderIs ==
  ASSUME NEW T, NEW q \in Seq(T), NEW S \in SUBSET Range(q)
  PROVE  /\ InOrder(S, q) \in Seq(S) /\ Range(InOrder(S, q)) = S
         /\ Apart(InOrder(S, q)) /\ IsFiniteSet(S)
<1>1. q \in [1 .. Len(q) -> T] /\ Len(q) \in Nat
  BY ElementOfSeq, LenProperties
<1>2. Ordered(S, q)
  BY <1>1, OrderExists
<1>3. Orders(InOrder(S, q), S, q)
  BY <1>2 DEF Ordered, Orders, InOrder
<1>4. Cardinality(S) \in Nat /\ IsFiniteSet(S)
  BY <1>2, FS_CardinalityType DEF Ordered
<1>5. InOrder(S, q) \in Seq(S)
  BY <1>3, <1>4 DEF Orders
<1>6. Apart(InOrder(S, q))
  <2> SUFFICES ASSUME NEW i \in 1 .. Cardinality(S), NEW j \in 1 .. Cardinality(S), i < j
               PROVE  InOrder(S, q)[i] # InOrder(S, q)[j]
    BY <1>3, <1>4 DEF Orders, Apart
  <2> QED
    BY <1>3, <1>1 DEF Orders, Before
<1> QED
  BY <1>3, <1>4, <1>5, <1>6 DEF Orders
----------------------------------------------------------------------------
(* Types                                                                   *)

Kinds == {"purge", "re-add", "removal", "add", "roster add"}
SpecType == [kind : Kinds, scope : Scopes, given : Seq(Change), clears : SUBSET Members,
             retry : BOOLEAN]
Shown == SUBSET (Members \cup {NoMember})

(* A run before its insert has no report, and one after has until it is    *)
(* over; the next member of one under way is the head of those to come.    *)
Before0 == {"none", "plan", "open"}
Within  == {"await", "paused", "change", "clear", "write", "end"}
RunType == [at : Before0 \cup Within \cup {"release"}, spec : SpecType, saw : Shown,
            plan : Seq(Change), id : Ids \cup {NoReport}, body : Body, stop : BOOLEAN,
            tries : 0 .. 2]
RunSound(r) ==
  /\ r \in RunType
  /\ r.at \in Within => r.id \in Ids
  /\ r.at \in Before0 => r.id = NoReport
  /\ r.at \in {"paused", "change", "clear"} => r.body.todo # <<>>

(* What the outside holds.                                                 *)
ListType == [status : {"complete", "partial"}, connected : BOOLEAN,
             holds : [Members -> SUBSET Roles], in : SUBSET Members]
WorldTyped ==
  /\ holds \in [Members -> SUBSET Roles] /\ inServer \in SUBSET Members /\ list \in ListType
  /\ names \in [Texts -> SUBSET Members] /\ roster \in Seq(Members \cup {NoMember})
  /\ approved \in [Members -> SUBSET Roles]

(* What the page holds: the rows of a preview are members, lines or the    *)
(* roster's accounts.                                                      *)
RowsOf(kind) ==
  CASE kind = "removal"    -> Seq(Members)
    [] kind = "add"        -> Seq(Members \cup Range(Lines))
    [] kind = "roster add" -> Seq(Members \cup {NoMember})
    [] OTHER               -> {<<>>}
PreviewTyped ==
  /\ preview.kind \in {"none", "removal", "add", "roster add"} /\ preview.role \in Roles
  /\ preview.rows \in RowsOf(preview.kind) /\ preview.clears \in SUBSET Members
  /\ preview.kind = "removal" => Apart(preview.rows)

(* What an action starts with is of members its manager saw.               *)
Whos(q) == {q[k].who : k \in DOMAIN q}
OfShown(spec) == spec.kind \in {"removal", "add", "roster add"} \/ spec.retry
PostTyped ==
  post # NoPost => /\ post.spec \in SpecType /\ post.saw \in Shown
                   /\ OfShown(post.spec) => Whos(post.spec.given) \subseteq post.saw

(* What the runtime and the store hold.                                    *)
StoreTyped ==
  /\ reports \in [Ids -> Stored] /\ late \in SUBSET [id : Ids, body : Body]
  /\ commands \in SUBSET CommandRuns
  /\ up \in {"up", "booting", "down"}
  /\ took \in [Ids -> SUBSET Change] /\ overrun \in Nat /\ claims \in Nat
  /\ allowed \in [Disturbances -> Nat]

TypeInv == WorldTyped /\ PreviewTyped /\ PostTyped /\ RunSound(run) /\ StoreTyped

(* The invariant tells the types of the model.                             *)
LEMMA TypesTold == TypeInv => TypeOK
BY DEF TypeInv, WorldTyped, StoreTyped, RunSound, RunType, ListType, Before0, Within, TypeOK

----------------------------------------------------------------------------
(* Plans                                                                   *)

(* The changes of one role are as many and as different as the members.    *)
LEMMA ChangesAre ==
  ASSUME NEW S, NEW q \in Seq(S), NEW r
  PROVE  /\ Changes(q, r) \in Seq([who : S, role : {r}])
         /\ Len(Changes(q, r)) = Len(q)
         /\ Apart(q) => Apart(Changes(q, r))
         /\ Whos(Changes(q, r)) = Range(q)
<1>1. Changes(q, r) = [i \in 1 .. Len(q) |-> [who |-> q[i], role |-> r]]
  BY DEF Changes
<1>2. Changes(q, r) \in Seq([who : S, role : {r}]) /\ Len(Changes(q, r)) = Len(q)
  BY <1>1
<1>3. \A k \in 1 .. Len(q) : Changes(q, r)[k].who = q[k]
  BY <1>1
<1> QED
  BY <1>1, <1>2, <1>3 DEF Apart, Range, Whos

(* A set of members in the order of their names has each once.             *)
LEMMA InNameOrderIs ==
  ASSUME NEW S \in SUBSET Members
  PROVE  /\ InNameOrder(S) \in Seq(S) /\ Range(InNameOrder(S)) = S
         /\ Apart(InNameOrder(S)) /\ IsFiniteSet(S)
BY FoxholeAssumption, InOrderIs DEF InNameOrder

(* A sequence with each of its members once.                               *)
LEMMA OnceIs ==
  ASSUME NEW q \in Seq(Members \cup {NoMember})
  PROVE  /\ Once(q) \in Seq(Members) /\ Range(Once(q)) = Range(q) \ {NoMember}
         /\ Apart(Once(q))
<1>1. Range(q) \subseteq Members \cup {NoMember}
  BY DEF Range
<1>2. Once(q) \in Seq(Range(q) \ {NoMember}) /\ Range(Once(q)) = Range(q) \ {NoMember}
      /\ Apart(Once(q))
  BY InOrderIs DEF Once
<1>3. Once(q) \in Seq(Members)
  BY <1>1, <1>2, SeqMonotonic
<1> QED
  BY <1>2, <1>3

(* One role's changes after another's name nobody twice for a role.        *)
LEMMA TwoRoles ==
  ASSUME NEW p \in Seq(Members), NEW q \in Seq(Members), Apart(p), Apart(q),
         NEW r \in Roles, NEW s \in Roles, r # s
  PROVE  /\ Changes(p, r) \o Changes(q, s) \in Seq(Change)
         /\ Apart(Changes(p, r) \o Changes(q, s))
<1> DEFINE a == Changes(p, r)
           b == Changes(q, s)
<1>1. a \in Seq([who : Members, role : {r}]) /\ Apart(a)
  BY ChangesAre
<1>2. b \in Seq([who : Members, role : {s}]) /\ Apart(b)
  BY ChangesAre
<1> HIDE DEF a, b
<1>3. a \in Seq(Change) /\ b \in Seq(Change)
  <2>1. [who : Members, role : {r}] \subseteq Change /\ [who : Members, role : {s}] \subseteq Change
    BY DEF Change
  <2> QED
    BY <1>1, <1>2, <2>1, SeqMonotonic
<1>4. \A i \in DOMAIN a, j \in DOMAIN b : a[i] # b[j]
  BY <1>1, <1>2
<1>5. a \o b \in Seq(Change) /\ Apart(a \o b)
  BY <1>1, <1>2, <1>3, <1>4 DEF Apart
<1> QED
  BY <1>5 DEF a, b

(* A plan names nobody twice for a role, if the one given does not.        *)
LEMMA PlanOfIs ==
  ASSUME WorldTyped, NEW spec \in SpecType
  PROVE  /\ PlanOf(spec) \in Seq(Change)
         /\ Apart(spec.given) => Apart(PlanOf(spec))
<1>1. \A r \in Roles :
        /\ HoldersOf(r) \in Seq(Members) /\ Apart(HoldersOf(r))
        /\ ApprovedFor(r) \in Seq(Members) /\ Apart(ApprovedFor(r))
  <2> TAKE r \in Roles
  <2> DEFINE H == {m \in Members : HoldsInList(m, r)}
             A == {m \in Members : r \in approved[m]}
  <2>1. H \in SUBSET Members /\ A \in SUBSET Members
    OBVIOUS
  <2> HIDE DEF H, A
  <2>2. InNameOrder(H) \in Seq(Members) /\ InNameOrder(A) \in Seq(Members)
    BY <2>1, InNameOrderIs, SeqMonotonic
  <2>3. Apart(InNameOrder(H)) /\ Apart(InNameOrder(A))
    BY <2>1, InNameOrderIs
  <2> QED
    BY <2>2, <2>3 DEF HoldersOf, ApprovedFor, H, A
<1>2. ReAddPlan \in Seq(Change) /\ Apart(ReAddPlan)
  BY <1>1, TwoRoles DEF ReAddPlan, Roles
<1>3. PurgePlan(spec.scope) \in Seq(Change) /\ Apart(PurgePlan(spec.scope))
  <2> DEFINE E == Changes(HoldersOf("external"), "external")
             I == Changes(HoldersOf("internal"), "internal")
  <2>1. E \in Seq(Change) /\ Apart(E) /\ I \in Seq(Change) /\ Apart(I)
    <3>1. E \in Seq([who : Members, role : {"external"}]) /\ Apart(E)
      BY <1>1, ChangesAre DEF Roles
    <3>2. I \in Seq([who : Members, role : {"internal"}]) /\ Apart(I)
      BY <1>1, ChangesAre DEF Roles
    <3> HIDE DEF E, I
    <3> QED
      BY <3>1, <3>2, SeqMonotonic DEF Change, Roles
  <2>2. E \o I \in Seq(Change) /\ Apart(E \o I)
    BY <1>1, TwoRoles DEF Roles
  <2>3. Apart(<<>>) /\ <<>> \in Seq(Change)
    BY DEF Apart
  <2> HIDE DEF E, I
  <2>4. E \o <<>> = E /\ <<>> \o I = I /\ <<>> \o <<>> = <<>>
    BY <2>1
  <2> QED
    BY <2>1, <2>2, <2>3, <2>4 DEF PurgePlan, E, I
<1> QED
  BY <1>2, <1>3 DEF PlanOf, SpecType

----------------------------------------------------------------------------
(* What the moves of a run come to.                                        *)

(* Each way to record a member gives a report again.                       *)
LEMMA BodiesAre ==
  ASSUME NEW b \in Body, b.todo # <<>>
  PROVE  /\ Skipped(b) \in Body /\ Failed(b) \in Body /\ Changed(b) \in Body /\ Cleared(b) \in Body
<1>0. b.todo \in Seq(Change) /\ b.failed \in Seq(Change)
  BY DEF Body
<1>1. Head(b.todo) \in Change /\ Tail(b.todo) \in Seq(Change)
  BY <1>0, HeadTailProperties
<1>2. Append(b.failed, Head(b.todo)) \in Seq(Change)
  BY <1>0, <1>1, AppendProperties
<1> QED
  BY <1>1, <1>2 DEF Body, Skipped, Failed, Changed, Cleared

(* A run stays sound when it records a member, ends or looks one up.       *)
LEMMA ReportedIs ==
  ASSUME RunSound(run), run.at \in Within, NEW b \in Body
  PROVE  RunSound(Reported(b))
BY DEF RunSound, RunType, Reported, Within, Before0

LEMMA EndsIs ==
  ASSUME RunSound(run), run.at \in Within,
         NEW outcome \in {"done", "stopped", "member-list", "restart"}
  PROVE  RunSound(Ends(outcome))
<1>1. [run.body EXCEPT !.outcome = outcome] \in Body
  BY DEF RunSound, RunType, Body
<1> QED
  BY <1>1 DEF RunSound, RunType, Ends, Within, Before0

LEMMA ReachIs ==
  ASSUME RunSound(run), run.at \in Within, run.body.todo # <<>>
  PROVE  RunSound(Reach)
<1>1. RunSound([run EXCEPT !.at = "change"])
  BY DEF RunSound, RunType, Within, Before0
<1>2. run.body \in Body
  BY DEF RunSound, RunType
<1>3. RunSound(Reported(Skipped(run.body)))
  BY <1>2, BodiesAre, ReportedIs
<1> QED
  BY <1>1, <1>3 DEF Reach

(* Nothing runs, and has no report.                                        *)
LEMMA OffIs == RunSound(Off) /\ Off.at = "none" /\ Off.id = NoReport /\ Off.stop = FALSE
<1>1. BlankBody \in Body
  BY DEF BlankBody, Body
<1>2. Given("purge", <<>>, {}) \in SpecType
  BY DEF Given, SpecType, Scopes, Kinds
<1>3. Off \in RunType
  BY <1>1, <1>2 DEF Off, RunType, Before0, Shown
<1> QED
  BY <1>3 DEF Off, RunSound, Before0, Within

----------------------------------------------------------------------------
(* The types hold.                                                         *)

(* At the start the types hold.                                            *)
LEMMA TypeInit == Init => TypeInv
<1> SUFFICES ASSUME Init PROVE TypeInv
  OBVIOUS
<1>1. WorldTyped
  <2>1. PICK s \in Starts : /\ holds = s.holds /\ inServer = s.inServer /\ approved = s.approved
                            /\ names = s.names /\ roster = s.roster
    BY DEF Init
  <2>2. /\ s.holds \in [Members -> SUBSET Roles] /\ s.inServer \in SUBSET Members
        /\ s.approved \in [Members -> SUBSET Roles] /\ s.names \in [Texts -> SUBSET Members]
        /\ s.roster \in Seq(Members \cup {NoMember})
    BY FoxholeAssumption
  <2>3. list \in ListType
    BY <2>1, <2>2 DEF Init, ListType
  <2> QED
    BY <2>1, <2>2, <2>3 DEF WorldTyped
<1>2. PreviewTyped /\ PostTyped
  BY DEF Init, PreviewTyped, PostTyped, NoPreview, RowsOf, Roles, Apart
<1>3. Unwritten \in Stored
  BY DEF Unwritten, Stored, Body, BlankBody
<1>4. StoreTyped
  <2>1. allowed \in [Disturbances -> Nat]
    BY FoxholeAssumption DEF Init
  <2>2. reports \in [Ids -> Stored] /\ took \in [Ids -> SUBSET Change]
    BY <1>3 DEF Init
  <2> QED
    BY <2>1, <2>2 DEF Init, StoreTyped
<1> QED
  BY <1>1, <1>2, <1>4, OffIs DEF Init, TypeInv

(* Spending an allowance leaves numbers.                                   *)
LEMMA SpendIs ==
  ASSUME NEW k \in Disturbances, Spend(k), allowed \in [Disturbances -> Nat]
  PROVE  allowed' \in [Disturbances -> Nat]
BY DEF Spend

(* No step gives the allowances another type.                              *)
LEMMA AllowedTyped ==
  ASSUME TypeInv, [Next]_vars
  PROVE  allowed' \in [Disturbances -> Nat]
<1>1. allowed \in [Disturbances -> Nat]
  BY Zenon DEF TypeInv, StoreTyped
<1>2. UNCHANGED allowed \/ \E k \in Disturbances : Spend(k)
  BY Zenon DEF Next, vars, Environment, ComesOrGoes, Edit, SetApproval, Disconnect, Reconnect,
     ListArrives,
         Renamed, RosterChanges, Page, OpenPreview, OpenRetry, Opens, PressRetry, Stop, PressPurge,
         PressReAdd, ConfirmRemoval, ConfirmAdd, ConfirmRoster, ConfirmRefused, Submits, Runtime,
         Claim, Busy, Works, Plan, Open, Await, MakeChange, Clear, Write, EndWrite, Release, Pauses,
         PollReady, PauseStops, PauseLimit, Panic, EndLate, StartCommand, EndCommand, Process,
         Crash,
         Boot, EndCutOff, Maybe, Disturbances
<1> QED
  BY <1>1, <1>2, SpendIs

(* The member list shows members and roles.                                *)
LEMMA SeesIs ==
  ASSUME list \in ListType, NEW h \in [Members -> SUBSET Roles], NEW s \in SUBSET Members,
         Sees(h, s)
  PROVE  list' \in ListType
BY DEF ListType, Sees

(* What is outside keeps its types.                                        *)
LEMMA WorldStep ==
  ASSUME TypeInv, [Next]_vars
  PROVE  WorldTyped'
<1> USE DEF TypeInv, WorldTyped
<1>1. CASE UNCHANGED vars
  BY <1>1 DEF vars, discord, outside
<1>2. CASE Environment
  <2>1. ASSUME NEW m \in Members, ComesOrGoes(m) PROVE WorldTyped'
    <3>1. holds' \in [Members -> SUBSET Roles] /\ inServer' \in SUBSET Members
      BY <2>1 DEF ComesOrGoes
    <3> QED
      BY <2>1, <3>1, SeesIs DEF ComesOrGoes, outside
  <2>2. ASSUME NEW m \in Members, NEW r \in Roles, Edit(m, r) PROVE WorldTyped'
    <3>1. holds' \in [Members -> SUBSET Roles]
      BY <2>2 DEF Edit
    <3> QED
      BY <2>2, <3>1, SeesIs DEF Edit, outside
  <2>3. ASSUME NEW m \in Members, NEW R \in SUBSET Roles, SetApproval(m, R) PROVE WorldTyped'
    BY <2>3 DEF SetApproval, discord, outside
  <2>4. CASE Disconnect \/ Reconnect \/ ListArrives
    <3>1. list' \in ListType
      <4>1. CASE Reconnect
        BY <4>1 DEF Reconnect, ListType
      <4>2. CASE Disconnect \/ ListArrives
        BY <4>2 DEF Disconnect, ListArrives, ListType
      <4> QED
        BY <2>4, <4>1, <4>2
    <3> QED
      BY <2>4, <3>1 DEF Disconnect, Reconnect, ListArrives, outside
  <2>5. ASSUME NEW line \in Texts, NEW S \in SUBSET Members,
               Renamed(line, S) PROVE WorldTyped'
    BY <2>5 DEF Renamed, discord
  <2>6. ASSUME NEW i \in DOMAIN roster, NEW m \in Members, RosterChanges(i, m) PROVE WorldTyped'
    <3>1. roster' \in Seq(Members \cup {NoMember})
      BY <2>6, ExceptSeq DEF RosterChanges
    <3> QED
      BY <2>6, <3>1 DEF RosterChanges, discord
  <2> QED
    BY <1>2, <2>1, <2>2, <2>3, <2>4, <2>5, <2>6 DEF Environment
<1>3. CASE MakeChange
  <2>1. Head(run.body.todo) \in Change \/ run.at # "change"
    <3>1. run.body.todo \in Seq(Change)
      BY ZenonT(30) DEF RunSound, RunType, Body
    <3> QED
      BY <3>1, HeadTailProperties DEF RunSound
  <2>2. holds' \in [Members -> SUBSET Roles]
    BY SMTT(30), <1>3, <2>1 DEF MakeChange, Change
  <2>3. list' \in ListType
    BY <1>3, <2>2, SeesIs DEF MakeChange
  <2> QED
    BY <1>3, <2>2, <2>3 DEF MakeChange, outside
<1>4. CASE Clear
  BY <1>4 DEF Clear, discord, outside
<1>5. CASE Crash
  <2>1. list' \in ListType
    BY <1>5 DEF Crash, ListType
  <2> QED
    BY <1>5, <2>1 DEF Crash, outside
<1>6. CASE Page
  BY <1>6 DEF Page, OpenPreview, OpenRetry, Opens, PressRetry, Stop, PressPurge, PressReAdd,
              ConfirmRemoval, ConfirmAdd, ConfirmRoster, ConfirmRefused, Posts, discord, outside
<1>7. CASE Claim \/ Busy \/ Plan \/ Open \/ Await \/ Write \/ EndWrite \/ Release \/ Pauses \/ Panic
  BY <1>7 DEF Claim, Busy, Plan, Open, Await, Write, EndWrite, Release, Pauses, PollReady,
              PauseStops, PauseLimit, Panic, Runs0, discord, outside
<1>8. CASE \/ \E e \in late : EndLate(e)
           \/ \E c \in CommandRuns : StartCommand(c) \/ EndCommand(c)
           \/ Boot \/ EndCutOff
  BY <1>8 DEF EndLate, StartCommand, EndCommand, Boot, EndCutOff, discord, outside
<1> QED
  BY <1>1, <1>2, <1>3, <1>4, <1>5, <1>6, <1>7, <1>8 DEF Next, Runtime, Works, Process

(* The rows of each preview are of its kind.                               *)
LEMMA PreviewStep ==
  ASSUME TypeInv, [Next]_vars
  PROVE  PreviewTyped'
<1>1. UNCHANGED preview \/ preview' = NoPreview \/ OpenPreview \/ \E i \in Ids : OpenRetry(i)
  BY Zenon DEF Next, vars, page, Environment, ComesOrGoes, Edit, SetApproval, Disconnect, Reconnect,
         ListArrives, Renamed, RosterChanges, Page, PressRetry, Stop, PressPurge, PressReAdd,
         ConfirmRemoval, ConfirmAdd, ConfirmRoster, ConfirmRefused, Posts, Runtime, Claim, Busy,
         Works, Plan, Open, Await, MakeChange, Clear, Write, EndWrite, Release, Pauses, PollReady,
         PauseStops, PauseLimit, Panic, EndLate, StartCommand, EndCommand, Process, Crash, Boot,
         EndCutOff, Runs0
<1>2. CASE UNCHANGED preview
  BY <1>2 DEF TypeInv, PreviewTyped, RowsOf
<1>3. CASE preview' = NoPreview
  BY <1>3 DEF PreviewTyped, NoPreview, RowsOf, Roles, Apart
<1>4. ASSUME NEW r \in Roles, NEW S, Opens(RemovePreview(r, S)), S \cap InList \in SUBSET Members
      PROVE  PreviewTyped'
  <2> DEFINE loses == {m \in S : HoldsInList(m, r)}
  <2>1. loses \in SUBSET Members
    BY <1>4 DEF HoldsInList
  <2>2. InNameOrder(loses) \in Seq(Members) /\ Apart(InNameOrder(loses))
    <3> HIDE DEF loses
    <3> QED
      BY <2>1, InNameOrderIs, SeqMonotonic
  <2>3. {m \in loses : r \in approved[m]} \in SUBSET Members
    BY <2>1
  <2>4. preview' = [NoPreview EXCEPT !.kind = "removal", !.role = r, !.rows = InNameOrder(loses),
                                     !.clears = {m \in loses : r \in approved[m]}]
    BY <1>4 DEF Opens, RemovePreview
  <2> HIDE DEF loses
  <2> QED
    BY <2>2, <2>3, <2>4 DEF PreviewTyped, NoPreview, RowsOf
<1>5. ASSUME NEW r \in Roles, NEW rows \in Seq(Members \cup Range(Lines)),
             Opens(AddPreview(r, rows))
      PROVE  PreviewTyped'
  BY <1>5 DEF Opens, AddPreview, PreviewTyped, NoPreview, RowsOf
<1>6. CASE OpenPreview
  <2>1. CASE \E r \in Roles, S \in SUBSET Members : Opens(RemovePreview(r, S))
    BY <1>4, <2>1
  <2>2. CASE \E r \in Roles : Opens(AddPreview(r, Lines))
    <3>1. Lines \in Seq(Members \cup Range(Lines))
      BY FoxholeAssumption, SeqMonotonic
    <3> QED
      BY <1>5, <2>2, <3>1
  <2>3. CASE Opens(RosterPreview)
    BY <2>3 DEF Opens, RosterPreview, PreviewTyped, NoPreview, RowsOf, TypeInv, WorldTyped, Roles
  <2> QED
    BY <1>6, <2>1, <2>2, <2>3 DEF OpenPreview
<1>7. ASSUME NEW i \in Ids, OpenRetry(i) PROVE PreviewTyped'
  <2> DEFINE b == reports[i].body
             q == Misses(b)
             rows == [k \in DOMAIN q |-> q[k].who]
  <2>1. b \in Body
    BY DEF TypeInv, StoreTyped, Stored
  <2>2. q \in Seq(Change)
    BY <2>1, ConcatProperties DEF Misses, Body
  <2>3. q # <<>> /\ (Opens(RemovePreview(q[1].role, Range(rows))) \/ Opens(AddPreview(q[1].role, rows)))
    BY <1>7 DEF OpenRetry
  <2> HIDE DEF q
  <2>4. q[1].role \in Roles
    <3>1. q[1] \in Change
      BY <2>2, <2>3
    <3> QED
      BY <3>1 DEF Change
  <2>5. rows \in Seq(Members)
    <3>1. \A k \in DOMAIN q : q[k] \in Change
      BY <2>2
    <3>2. \A k \in DOMAIN q : q[k].who \in Members
      BY <3>1 DEF Change
    <3> QED
      BY <2>2, <3>2
  <2>6. rows \in Seq(Members \cup Range(Lines)) /\ Range(rows) \subseteq Members
    BY <2>5, SeqMonotonic, RangeOfSeq
  <2> HIDE DEF rows
  <2> QED
    BY <1>4, <1>5, <2>3, <2>4, <2>6
<1> QED
  BY Zenon, <1>1, <1>2, <1>3, <1>6, <1>7

(* A Confirm posts members its preview showed, each once.                  *)
LEMMA ConfirmPosts ==
  ASSUME TypeInv, ConfirmRemoval \/ ConfirmAdd \/ ConfirmRoster
  PROVE  \E kind \in {"removal", "add", "roster add"}, q \in Seq(Members), r \in Roles,
            clears \in SUBSET Members, saw \in Shown :
           /\ Apart(q) /\ Range(q) \subseteq saw
           /\ post' = [kind |-> kind, spec |-> Given(kind, Changes(q, r), clears), saw |-> saw]
<1>0. /\ preview.role \in Roles /\ preview.rows \in RowsOf(preview.kind)
         /\ preview.clears \in SUBSET Members
      /\ preview.kind = "removal" => Apart(preview.rows)
  BY DEF TypeInv, PreviewTyped
<1>1. CASE ConfirmRemoval
  <2>1. /\ preview.kind = "removal"
        /\ post' = [kind |-> "removal", saw |-> Range(preview.rows),
                    spec |-> Given("removal", Changes(preview.rows, preview.role), preview.clears)]
    BY <1>1 DEF ConfirmRemoval, Posts, Given
  <2>2. preview.rows \in Seq(Members) /\ Apart(preview.rows)
    BY <1>0, <2>1 DEF RowsOf
  <2>3. Range(preview.rows) \in Shown
    BY <2>2, RangeOfSeq DEF Shown
  <2> QED
    BY <1>0, <2>1, <2>2, <2>3
<1>2. CASE ConfirmAdd
  <2>1. PICK pick \in Picks(preview.rows) :
          post' = [kind |-> "add", saw |-> UNION Range(preview.named),
                   spec |-> Given("add", Changes(Once(pick), preview.role), {})]
    BY <1>2 DEF ConfirmAdd, Posts, Given
  <2>2. preview.kind = "add" /\ SameNamed(preview.rows, preview.named)
    BY <1>2 DEF ConfirmAdd
  <2> DEFINE rows == preview.rows
  <2>3. rows \in Seq(Members \cup Range(Lines))
    BY <1>0, <2>2 DEF RowsOf
  <2>4. pick \in Seq(Members \cup {NoMember})
    BY <2>3 DEF Picks
  <2>5. \A i \in DOMAIN rows : Matches(rows[i]) \in SUBSET Members
    <3>1. names \in [Texts -> SUBSET Members]
      BY DEF TypeInv, WorldTyped
    <3>2. \A i \in DOMAIN rows : rows[i] \in Members \/ rows[i] \in Range(Lines)
      BY <2>3
    <3> QED
      BY <3>1, <3>2 DEF Matches, Texts
  <2>6. preview.named = [i \in DOMAIN rows |-> Matches(rows[i])]
    BY <2>2 DEF SameNamed, Named
  <2>7. UNION Range(preview.named) \in SUBSET Members
    BY <2>5, <2>6 DEF Range
  <2>8. \A i \in DOMAIN rows : pick[i] \in Matches(rows[i]) \cup {NoMember}
    BY DEF Picks
  <2>9. DOMAIN pick = DOMAIN rows
    BY DEF Picks
  <2>10. Range(pick) \ {NoMember} \subseteq UNION Range(preview.named)
    BY <2>6, <2>8, <2>9 DEF Range
  <2>11. Once(pick) \in Seq(Members) /\ Apart(Once(pick))
         /\ Range(Once(pick)) = Range(pick) \ {NoMember}
    BY <2>4, OnceIs
  <2>12. UNION Range(preview.named) \in Shown
    BY <2>7 DEF Shown
  <2> QED
    BY <1>0, <2>1, <2>10, <2>11, <2>12
<1>3. CASE ConfirmRoster
  <2>1. /\ preview.kind = "roster add" /\ roster = preview.rows
        /\ post' = [kind |-> "roster add", saw |-> Range(preview.rows),
                    spec |-> Given("roster add", Changes(Once(roster), "internal"), {})]
    BY <1>3 DEF ConfirmRoster, SameRoster, Posts, Given
  <2>2. roster \in Seq(Members \cup {NoMember})
    BY DEF TypeInv, WorldTyped
  <2>3. Once(roster) \in Seq(Members) /\ Apart(Once(roster))
        /\ Range(Once(roster)) \subseteq Range(roster)
    BY <2>2, OnceIs
  <2>4. Range(roster) \in Shown /\ "internal" \in Roles
    BY <2>2, RangeOfSeq DEF Shown, Roles
  <2> QED
    BY <2>1, <2>3, <2>4
<1> QED
  BY <1>1, <1>2, <1>3

(* A spec is what it was made of.                                          *)
LEMMA GivenIs ==
  ASSUME NEW kind \in Kinds, NEW given \in Seq(Change), NEW clears \in SUBSET Members,
         NEW scope \in Scopes, NEW retry \in BOOLEAN
  PROVE  LET spec == [Given(kind, given, clears) EXCEPT !.scope = scope, !.retry = retry]
         IN  /\ spec \in SpecType /\ spec.given = given
             /\ spec.kind = kind /\ spec.retry = retry
BY Zenon DEF Given, SpecType, Scopes

(* What is posted: a Confirm, a purge or a re-add, or a Retry.             *)
LEMMA PostedBy ==
  ASSUME TypeInv, [Next]_vars, post' # post, post' # NoPost
  PROVE  \/ ConfirmRemoval \/ ConfirmAdd \/ ConfirmRoster
         \/ PressReAdd \/ \E scope \in Scopes : PressPurge(scope)
         \/ \E i \in Ids : PressRetry(i)
BY Zenon DEF Next, vars, page, Environment, ComesOrGoes, Edit, SetApproval, Disconnect, Reconnect,
       ListArrives, Renamed, RosterChanges, Page, OpenPreview, OpenRetry, Opens, Stop,
       ConfirmRefused, Runtime, Claim, Busy, Works, Plan, Open, Await, MakeChange, Clear, Write,
       EndWrite, Release, Pauses, PollReady, PauseStops, PauseLimit, Panic, EndLate, StartCommand,
       EndCommand, Process, Crash, Boot, EndCutOff, Moves

(* What is posted is of members its manager was shown.                     *)
LEMMA PostStep ==
  ASSUME TypeInv, [Next]_vars
  PROVE  PostTyped'
<1> DEFINE Sound(spec, saw) == /\ spec \in SpecType /\ saw \in Shown
                               /\ OfShown(spec) => Whos(spec.given) \subseteq saw
<1>1. ASSUME NEW kind, NEW spec, NEW saw, Sound(spec, saw),
             post' = [kind |-> kind, spec |-> spec, saw |-> saw]
      PROVE  PostTyped'
  BY <1>1 DEF PostTyped
<1>2. CASE ConfirmRemoval \/ ConfirmAdd \/ ConfirmRoster
  <2>1. PICK kind \in {"removal", "add", "roster add"}, q \in Seq(Members), r \in Roles,
             clears \in SUBSET Members, saw \in Shown :
           /\ Apart(q) /\ Range(q) \subseteq saw
           /\ post' = [kind |-> kind, spec |-> Given(kind, Changes(q, r), clears), saw |-> saw]
    BY <1>2, ConfirmPosts
  <2> DEFINE spec == Given(kind, Changes(q, r), clears)
  <2>2. Changes(q, r) \in Seq(Change) /\ Whos(Changes(q, r)) = Range(q)
    <3>1. [who : Members, role : {r}] \subseteq Change
      BY DEF Change
    <3>2. Changes(q, r) \in Seq([who : Members, role : {r}]) /\ Whos(Changes(q, r)) = Range(q)
      BY ChangesAre
    <3> QED
      BY <3>1, <3>2, SeqMonotonic
  <2>3. spec \in SpecType /\ spec.given = Changes(q, r)
    BY <2>2 DEF Given, SpecType, Scopes, Kinds
  <2>4. Sound(spec, saw)
    BY <2>1, <2>2, <2>3
  <2> HIDE DEF spec, Sound
  <2> QED
    BY <1>1, <2>1, <2>4 DEF spec
<1>3. ASSUME PressReAdd \/ \E scope \in Scopes : PressPurge(scope)
      PROVE  PostTyped'
  <2>1. PICK kind \in {"purge", "re-add"}, scope \in Scopes :
          post' = [kind |-> kind, saw |-> {}, spec |-> [kind |-> kind, scope |-> scope,
                     given |-> <<>>, clears |-> {}, retry |-> FALSE]]
    BY <1>3 DEF PressReAdd, PressPurge, Posts, Given, Scopes
  <2> DEFINE spec == [kind |-> kind, scope |-> scope, given |-> <<>>, clears |-> {}, retry |-> FALSE]
  <2>2. spec \in SpecType
    <3>1. kind \in Kinds
      BY DEF Kinds
    <3>2. <<>> \in Seq(Change)
      OBVIOUS
    <3>3. scope \in Scopes /\ {} \in SUBSET Members
      OBVIOUS
    <3> QED
      BY <3>1, <3>2, <3>3 DEF SpecType
  <2>3. ~OfShown(spec) /\ {} \in Shown
    BY DEF OfShown, Shown
  <2>4. Sound(spec, {})
    BY <2>2, <2>3
  <2> HIDE DEF spec, Sound
  <2> QED
    BY <1>1, <2>1, <2>4 DEF spec
<1>4. ASSUME NEW i \in Ids, PressRetry(i) PROVE PostTyped'
  <2> DEFINE b == reports[i].body
  <2>1. b \in Body
    BY DEF TypeInv, StoreTyped, Stored
  <2>2. Misses(b) \in Seq(Change)
    BY <2>1, ConcatProperties DEF Misses, Body
  <2>3. PICK kind \in Kinds :
          post' = [kind |-> kind, saw |-> Whos(Misses(b)),
                   spec |-> [kind |-> kind, scope |-> "both", given |-> Misses(b), clears |-> {},
                             retry |-> TRUE]]
    <3>1. PICK spec \in RetryOf(b) : Posts(spec, Whos(Misses(b)))
      BY <1>4 DEF PressRetry, Whos
    <3>2. PICK kind \in {"purge", "re-add", "roster add"} :
            spec = [kind |-> kind, scope |-> "both", given |-> Misses(b), clears |-> {}, retry |-> TRUE]
      BY <3>1 DEF RetryOf, Given
    <3> QED
      BY <3>1, <3>2 DEF Posts, Kinds
  <2> DEFINE spec == [kind |-> kind, scope |-> "both", given |-> Misses(b), clears |-> {}, retry |-> TRUE]
  <2>4. Whos(Misses(b)) \in Shown
    <3> DEFINE q == Misses(b)
    <3>1. \A k \in DOMAIN q : q[k] \in Change
      BY <2>2
    <3>2. \A k \in DOMAIN q : q[k].who \in Members
      BY <3>1 DEF Change
    <3> QED
      BY <3>2 DEF Whos, Shown
  <2>5. Sound(spec, Whos(Misses(b)))
    BY <2>2, <2>4 DEF SpecType, Scopes
  <2> HIDE DEF spec, Sound
  <2> QED
    BY <1>1, <2>3, <2>5 DEF spec
<1>5. CASE post' = post \/ post' = NoPost
  BY <1>5 DEF TypeInv, PostTyped
<1> QED
  BY <1>2, <1>3, <1>4, <1>5, PostedBy

(* The run stays as it is, but for a Stop, while the outside and the page  *)
(* go on and the process is down.                                          *)
Idle == Environment \/ Page \/ Busy \/ Boot \/ EndCutOff

LEMMA IdleSteps ==
  ASSUME Idle
  PROVE  /\ UNCHANGED <<late, commands, took, overrun, unheard, claims>>
         /\ Environment \/ Page \/ Busy \/ Boot => UNCHANGED reports
         /\ \/ UNCHANGED <<run, pressed>>
            \/ \E i \in Ids : /\ pressed' = pressed \cup {i} /\ reports[i] # Unwritten
                              /\ \/ UNCHANGED run
                                 \/ run.id = i /\ run' = [run EXCEPT !.stop = TRUE]
<1>1. CASE Environment
  BY <1>1 DEF Environment, ComesOrGoes, Edit, SetApproval, Disconnect, Reconnect, ListArrives,
              Renamed, RosterChanges, runtime, history
<1>2. ASSUME NEW i \in Ids, Stop(i) PROVE
             /\ UNCHANGED <<late, commands, took, overrun, unheard, claims, reports>>
                                          /\ pressed' = pressed \cup {i} /\ reports[i] # Unwritten
                                          /\ \/ UNCHANGED run
                                             \/ run.id = i /\ run' = [run EXCEPT !.stop = TRUE]
  BY <1>2 DEF Stop, Moves, OwnReport
<1>3. CASE OpenPreview \/ \E i \in Ids : OpenRetry(i)
  BY <1>3 DEF OpenPreview, OpenRetry, Opens, history
<1>4. CASE \/ (\E i \in Ids : PressRetry(i)) \/ (\E scope \in Scopes : PressPurge(scope))
              \/ PressReAdd
           \/ ConfirmRemoval \/ ConfirmAdd \/ ConfirmRoster
  BY <1>4 DEF PressRetry, PressPurge, PressReAdd, ConfirmRemoval, ConfirmAdd, ConfirmRoster, Posts,
     history
<1>5. CASE ConfirmRefused \/ Busy \/ Boot
  BY <1>5 DEF ConfirmRefused, Busy, Boot, Runs0, runtime, history
<1>7. CASE Environment \/ Page \/ Busy \/ Boot
  BY <1>1, <1>2, <1>3, <1>4, <1>5, <1>7 DEF Page
<1>8. Environment \/ Page \/ Busy \/ Boot => UNCHANGED reports
  BY <1>1, <1>2, <1>3, <1>4, <1>5 DEF Page
<1>6. CASE EndCutOff
  <2>1. UNCHANGED <<runtime, history>>
    BY <1>6 DEF EndCutOff
  <2>2. ~(Environment \/ Page \/ Busy \/ Boot) \/ UNCHANGED reports
    BY <1>8
  <2> QED
    BY <2>1, <2>2 DEF runtime, history
<1> QED
  BY <1>6, <1>7, <1>8 DEF Idle

(* A run under way: still with its report.                                 *)
MemberWork == Await \/ PollReady \/ PauseStops \/ PauseLimit \/ MakeChange \/ Clear \/ Panic

LEMMA RunStep ==
  ASSUME TypeInv, [Next]_vars
  PROVE  RunSound(run')
<1>0. RunSound(run) /\ run.body \in Body /\ run.spec \in SpecType
  BY DEF TypeInv, RunSound, RunType
<1>1. CASE UNCHANGED vars
  BY <1>0, <1>1 DEF vars, runtime
<1>2. CASE Idle
  <2>1. RunSound([run EXCEPT !.stop = TRUE])
    BY <1>0 DEF RunSound, RunType
  <2> QED
    BY <1>0, <1>2, <2>1, IdleSteps
<1>3. CASE Claim
  <2>1. run' = [Off EXCEPT !.at = "plan", !.spec = post.spec, !.saw = post.saw]
    BY <1>3 DEF Claim
  <2>2. post.spec \in SpecType /\ post.saw \in Shown
    BY <1>3 DEF Claim, TypeInv, PostTyped
  <2> QED
    BY <2>1, <2>2, OffIs DEF RunSound, RunType, Before0, Within
<1>4. CASE Plan
  <2>1. CASE run' = Off
    BY <2>1, OffIs
  <2>2. CASE run.at = "plan" /\ run' = [run EXCEPT !.at = "open", !.plan = PlanOf(run.spec),
                  !.body = [BlankBody EXCEPT !.kind = run.spec.kind, !.todo = PlanOf(run.spec)]]
    <3>1. PlanOf(run.spec) \in Seq(Change)
      BY <1>0, PlanOfIs DEF TypeInv
    <3>2. [BlankBody EXCEPT !.kind = run.spec.kind, !.todo = PlanOf(run.spec)] \in Body
      <4>1. BlankBody \in Body
        BY DEF BlankBody, Body
      <4>2. run.spec.kind \in {"purge", "re-add", "removal", "add", "roster add"}
        BY <1>0 DEF SpecType, Kinds
      <4> QED
        BY <3>1, <4>1, <4>2 DEF Body
    <3> QED
      BY <1>0, <2>2, <3>1, <3>2 DEF RunSound, RunType, Before0, Within
  <2> QED
    BY <1>4, <2>1, <2>2 DEF Plan, Moves
<1>5. CASE Open
  <2>1. CASE run' = Off
    BY <2>1, OffIs
  <2>2. ASSUME NEW i \in Ids, run' = [run EXCEPT !.at = "await", !.id = i] PROVE RunSound(run')
    BY <1>0, <2>2 DEF RunSound, RunType, Before0, Within
  <2>3. CASE run' = [Off EXCEPT !.at = "release"]
    BY <2>3, OffIs DEF RunSound, RunType, Before0, Within
  <2> QED
    BY <1>5, <2>1, <2>2, <2>3 DEF Open, NextId
<1>6. CASE Await
  <2>1. RunSound(Ends("done")) /\ RunSound(Ends("stopped"))
    BY <1>0, <1>6, EndsIs DEF Await, Within
  <2>2. run.body.todo = <<>> \/ RunSound(Reach)
    BY <1>0, <1>6, ReachIs DEF Await, Within
  <2>3. run.body.todo = <<>> \/ RunSound([run EXCEPT !.at = "paused"])
    BY <1>0, <1>6 DEF Await, RunSound, RunType, Before0, Within
  <2> QED
    BY <1>6, <2>1, <2>2, <2>3 DEF Await, Moves
<1>7. CASE PollReady
  BY <1>0, <1>7, ReachIs DEF PollReady, Moves, RunSound, Within
<1>8. CASE PauseStops \/ PauseLimit \/ Panic
  BY <1>0, <1>8, EndsIs DEF PauseStops, PauseLimit, Panic, Moves, Within
<1>9. CASE MakeChange \/ Clear
  <2>1. run.at \in {"change", "clear"}
    BY <1>9 DEF MakeChange, Clear
  <2>2. \A b \in {Changed(run.body), Cleared(run.body), Failed(run.body)} : RunSound(Reported(b))
    BY <1>0, <2>1, BodiesAre, ReportedIs DEF RunSound, Within
  <2>3. RunSound([run EXCEPT !.at = "clear"])
    BY ZenonT(30), <1>0, <2>1 DEF RunSound, RunType, Before0, Within
  <2>4. \/ run' = [run EXCEPT !.at = "clear"]
        \/ \E b \in {Changed(run.body), Cleared(run.body), Failed(run.body)} : run' = Reported(b)
    BY <1>9 DEF MakeChange, Clear, Moves
  <2> QED
    BY ZenonT(30), <2>2, <2>3, <2>4
<1>10. CASE Write \/ EndWrite
  <2>1. \/ run' = [run EXCEPT !.at = "await"] /\ run.at = "write"
        \/ run' = [run EXCEPT !.at = "release"] /\ run.at = "end"
        \/ run' = [run EXCEPT !.tries = @ + 1] /\ run.tries < 2
    BY <1>10 DEF Write, EndWrite, Moves
  <2> QED
    BY <1>0, <2>1 DEF RunSound, RunType, Before0, Within
<1>11. CASE Release \/ Crash
  BY <1>11, OffIs DEF Release, Crash, Moves
<1>12. CASE (\E e \in late : EndLate(e)) \/ \E c \in CommandRuns : StartCommand(c) \/ EndCommand(c)
  BY <1>0, <1>12 DEF EndLate, StartCommand, EndCommand
<1> QED
  BY <1>1, <1>2, <1>3, <1>4, <1>5, <1>6, <1>7, <1>8, <1>9, <1>10, <1>11, <1>12
  DEF Next, Runtime, Works, Pauses, Process, Idle

(* A write puts a body in a report.                                        *)
LEMMA WrittenIs ==
  ASSUME StoreTyped, NEW i \in Ids, NEW body \in Body, NEW state \in {"running", "ended"}
  PROVE  Written(i, body, state) \in [Ids -> Stored]
BY DEF StoreTyped, Written, Stored

(* The store's reports and the late end writes keep their types.           *)
LEMMA ReportsStep ==
  ASSUME TypeInv, [Next]_vars
  PROVE  reports' \in [Ids -> Stored] /\ late' \in SUBSET [id : Ids, body : Body]
<1>0. /\ reports \in [Ids -> Stored] /\ late \in SUBSET [id : Ids, body : Body]
      /\ StoreTyped /\ RunSound(run) /\ run.body \in Body
  BY DEF TypeInv, StoreTyped, RunSound, RunType
<1>1. CASE UNCHANGED <<reports, late>>
  BY <1>0, <1>1
<1>2. CASE Open
  <2>1. [state |-> "running", body |-> run.body] \in Stored
    BY <1>0 DEF Stored
  <2> QED
    BY ZenonT(30), <1>0, <1>2, <2>1 DEF Open, NextId
<1>3. CASE Write
  <2>1. run.id \in Ids
    BY <1>0, <1>3 DEF Write, RunSound, Within
  <2> QED
    BY <1>0, <1>3, <2>1, WrittenIs DEF Write
<1>4. CASE EndWrite
  <2>1. run.id \in Ids
    BY <1>0, <1>4 DEF EndWrite, RunSound, Within
  <2> QED
    BY <1>0, <1>4, <2>1, WrittenIs DEF EndWrite, GoesOn
<1>5. ASSUME NEW e \in late, EndLate(e)
      PROVE  reports' \in [Ids -> Stored] /\ late' \in SUBSET [id : Ids, body : Body]
  <2>1. e.id \in Ids /\ e.body \in Body
    BY <1>0
  <2> QED
    BY <1>0, <1>5, <2>1, WrittenIs DEF EndLate
<1>6. CASE Crash
  BY <1>0, <1>6 DEF Crash
<1>7. CASE EndCutOff
  <2>1. \A i \in Ids : [reports[i].body EXCEPT !.outcome = "restart"] \in Body
    BY ZenonT(60), <1>0 DEF Stored, Body
  <2>2. CASE \E i \in Ids : reports' = [reports EXCEPT ![i] = [state |-> "ended",
                              body |-> [@.body EXCEPT !.outcome = "restart"]]]
    BY <1>0, <1>7, <2>1, <2>2 DEF EndCutOff, Stored, runtime
  <2> QED
    BY <1>0, <1>7, <2>2 DEF EndCutOff, runtime
<1>8. CASE Environment \/ Page \/ Busy \/ Boot
  BY <1>1, <1>8, IdleSteps DEF Idle
<1>9. CASE \/ Claim \/ Plan \/ Await \/ MakeChange \/ Clear \/ Release \/ Pauses \/ Panic
           \/ \E c \in CommandRuns : StartCommand(c) \/ EndCommand(c)
  BY <1>1, <1>9 DEF Claim, Plan, Await, MakeChange, Clear, Release, Pauses, PollReady,
     PauseStops, PauseLimit, Panic, StartCommand, EndCommand, Runs0
<1> QED
  BY <1>1, <1>2, <1>3, <1>4, <1>5, <1>6, <1>7, <1>8, <1>9
  DEF Next, vars, runtime, Runtime, Works, Process

(* What the runtime and the store hold keeps its types.                    *)
LEMMA StoreStep ==
  ASSUME TypeInv, [Next]_vars
  PROVE  StoreTyped'
<1>0. /\ commands \in SUBSET CommandRuns /\ up \in {"up", "booting", "down"}
      /\ took \in [Ids -> SUBSET Change] /\ overrun \in Nat /\ claims \in Nat /\ RunSound(run)
  BY DEF TypeInv, StoreTyped
<1>1. commands' \in SUBSET CommandRuns /\ up' \in {"up", "booting", "down"}
  <2>1. \/ UNCHANGED commands \/ commands' = {}
        \/ \E c \in CommandRuns : commands' = commands \cup {c} \/ commands' = commands \ {c}
    BY ZenonT(60), IdleSteps DEF Next, vars, runtime, Idle, Runtime, Works, Pauses, Process, Claim, Plan, Open,
       Await, MakeChange, Clear, Write, EndWrite, Release, PollReady, PauseStops, PauseLimit,
       Panic, EndLate, StartCommand, EndCommand, Crash, Runs0
  <2>2. UNCHANGED up \/ up' \in {"up", "booting", "down"}
    BY ZenonT(30) DEF Next, vars, Environment, ComesOrGoes, Edit, SetApproval, Disconnect, Reconnect,
       ListArrives, Renamed, RosterChanges, Page, OpenPreview, OpenRetry, Opens, PressRetry, Stop,
       PressPurge, PressReAdd, ConfirmRemoval, ConfirmAdd, ConfirmRoster, ConfirmRefused, Posts,
       Runtime, Claim, Busy, Works, Plan, Open, Await, MakeChange, Clear, Write, EndWrite, Release,
       Pauses, PollReady, PauseStops, PauseLimit, Panic, EndLate, StartCommand, EndCommand,
       Process, Crash, Boot, EndCutOff, Runs0
  <2> QED
    BY Zenon, <1>0, <2>1, <2>2
<1>2. took' \in [Ids -> SUBSET Change] /\ overrun' \in Nat /\ claims' \in Nat
  <2>1. CASE MakeChange
    <3>1. run.body.todo \in Seq(Change) /\ run.at = "change"
      BY <1>0, <2>1 DEF RunSound, RunType, Body, MakeChange
    <3>2. Head(run.body.todo) \in Change
      BY <1>0, <3>1, HeadTailProperties DEF RunSound
    <3> QED
      BY <1>0, <2>1, <3>2 DEF MakeChange
  <2>2. CASE Claim
    <3>1. UNCHANGED took /\ overrun' = 0 /\ claims' = claims + 1
      BY <2>2 DEF Claim
    <3> QED
      BY <1>0, <3>1
  <2>3. CASE ~(MakeChange \/ Claim)
    BY <1>0, <2>3, IdleSteps DEF Next, vars, history, Idle, Runtime, Works, Pauses, Process, Plan,
       Open,
       Await, Clear, Write, EndWrite, Release, PollReady, PauseStops, PauseLimit,
       Panic, EndLate, StartCommand, EndCommand, Crash, Runs0
  <2> QED
    BY <2>1, <2>2, <2>3
<1> QED
  BY <1>1, <1>2, AllowedTyped, ReportsStep DEF StoreTyped

(* Every step keeps the types.                                             *)
LEMMA TypeStep ==
  ASSUME TypeInv, [Next]_vars
  PROVE  TypeInv'
BY WorldStep, PreviewStep, PostStep, RunStep, StoreStep DEF TypeInv

----------------------------------------------------------------------------
(* What each kind of step comes to.                                        *)

(* The steps that leave the run be, but for a Stop, and the reports.       *)
Quiet ==
  \/ Environment \/ Page \/ Busy \/ Boot \/ UNCHANGED vars
  \/ \E c \in CommandRuns : StartCommand(c) \/ EndCommand(c)

LEMMA QuietSteps ==
  ASSUME Quiet
  PROVE  /\ UNCHANGED <<reports, late, took, overrun, unheard, claims>>
         /\ up' = "up" <=> up = "up"
         /\ \/ UNCHANGED <<run, pressed>>
            \/ \E i \in Ids : /\ pressed' = pressed \cup {i} /\ reports[i] # Unwritten
                              /\ \/ UNCHANGED run
                                 \/ run.id = i /\ run' = [run EXCEPT !.stop = TRUE]
<1>1. CASE Environment \/ Page \/ Busy \/ Boot
  <2>1. up' = "up" <=> up = "up"
    BY <1>1 DEF Environment, ComesOrGoes, Edit, SetApproval, Disconnect, Reconnect, ListArrives,
       Renamed, RosterChanges, Page, OpenPreview, OpenRetry, Opens, PressRetry, Stop, PressPurge,
       PressReAdd, ConfirmRemoval, ConfirmAdd, ConfirmRoster, ConfirmRefused, Posts, Busy, Boot,
       Runs0
  <2> QED
    BY <1>1, <2>1, IdleSteps DEF Idle
<1>2. CASE UNCHANGED vars \/ \E c \in CommandRuns : StartCommand(c) \/ EndCommand(c)
  BY <1>2 DEF vars, runtime, history, StartCommand, EndCommand
<1> QED
  BY <1>1, <1>2 DEF Quiet

(* What the work at one member comes to: the run ends, pauses, looks the   *)
(* member up, changes the member or clears the approval.                   *)
EndsMove ==
  \E outcome \in {"done", "stopped", "member-list", "restart"} :
    /\ run.at \in Within /\ run.at \notin {"change", "end"} /\ run' = Ends(outcome)
    /\ run.at = "clear" => outcome = "restart"
    /\ outcome = "stopped" => run.stop
    /\ UNCHANGED <<took, overrun>>
LooksUp ==
  /\ run.at \in {"await", "paused"} /\ (run.at = "await" => ~run.stop)
  /\ UNCHANGED <<took, overrun>> /\ run.body.todo # <<>>
  /\ \/ run.at = "await" /\ run' = [run EXCEPT !.at = "paused"]
     \/ run' = [run EXCEPT !.at = "change"] \/ run' = Reported(Skipped(run.body))
Made ==
  /\ run.at = "change" /\ took' = [took EXCEPT ![run.id] = @ \cup {Head(run.body.todo)}]
  /\ overrun' = IF run.stop THEN overrun + 1 ELSE overrun
  /\ \/ run' = [run EXCEPT !.at = "clear"]
     \/ run' = Reported(Changed(run.body)) \/ run' = Reported(Failed(run.body))
Refused ==
  run.at = "change" /\ UNCHANGED <<took, overrun>> /\ run' = Reported(Failed(run.body))
Clears ==
  /\ run.at = "clear" /\ UNCHANGED <<took, overrun>>
  /\ run' = Reported(Changed(run.body)) \/ run' = Reported(Cleared(run.body))

LEMMA MemberMoves ==
  ASSUME TypeInv, MemberWork
  PROVE  /\ UNCHANGED <<reports, late, up, pressed, unheard, claims>>
         /\ EndsMove \/ LooksUp \/ Made \/ Refused \/ Clears
<1>0. RunSound(run)
  BY DEF TypeInv
<1>1. CASE Await
  BY <1>1 DEF Await, Moves, Reach, Runs0, history, EndsMove, LooksUp, Within
<1>2. CASE PollReady
  BY <1>0, <1>2 DEF PollReady, Moves, Reach, Runs0, history, LooksUp, RunSound
<1>3. CASE PauseStops \/ PauseLimit \/ Panic
  BY ZenonT(30), <1>3 DEF PauseStops, PauseLimit, Panic, Moves, Runs0, history, EndsMove, Within
<1>4. CASE MakeChange
  BY <1>4 DEF MakeChange, Moves, Made, Refused
<1>5. CASE Clear
  BY <1>5 DEF Clear, Moves, Clears, history
<1> QED
  BY <1>1, <1>2, <1>3, <1>4, <1>5 DEF MemberWork

(* At a member the run has a report, and keeps it and its plan.            *)
LEMMA MemberKeeps ==
  ASSUME TypeInv, MemberWork
  PROVE  /\ run.at \in Within /\ run.at # "end" /\ run.id \in Ids /\ run'.at \in Within
         /\ run'.id = run.id /\ run'.plan = run.plan /\ run'.spec = run.spec
         /\ run'.saw = run.saw /\ run'.stop = run.stop
<1>0. RunSound(run) /\ run \in RunType
  BY DEF TypeInv, RunSound
<1>1. EndsMove \/ LooksUp \/ Made \/ Refused \/ Clears
  BY MemberMoves
<1>2. run.at \in Within /\ run.at # "end"
  BY <1>1 DEF EndsMove, LooksUp, Made, Refused, Clears, Within
<1>3. \/ \E at \in Within : run' = [run EXCEPT !.at = at]
      \/ \E at \in Within : \E b : run' = [run EXCEPT !.at = at, !.body = b]
  BY <1>1 DEF EndsMove, LooksUp, Made, Refused, Clears, Within, Ends, Reported
<1> QED
  BY ZenonT(30), <1>0, <1>2, <1>3 DEF RunType, RunSound

(* The writes of a run's report.                                           *)
LEMMA WriteMoves ==
  ASSUME TypeInv, Write
  PROVE  /\ UNCHANGED <<late, up, took, overrun, pressed, unheard, claims>>
         /\ run.at = "write" /\ run.id \in Ids /\ run' = [run EXCEPT !.at = "await"]
         /\ reports' = reports \/ reports' = Written(run.id, run.body, "running")
BY DEF Write, Moves, history, TypeInv, RunSound, Within

(* The end write leaves the run as it is or is its last.                   *)
LEMMA EndMoves ==
  ASSUME TypeInv, EndWrite
  PROVE  /\ UNCHANGED <<up, took, overrun, pressed, unheard, claims>>
         /\ run.at = "end" /\ run.id \in Ids
         /\ reports' = reports \/ reports' = Written(run.id, run.body, "ended")
         /\ \/ run' = [run EXCEPT !.tries = run.tries + 1] /\ run.tries < 2 /\ UNCHANGED late
            \/ /\ run' = [run EXCEPT !.at = "release"]
               /\ \/ UNCHANGED late /\ reports' = Written(run.id, run.body, "ended")
                  \/ late' = late \cup {[id |-> run.id, body |-> run.body]}
<1>1. run.at = "end" /\ run.id \in Ids
  BY DEF EndWrite, TypeInv, RunSound, Within
<1> QED
  BY <1>1 DEF EndWrite, Moves, history, GoesOn

----------------------------------------------------------------------------
(* Whose a report is                                                       *)

(* A run has its report running until its end write; a late end write has  *)
(* one its run is done with; nobody's report runs but those whose insert's *)
(* answer was lost and those the next start ends.                          *)
Opened(i) == reports[i].state # "none"
Midway == Within \ {"end"}
OwnInv ==
  /\ run.at \in Midway => Runs(run.id)
  /\ run.id \in Ids => Opened(run.id)
  /\ \A e \in late : Opened(e.id) /\ (e.id = run.id => run.at = "release")
  /\ up # "up" => run.at = "none" /\ late = {}
  /\ \A i \in Ids : ~Opened(i) => took[i] = {}
  /\ \A i \in Ids : Runs(i) => \/ i \in unheard \/ up # "up"
                               \/ run.id = i /\ run.at # "release"
                               \/ \E e \in late : e.id = i

(* A write changes the state of its own report at most, from running.      *)
LEMMA WrittenStates ==
  ASSUME StoreTyped, NEW i \in Ids, NEW body, NEW state \in {"running", "ended"},
         reports' = Written(i, body, state)
  PROVE  /\ \A j \in Ids : Opened(j)' <=> Opened(j)
         /\ \A j \in Ids \ {i} : reports'[j] = reports[j]
         /\ Runs(i)' <=> Runs(i) /\ state = "running"
BY DEF StoreTyped, Written, Runs, Opened

(* Every step keeps whose each report is.                                  *)
LEMMA OwnStep ==
  ASSUME TypeInv, OwnInv, [Next]_vars
  PROVE  OwnInv'
<1> USE DEF OwnInv
<1>0. /\ RunSound(run) /\ run \in RunType /\ StoreTyped /\ NoReport \notin Ids
      /\ late \in SUBSET [id : Ids, body : Body]
  BY FoxholeAssumption DEF TypeInv, RunSound, StoreTyped
<1>1. CASE Quiet
  <2>1. /\ UNCHANGED <<reports, late, took, unheard>> /\ (up' = "up" <=> up = "up")
        /\ run' = run \/ run' = [run EXCEPT !.stop = TRUE]
    BY <1>1, QuietSteps
  <2>2. run'.at = run.at /\ run'.id = run.id
    BY <1>0, <2>1 DEF RunType
  <2> QED
    BY <2>1, <2>2 DEF Opened, Runs
<1>2. CASE MemberWork
  <2>1. UNCHANGED <<reports, late, up, unheard>>
    BY <1>2, MemberMoves
  <2>2. /\ run.at \in Within /\ run'.at \in Within /\ run.id \in Ids /\ run'.id = run.id
        /\ run.at # "end"
    BY <1>2, MemberKeeps
  <2>3. \A i \in Ids : i # run.id => took'[i] = took[i]
    <3>1. took \in [Ids -> SUBSET Change]
      BY <1>0 DEF StoreTyped
    <3> QED
      BY <1>2, <2>2, <3>1, MemberMoves DEF EndsMove, LooksUp, Made, Refused, Clears
  <2> QED
    BY <2>1, <2>2, <2>3 DEF Opened, Runs, Midway, Within
<1>3. CASE Write
  <2>1. /\ UNCHANGED <<late, up, took, unheard>> /\ run.id \in Ids /\ run.at = "write"
        /\ run' = [run EXCEPT !.at = "await"]
        /\ reports' = reports \/ reports' = Written(run.id, run.body, "running")
    BY <1>3, WriteMoves
  <2>2. run'.at = "await" /\ run'.id = run.id
    BY <1>0, <2>1 DEF RunType
  <2>3. \A i \in Ids : (Opened(i)' <=> Opened(i)) /\ (Runs(i)' <=> Runs(i))
    BY <1>0, <2>1, WrittenStates DEF Runs, Opened
  <2> QED
    BY <1>0, <2>1, <2>2, <2>3 DEF Midway, Within
<1>4. CASE EndWrite
  <2>1. run.id \in Ids /\ run.at = "end" /\ UNCHANGED <<up, took, unheard>>
    BY <1>4, EndMoves
  <2>2. run'.at \in {"end", "release"} /\ run'.id = run.id
    BY <1>0, <1>4, EndMoves DEF RunType
  <2>3. \A i \in Ids : (Opened(i)' <=> Opened(i)) /\ (Runs(i)' => Runs(i))
    BY <1>0, <1>4, EndMoves, WrittenStates DEF Runs, Opened
  <2>4. \/ run'.at = "end" /\ UNCHANGED late
        \/ /\ run'.at = "release"
           /\ \/ UNCHANGED late /\ reports' = Written(run.id, run.body, "ended")
              \/ late' = late \cup {[id |-> run.id, body |-> run.body]}
    <3>1. [run EXCEPT !.at = "release"].at = "release"
          /\ [run EXCEPT !.tries = run.tries + 1].at = run.at
      BY <1>0 DEF RunType
    <3> QED
      BY <1>4, <2>1, <3>1, EndMoves
  <2>5. reports'[run.id].state # "running" \/ run'.at = "end" \/ \E e \in late' : e.id = run.id
    <3>1. CASE reports' = Written(run.id, run.body, "ended")
      BY <1>0, <2>1, <2>2, <3>1, WrittenStates DEF Runs
    <3>2. CASE late' = late \cup {[id |-> run.id, body |-> run.body]}
      <4>1. [id |-> run.id, body |-> run.body] \in late'
            /\ [id |-> run.id, body |-> run.body].id = run.id
        BY <3>2
      <4> QED
        BY <4>1
    <3> QED
      BY <2>4, <3>1, <3>2
  <2> QED
    BY <1>0, <2>1, <2>2, <2>3, <2>4, <2>5 DEF Midway, Within, Runs
<1>5. ASSUME NEW e \in late, EndLate(e) PROVE OwnInv'
  <2>1. /\ UNCHANGED <<run, up, took, unheard>> /\ e.id \in Ids /\ up = "up"
        /\ \/ reports' = Written(e.id, e.body, "ended") /\ late' = late \ {e}
           \/ UNCHANGED <<reports, late>>
    BY <1>0, <1>5 DEF EndLate, history
  <2>2. CASE reports' = Written(e.id, e.body, "ended") /\ late' = late \ {e}
    <3>1. /\ \A i \in Ids : (Opened(i)' <=> Opened(i))
          /\ \A i \in Ids \ {e.id} : reports'[i] = reports[i]
          /\ ~Runs(e.id)'
      BY <1>0, <2>1, <2>2, WrittenStates
    <3>2. e.id # run.id \/ run.at = "release"
      OBVIOUS
    <3>3. \A i \in Ids \ {e.id} : Runs(i)' <=> Runs(i)
      BY <3>1 DEF Runs
    <3>4. run.at \in Midway => Runs(run.id)'
      BY <1>0, <2>1, <3>2, <3>3 DEF Midway, Within, RunSound
    <3>5. ASSUME NEW i \in Ids, Runs(i)'
          PROVE  \/ i \in unheard
                 \/ run.id = i /\ run.at # "release"
                 \/ \E d \in late' : d.id = i
      <4>1. i # e.id /\ Runs(i)
        BY <3>1, <3>3, <3>5
      <4>2. \A d \in late : d.id = i => d \in late'
        BY <2>2, <4>1
      <4>3. \/ i \in unheard \/ up # "up"
            \/ run.id = i /\ run.at # "release"
            \/ \E d \in late : d.id = i
        BY <4>1
      <4> QED
        BY <2>1, <4>2, <4>3
    <3> QED
      BY <1>0, <2>1, <2>2, <3>1, <3>4, <3>5
  <2> QED
    BY <2>1, <2>2 DEF Opened, Runs
<1>6. CASE Claim \/ Plan \/ Release
  <2>1. UNCHANGED <<reports, late, took, unheard, up>>
    BY <1>6 DEF Claim, Plan, Release, Runs0, history
  <2>2. run'.at \in {"none", "plan", "open"} /\ run'.id = NoReport
    BY ZenonT(60), <1>0, <1>6, OffIs DEF Claim, Plan, Release, Moves, Off, RunType, RunSound, Before0
  <2>3. run.id = NoReport \/ run.at = "release"
    BY <1>0, <1>6 DEF Claim, Plan, Release, RunSound, Before0
  <2>4. up' # "up" => run'.at = "none"
    BY <2>1, <1>6, OffIs DEF Claim, Plan, Release
  <2> QED
    BY <1>0, <2>1, <2>2, <2>3, <2>4 DEF Opened, Runs, Midway, Within
<1>7. CASE Open
  <2>1. run.at = "open" /\ run.id = NoReport /\ UNCHANGED <<late, up, took>> /\ up = "up"
    BY <1>0, <1>7 DEF Open, RunSound, Before0
  <2>2. CASE run' = Off /\ UNCHANGED <<reports, unheard>>
    BY <1>0, <2>1, <2>2, OffIs DEF Opened, Runs, Midway, Within
  <2>3. ASSUME NEW i \in NextId,
               reports' = [reports EXCEPT ![i] = [state |-> "running", body |-> run.body]],
               \/ run' = [run EXCEPT !.at = "await", !.id = i] /\ UNCHANGED unheard
               \/ run' = [Off EXCEPT !.at = "release"] /\ unheard' = unheard \cup {i}
        PROVE  OwnInv'
    <3>1. i \in Ids /\ ~Opened(i)
      BY <2>3 DEF NextId, Opened, Unwritten
    <3>2. Runs(i)' /\ Opened(i)' /\ \A j \in Ids \ {i} : reports'[j] = reports[j]
      BY <1>0, <2>3, <3>1 DEF StoreTyped, Runs, Opened
    <3>3. \/ run'.at = "await" /\ run'.id = i /\ UNCHANGED unheard
          \/ run'.at = "release" /\ run'.id = NoReport /\ unheard' = unheard \cup {i}
      BY ZenonT(30), <1>0, <2>3 DEF RunType, Off
    <3>4. \A e \in late : e.id \in Ids /\ e.id # i
      BY <1>0, <3>1
    <3>5. \A j \in Ids \ {i} : (Opened(j)' <=> Opened(j)) /\ (Runs(j)' <=> Runs(j))
      BY <3>2 DEF Opened, Runs
    <3> QED
      BY <1>0, <2>1, <3>1, <3>2, <3>3, <3>4, <3>5 DEF Midway, Within
  <2> QED
    BY <1>7, <2>2, <2>3 DEF Open
<1>8. CASE Crash
  BY <1>0, <1>8, OffIs DEF Crash, history, Midway, Within, Opened, Runs
<1>9. CASE EndCutOff
  <2>1. UNCHANGED <<run, late, took, unheard>> /\ run.at = "none" /\ late = {} /\ run.id = NoReport
    BY <1>0, <1>9 DEF EndCutOff, runtime, history, RunSound, Before0
  <2>2. \A i \in Ids : (Opened(i)' <=> Opened(i)) /\ (Runs(i)' => Runs(i))
    BY <1>0, <1>9 DEF EndCutOff, StoreTyped, Opened, Runs
  <2>3. up' # "up" \/ \A i \in Ids : ~Runs(i)'
    BY <1>9 DEF EndCutOff, Runs
  <2> QED
    BY <1>0, <2>1, <2>2, <2>3 DEF Midway, Within
<1> QED
  BY <1>1, <1>2, <1>3, <1>4, <1>5, <1>6, <1>7, <1>8, <1>9
  DEF Next, Runtime, Works, Pauses, Process, Quiet, MemberWork

----------------------------------------------------------------------------
(* Each planned change is in one list                                      *)

(* The head of a sequence without repeats is not in its tail.              *)
LEMMA HeadApart ==
  ASSUME NEW S, NEW q \in Seq(S), q # <<>>, Apart(q)
  PROVE  /\ Tail(q) \in Seq(S) /\ Apart(Tail(q)) /\ Head(q) \notin Range(Tail(q))
         /\ Range(q) = Range(Tail(q)) \cup {Head(q)} /\ Len(q) = Len(Tail(q)) + 1
<1>1. /\ Tail(q) \in Seq(S) /\ Len(q) = Len(Tail(q)) + 1 /\ Len(q) \in Nat \ {0}
      /\ Head(q) = q[1] /\ \A k \in 1 .. Len(q) - 1 : Tail(q)[k] = q[k + 1]
  BY HeadTailProperties
<1>2. DOMAIN Tail(q) = 1 .. Len(q) - 1 /\ DOMAIN q = 1 .. Len(q)
  BY <1>1
<1>3. Apart(Tail(q))
  <2> SUFFICES ASSUME NEW i \in 1 .. Len(q) - 1, NEW j \in 1 .. Len(q) - 1, Tail(q)[i] = Tail(q)[j]
               PROVE  i = j
    BY <1>2 DEF Apart
  <2>1. q[i + 1] = q[j + 1] /\ i + 1 \in 1 .. Len(q) /\ j + 1 \in 1 .. Len(q)
    BY <1>1
  <2> QED
    BY <1>2, <2>1 DEF Apart
<1>4. Head(q) \notin Range(Tail(q))
  <2> SUFFICES ASSUME NEW i \in 1 .. Len(q) - 1, Tail(q)[i] = Head(q) PROVE FALSE
    BY <1>2 DEF Range
  <2>1. q[i + 1] = q[1] /\ i + 1 \in 1 .. Len(q) /\ 1 \in 1 .. Len(q)
    BY <1>1
  <2> QED
    BY <1>2, <2>1 DEF Apart
<1>5. Range(q) = Range(Tail(q)) \cup {Head(q)}
  <2>1. ASSUME NEW k \in 1 .. Len(q) PROVE q[k] \in Range(Tail(q)) \cup {Head(q)}
    <3>1. CASE k = 1
      BY <1>1, <3>1
    <3>2. CASE k # 1
      <4>1. k - 1 \in 1 .. Len(q) - 1 /\ Tail(q)[k - 1] = q[k]
        BY <1>1, <3>2
      <4> QED
        BY <1>2, <4>1 DEF Range
    <3> QED
      BY <3>1, <3>2
  <2>2. ASSUME NEW k \in 1 .. Len(q) - 1 PROVE Tail(q)[k] \in Range(q)
    <3>1. Tail(q)[k] = q[k + 1] /\ k + 1 \in 1 .. Len(q)
      BY <1>1
    <3> QED
      BY <1>2, <3>1 DEF Range
  <2>3. Head(q) \in Range(q)
    BY <1>1, <1>2 DEF Range
  <2> QED
    BY <1>2, <2>1, <2>2, <2>3 DEF Range
<1> QED
  BY <1>1, <1>3, <1>4, <1>5

(* Appending adds one element.                                             *)
LEMMA AppendRange ==
  ASSUME NEW S, NEW q \in Seq(S), NEW x \in S
  PROVE  Range(Append(q, x)) = Range(q) \cup {x}
<1>1. /\ Append(q, x) \in Seq(S) /\ Len(Append(q, x)) = Len(q) + 1 /\ Len(q) \in Nat
      /\ \A k \in 1 .. Len(q) : Append(q, x)[k] = q[k]
      /\ Append(q, x)[Len(q) + 1] = x
  BY AppendProperties
<1>2. DOMAIN Append(q, x) = 1 .. Len(q) + 1 /\ DOMAIN q = 1 .. Len(q)
  BY <1>1
<1>3. \A k \in 1 .. Len(q) + 1 : k \in 1 .. Len(q) \/ k = Len(q) + 1
  BY <1>1
<1>4. (\A k \in 1 .. Len(q) : k \in 1 .. Len(q) + 1) /\ Len(q) + 1 \in 1 .. Len(q) + 1
  BY <1>1
<1> QED
  BY <1>1, <1>2, <1>3, <1>4 DEF Range

(* Appending a new element repeats none.                                   *)
LEMMA AppendApart ==
  ASSUME NEW S, NEW q \in Seq(S), NEW x \in S, x \notin Range(q), Apart(q)
  PROVE  /\ Append(q, x) \in Seq(S) /\ Apart(Append(q, x))
         /\ Range(Append(q, x)) = Range(q) \cup {x} /\ Len(Append(q, x)) = Len(q) + 1
<1>1. /\ Append(q, x) \in Seq(S) /\ Len(Append(q, x)) = Len(q) + 1 /\ Len(q) \in Nat
      /\ \A k \in 1 .. Len(q) : Append(q, x)[k] = q[k]
      /\ Append(q, x)[Len(q) + 1] = x
  BY AppendProperties
<1>2. DOMAIN Append(q, x) = 1 .. Len(q) + 1 /\ DOMAIN q = 1 .. Len(q)
  BY <1>1
<1>3. Range(Append(q, x)) = Range(q) \cup {x}
  BY AppendRange
<1>4. Apart(Append(q, x))
  <2> SUFFICES ASSUME NEW i \in 1 .. Len(q) + 1, NEW j \in 1 .. Len(q) + 1,
                      Append(q, x)[i] = Append(q, x)[j], i < j
               PROVE  FALSE
    BY <1>1, <1>2 DEF Apart
  <2>1. i \in 1 .. Len(q) /\ Append(q, x)[i] = q[i] /\ q[i] \in Range(q)
    BY <1>1, <1>2 DEF Range
  <2>2. CASE j = Len(q) + 1
    BY <1>1, <2>1, <2>2
  <2>3. CASE j \in 1 .. Len(q)
    <3>1. q[i] = q[j]
      BY <1>1, <2>1, <2>3
    <3>2. i = j
      BY <1>2, <2>1, <2>3, <3>1 DEF Apart
    <3> QED
      BY <3>2
  <2> QED
    BY <1>1, <2>2, <2>3
<1> QED
  BY <1>1, <1>3, <1>4

(* Nor does joining two sequences that share none.                         *)
LEMMA ConcatApart ==
  ASSUME NEW S, NEW p \in Seq(S), NEW q \in Seq(S), Apart(p), Apart(q), Range(p) \cap Range(q) = {}
  PROVE  p \o q \in Seq(S) /\ Apart(p \o q)
<1>1. \A i \in DOMAIN p, j \in DOMAIN q : p[i] # q[j]
  BY DEF Range
<1> QED
  BY <1>1 DEF Apart

(* The lists of a report are apart, and each change in them is there once. *)
Listed(b) == b.changed \cup b.skipped \cup Range(b.failed) \cup Range(b.todo)
Counted(b) == Cardinality(b.changed) + Cardinality(b.skipped) + Len(b.failed) + Len(b.todo)
Whole(b) ==
  /\ IsFiniteSet(b.changed) /\ IsFiniteSet(b.skipped) /\ Apart(b.failed) /\ Apart(b.todo)
  /\ b.changed \cap b.skipped = {} /\ b.changed \cap Range(b.failed) = {}
  /\ b.skipped \cap Range(b.failed) = {}
  /\ (b.changed \cup b.skipped \cup Range(b.failed)) \cap Range(b.todo) = {}
  /\ b.cleared \subseteq b.changed

(* Recording the next member moves it from those to come to one list.      *)
LEMMA BodyMoves ==
  ASSUME NEW b \in Body, Whole(b), b.todo # <<>>,
         NEW d \in {Skipped(b), Failed(b), Changed(b), Cleared(b)}
  PROVE  Whole(d) /\ Listed(d) = Listed(b) /\ Counted(d) = Counted(b) /\ d.outcome = b.outcome
<1> DEFINE h == Head(b.todo)
           t == Tail(b.todo)
<1>0. b.todo \in Seq(Change) /\ b.failed \in Seq(Change) /\ Apart(b.todo) /\ Apart(b.failed)
  BY DEF Body, Whole
<1>1. /\ t \in Seq(Change) /\ Apart(t) /\ h \notin Range(t)
      /\ Range(b.todo) = Range(t) \cup {h} /\ Len(b.todo) = Len(t) + 1
  BY <1>0, HeadApart
<1>2. h \notin b.changed /\ h \notin b.skipped /\ h \notin Range(b.failed) /\ h \in Change
  <2>1. h \in Change
    BY <1>0, HeadTailProperties
  <2> QED
    BY <1>1, <2>1 DEF Whole
<1>3. /\ Append(b.failed, h) \in Seq(Change) /\ Apart(Append(b.failed, h))
      /\ Range(Append(b.failed, h)) = Range(b.failed) \cup {h}
      /\ Len(Append(b.failed, h)) = Len(b.failed) + 1
  BY <1>0, <1>2, AppendApart
<1>4. /\ IsFiniteSet(b.changed \cup {h})
         /\ Cardinality(b.changed \cup {h}) = Cardinality(b.changed) + 1
      /\ IsFiniteSet(b.skipped \cup {h})
         /\ Cardinality(b.skipped \cup {h}) = Cardinality(b.skipped) + 1
      /\ Cardinality(b.changed) \in Nat /\ Cardinality(b.skipped) \in Nat
  <2>1. IsFiniteSet(b.changed) /\ IsFiniteSet(b.skipped)
    BY DEF Whole
  <2> HIDE DEF h
  <2> QED
    BY <1>2, <2>1, FS_AddElement, FS_CardinalityType
<1>5. /\ Len(b.failed) \in Nat /\ Len(t) \in Nat
      /\ Cardinality(b.changed) \in Nat /\ Cardinality(b.skipped) \in Nat
  BY <1>0, <1>1, <1>4, LenProperties
<1>6. CASE d = Skipped(b)
  <2>1. /\ d.todo = t /\ d.skipped = b.skipped \cup {h} /\ d.failed = b.failed
        /\ d.changed = b.changed /\ d.cleared = b.cleared /\ d.outcome = b.outcome
    BY <1>6 DEF Skipped, Body
  <2> HIDE DEF h, t
  <2>2. Counted(d) = Counted(b)
    <3>1. Counted(d) = Cardinality(b.changed) + (Cardinality(b.skipped) + 1) + Len(b.failed) + Len(t)
      BY <1>3, <1>4, <2>1 DEF Counted
    <3>2. Counted(b) = Cardinality(b.changed) + Cardinality(b.skipped) + Len(b.failed) + (Len(t) + 1)
      BY <1>1 DEF Counted
    <3>3. Cardinality(b.changed) + (Cardinality(b.skipped) + 1) + Len(b.failed) + Len(t)
            = Cardinality(b.changed) + Cardinality(b.skipped) + Len(b.failed) + (Len(t) + 1)
      BY SMTT(60), <1>5
    <3> QED
      BY <3>1, <3>2, <3>3
  <2>3. Listed(d) = Listed(b)
    BY <1>1, <2>1 DEF Listed
  <2>4. Whole(d)
    BY <1>0, <1>1, <1>2, <1>4, <2>1 DEF Whole
  <2> QED
    BY <2>1, <2>2, <2>3, <2>4
<1>7. CASE d = Failed(b)
  <2>1. /\ d.todo = t /\ d.skipped = b.skipped /\ d.failed = Append(b.failed, h)
        /\ d.changed = b.changed /\ d.cleared = b.cleared /\ d.outcome = b.outcome
    BY <1>7 DEF Failed, Body
  <2> HIDE DEF h, t
  <2>2. Counted(d) = Counted(b)
    <3>1. Counted(d) = Cardinality(b.changed) + Cardinality(b.skipped) + (Len(b.failed) + 1) + Len(t)
      BY <1>3, <1>4, <2>1 DEF Counted
    <3>2. Counted(b) = Cardinality(b.changed) + Cardinality(b.skipped) + Len(b.failed) + (Len(t) + 1)
      BY <1>1 DEF Counted
    <3>3. Cardinality(b.changed) + Cardinality(b.skipped) + (Len(b.failed) + 1) + Len(t)
            = Cardinality(b.changed) + Cardinality(b.skipped) + Len(b.failed) + (Len(t) + 1)
      BY SMTT(60), <1>5
    <3> QED
      BY <3>1, <3>2, <3>3
  <2>3. Listed(d) = Listed(b)
    BY <1>1, <1>3, <2>1 DEF Listed
  <2>4. Whole(d)
    BY ZenonT(30), <1>0, <1>1, <1>2, <1>3, <1>4, <2>1 DEF Whole
  <2> QED
    BY <2>1, <2>2, <2>3, <2>4
<1>8. CASE d = Changed(b) \/ d = Cleared(b)
  <2>1. /\ d.todo = t /\ d.skipped = b.skipped /\ d.failed = b.failed
        /\ d.changed = b.changed \cup {h} /\ d.outcome = b.outcome
        /\ d.cleared \subseteq b.cleared \cup {h}
    BY <1>8 DEF Changed, Cleared, Body
  <2> HIDE DEF h, t
  <2>2. Counted(d) = Counted(b)
    <3>1. Counted(d) = (Cardinality(b.changed) + 1) + Cardinality(b.skipped) + Len(b.failed) + Len(t)
      BY <1>3, <1>4, <2>1 DEF Counted
    <3>2. Counted(b) = Cardinality(b.changed) + Cardinality(b.skipped) + Len(b.failed) + (Len(t) + 1)
      BY <1>1 DEF Counted
    <3>3. (Cardinality(b.changed) + 1) + Cardinality(b.skipped) + Len(b.failed) + Len(t)
            = Cardinality(b.changed) + Cardinality(b.skipped) + Len(b.failed) + (Len(t) + 1)
      BY SMTT(60), <1>5
    <3> QED
      BY <3>1, <3>2, <3>3
  <2>3. Listed(d) = Listed(b)
    BY <1>1, <2>1 DEF Listed
  <2>4. Whole(d)
    BY ZenonT(30), <1>0, <1>1, <1>2, <1>4, <2>1 DEF Whole
  <2> QED
    BY <2>1, <2>2, <2>3, <2>4
<1> QED
  BY <1>6, <1>7, <1>8

(* Every report is whole, and so is the run's, which lists its plan; what  *)
(* an action is given names each change once.                              *)
WholeInv ==
  /\ \A i \in Ids : Whole(reports[i].body)
  /\ \A e \in late : Whole(e.body)
  /\ Whole(run.body)
  /\ run.id # NoReport \/ run.at = "open"
       => Listed(run.body) = Range(run.plan) /\ Counted(run.body) = Len(run.plan)
  /\ Apart(run.spec.given)
  /\ post # NoPost => Apart(post.spec.given)

(* A report starts whole, stays so whatever its outcome, and is written    *)
(* so.                                                                     *)
LEMMA BlankWhole == Whole(BlankBody)
BY FS_EmptySet DEF Whole, BlankBody, Apart, Range

LEMMA OutcomeKeeps ==
  ASSUME NEW b \in Body, NEW outcome
  PROVE  LET d == [b EXCEPT !.outcome = outcome]
         IN  /\ Whole(d) <=> Whole(b)
             /\ Listed(d) = Listed(b) /\ Counted(d) = Counted(b)
BY DEF Body, Whole, Listed, Counted

LEMMA WrittenWhole ==
  ASSUME StoreTyped, \A i \in Ids : Whole(reports[i].body), NEW j \in Ids,
         NEW body \in Body, Whole(body), NEW state, reports' = Written(j, body, state)
  PROVE  \A i \in Ids : Whole(reports'[i].body)
BY DEF StoreTyped, Written

(* The run's report stays whole and lists its plan.                        *)
LEMMA WholeRunStep ==
  ASSUME TypeInv, WholeInv, [Next]_vars
  PROVE  /\ Whole(run'.body)
         /\ run'.id # NoReport \/ run'.at = "open"
              => Listed(run'.body) = Range(run'.plan) /\ Counted(run'.body) = Len(run'.plan)
         /\ Apart(run'.spec.given)
<1>0. /\ RunSound(run) /\ run \in RunType /\ run.body \in Body /\ NoReport \notin Ids
  BY FoxholeAssumption DEF TypeInv, RunSound, RunType
<1>b. /\ Whole(run.body) /\ Apart(run.spec.given)
      /\ run.id # NoReport \/ run.at = "open"
           => Listed(run.body) = Range(run.plan) /\ Counted(run.body) = Len(run.plan)
  BY DEF WholeInv
<1> DEFINE Good(r) == /\ Whole(r.body)
                      /\ r.id # NoReport \/ r.at = "open"
                           => Listed(r.body) = Range(r.plan) /\ Counted(r.body) = Len(r.plan)
                      /\ Apart(r.spec.given)
<1>o. Good(Off)
  BY BlankWhole DEF Off, Given, Apart
<1>1. CASE Quiet
  <2>1. run' = run \/ run' = [run EXCEPT !.stop = TRUE]
    BY <1>1, QuietSteps
  <2> QED
    BY <1>0, <1>b, <2>1 DEF RunType
<1>2. CASE MemberWork
  <2>1. /\ run.id \in Ids /\ run'.id = run.id /\ run'.plan = run.plan /\ run'.spec = run.spec
    BY <1>2, MemberKeeps
  <2>2. /\ Whole(run'.body) /\ Listed(run'.body) = Listed(run.body)
        /\ Counted(run'.body) = Counted(run.body)
    <3>1. CASE EndsMove
      <4>1. PICK outcome : run'.body = [run.body EXCEPT !.outcome = outcome]
        BY ZenonT(30), <1>0, <3>1 DEF EndsMove, Ends, RunType
      <4> QED
        BY <1>0, <1>b, <4>1, OutcomeKeeps
    <3>2. CASE LooksUp \/ Made \/ Refused \/ Clears
      <4>1. run'.body = run.body \/ run'.body \in {Skipped(run.body), Failed(run.body), Changed(run.body), Cleared(run.body)}
        BY ZenonT(30), <1>0, <3>2 DEF LooksUp, Made, Refused, Clears, Reported, RunType
      <4>2. run.body.todo # <<>>
        BY <1>0, <3>2 DEF LooksUp, Made, Refused, Clears, RunSound
      <4> QED
        BY <1>0, <1>b, <4>1, <4>2, BodyMoves
    <3> QED
      BY <1>2, <3>1, <3>2, MemberMoves
  <2> QED
    BY <1>0, <1>b, <2>1, <2>2
<1>3. CASE Write
  BY <1>0, <1>3, <1>b, WriteMoves DEF RunType
<1>4. CASE EndWrite
  <2>1. run.id \in Ids /\ (run' = [run EXCEPT !.at = "release"] \/ run' = [run EXCEPT !.tries = run.tries + 1])
    BY <1>4, EndMoves
  <2> QED
    BY <1>0, <1>b, <2>1 DEF RunType
<1>5. ASSUME NEW e \in late, EndLate(e) PROVE Good(run')
  BY <1>5, <1>b DEF EndLate
<1>6. CASE Claim
  <2>1. run' = [Off EXCEPT !.at = "plan", !.spec = post.spec, !.saw = post.saw] /\ post # NoPost
    BY <1>6 DEF Claim
  <2>2. Apart(post.spec.given)
    BY <2>1 DEF WholeInv
  <2> QED
    BY <2>1, <2>2, <1>o DEF Off
<1>7. CASE Plan
  <2>1. CASE run' = [run EXCEPT !.at = "open", !.plan = PlanOf(run.spec),
                  !.body = [BlankBody EXCEPT !.kind = run.spec.kind, !.todo = PlanOf(run.spec)]]
    <3> DEFINE q == PlanOf(run.spec)
               b == run'.body
    <3>1. q \in Seq(Change) /\ Apart(q)
      BY <1>0, <1>b, PlanOfIs DEF TypeInv, RunType
    <3>2. run'.plan = q /\ run'.spec = run.spec /\ b.todo = q /\ b.failed = <<>> /\ b.changed = {}
          /\ b.skipped = {} /\ b.cleared = {}
      BY <1>0, <2>1 DEF RunType, BlankBody
    <3> HIDE DEF q, b
    <3>3. Apart(<<>>) /\ Range(<<>>) = {} /\ Len(<<>>) = 0
      BY DEF Apart, Range
    <3>4. IsFiniteSet({}) /\ Cardinality({}) = 0
      BY FS_EmptySet
    <3>5. Whole(b) /\ Listed(b) = Range(q)
      BY <3>1, <3>2, <3>3, <3>4 DEF Whole, Listed
    <3>6. Counted(b) = Len(q)
      <4>1. Len(q) \in Nat
        BY <3>1, LenProperties
      <4> QED
        BY <3>2, <3>3, <3>4, <4>1 DEF Counted
    <3> QED
      BY <1>b, <3>2, <3>5, <3>6 DEF b
  <2> QED
    BY <1>7, <2>1, <1>o DEF Plan, Moves
<1>8. CASE Open
  <2>1. run.at = "open"
    BY <1>8 DEF Open
  <2>2. \/ run' = Off \/ run' = [Off EXCEPT !.at = "release"]
        \/ \E i \in Ids : run' = [run EXCEPT !.at = "await", !.id = i]
    BY <1>8 DEF Open, NextId
  <2>3. Good([Off EXCEPT !.at = "release"])
    BY <1>o DEF Off
  <2>4. ASSUME NEW i \in Ids PROVE Good([run EXCEPT !.at = "await", !.id = i])
    BY <1>0, <1>b, <2>1 DEF RunType
  <2> QED
    BY <1>o, <2>2, <2>3, <2>4
<1>9. CASE Release \/ Crash
  BY <1>9, <1>o DEF Release, Crash, Moves
<1>10. CASE EndCutOff
  BY <1>10, <1>b DEF EndCutOff, runtime
<1> QED
  BY <1>1, <1>2, <1>3, <1>4, <1>5, <1>6, <1>7, <1>8, <1>9, <1>10
  DEF Next, Runtime, Works, Pauses, Process, Quiet, MemberWork

(* The reports in the store and those still to be written stay whole.      *)
LEMMA WholeStoreStep ==
  ASSUME TypeInv, WholeInv, [Next]_vars
  PROVE  (\A i \in Ids : Whole(reports'[i].body)) /\ \A e \in late' : Whole(e.body)
<1>0. /\ RunSound(run) /\ run.body \in Body /\ StoreTyped /\ Whole(run.body)
      /\ late \in SUBSET [id : Ids, body : Body]
      /\ \A i \in Ids : Whole(reports[i].body) /\ reports[i].body \in Body
      /\ \A e \in late : Whole(e.body)
  BY DEF TypeInv, RunSound, RunType, WholeInv, StoreTyped, Stored
<1>1. CASE UNCHANGED <<reports, late>>
  BY <1>0, <1>1
<1>2. CASE Quiet \/ MemberWork \/ Claim \/ Plan \/ Release
  <2>1. UNCHANGED <<reports, late>>
    BY <1>2, QuietSteps, MemberMoves DEF Claim, Plan, Release, Runs0
  <2> QED
    BY <1>1, <2>1
<1>3. CASE Write
  BY <1>0, <1>3, WriteMoves, WrittenWhole
<1>4. CASE EndWrite
  <2>1. \A i \in Ids : Whole(reports'[i].body)
    BY <1>0, <1>4, EndMoves, WrittenWhole
  <2>2. \A e \in late' : Whole(e.body)
    BY <1>0, <1>4, EndMoves
  <2> QED
    BY <2>1, <2>2
<1>5. ASSUME NEW e \in late, EndLate(e)
      PROVE (\A i \in Ids : Whole(reports'[i].body)) /\ \A d \in late' : Whole(d.body)
  <2>1. e.id \in Ids /\ e.body \in Body /\ Whole(e.body)
    BY <1>0
  <2> QED
    BY <1>0, <1>5, <2>1, WrittenWhole DEF EndLate
<1>6. CASE Open
  <2>1. UNCHANGED late
    BY <1>6 DEF Open
  <2>2. \A i \in Ids : Whole(reports'[i].body)
    <3>1. ASSUME NEW i \in Ids,
                 reports' = [reports EXCEPT ![i] = [state |-> "running", body |-> run.body]]
          PROVE  \A j \in Ids : Whole(reports'[j].body)
      BY <1>0, <3>1 DEF StoreTyped
    <3>2. UNCHANGED reports \/ \E i \in Ids :
            reports' = [reports EXCEPT ![i] = [state |-> "running", body |-> run.body]]
      BY <1>6 DEF Open, NextId
    <3> QED
      BY <1>0, <3>1, <3>2
  <2> QED
    BY <1>0, <2>1, <2>2
<1>7. CASE Crash
  BY <1>0, <1>7 DEF Crash
<1>8. CASE EndCutOff
  <2>1. UNCHANGED late
    BY <1>8 DEF EndCutOff, runtime
  <2>2. CASE UNCHANGED reports
    BY <1>0, <2>1, <2>2
  <2>3. ASSUME NEW i \in Ids, reports' = [reports EXCEPT ![i] = [state |-> "ended",
                              body |-> [@.body EXCEPT !.outcome = "restart"]]]
        PROVE  \A j \in Ids : Whole(reports'[j].body)
    BY Zenon, <1>0, <2>3, OutcomeKeeps DEF StoreTyped
  <2> QED
    BY <1>0, <1>8, <2>1, <2>2, <2>3 DEF EndCutOff
<1> QED
  BY <1>1, <1>2, <1>3, <1>4, <1>5, <1>6, <1>7, <1>8
  DEF Next, Runtime, Works, Pauses, Process, Quiet, MemberWork

(* What is posted names each change once: each member of a preview, and a  *)
(* Retry's report is whole.                                                *)
LEMMA WholePostStep ==
  ASSUME TypeInv, WholeInv, [Next]_vars
  PROVE  post' # NoPost => Apart(post'.spec.given)
<1>1. CASE post' = post \/ post' = NoPost
  BY <1>1 DEF WholeInv
<1>2. CASE ConfirmRemoval \/ ConfirmAdd \/ ConfirmRoster
  <2>1. PICK kind \in {"removal", "add", "roster add"}, q \in Seq(Members), r \in Roles,
             clears \in SUBSET Members, saw \in Shown :
           /\ Apart(q) /\ Range(q) \subseteq saw
           /\ post' = [kind |-> kind, spec |-> Given(kind, Changes(q, r), clears), saw |-> saw]
    BY <1>2, ConfirmPosts
  <2>2. Apart(Changes(q, r)) /\ post'.spec.given = Changes(q, r)
    BY <2>1, ChangesAre DEF Given
  <2> QED
    BY <2>2
<1>3. CASE PressReAdd \/ \E scope \in Scopes : PressPurge(scope)
  <2>1. post'.spec.given = <<>>
    BY <1>3 DEF PressReAdd, PressPurge, Posts, Given
  <2> QED
    BY <2>1 DEF Apart
<1>4. ASSUME NEW i \in Ids, PressRetry(i) PROVE Apart(post'.spec.given)
  <2> DEFINE b == reports[i].body
  <2>1. b \in Body /\ Whole(b)
    BY DEF TypeInv, StoreTyped, Stored, WholeInv
  <2>2. Apart(Misses(b))
    <3>1. b.failed \in Seq(Change) /\ b.todo \in Seq(Change)
      BY <2>1 DEF Body
    <3>2. Apart(b.failed) /\ Apart(b.todo) /\ Range(b.failed) \cap Range(b.todo) = {}
      BY <2>1 DEF Whole
    <3> HIDE DEF b
    <3> QED
      BY <3>1, <3>2, ConcatApart DEF Misses
  <2>3. post'.spec.given = Misses(b)
    BY <1>4 DEF PressRetry, RetryOf, Posts, Given
  <2> QED
    BY <2>2, <2>3
<1> QED
  BY <1>1, <1>2, <1>3, <1>4, PostedBy

(* Every step keeps the reports whole.                                     *)
LEMMA WholeStep ==
  ASSUME TypeInv, WholeInv, [Next]_vars
  PROVE  WholeInv'
BY WholeRunStep, WholeStoreStep, WholePostStep DEF WholeInv

----------------------------------------------------------------------------
(* A report tells what its action did                                      *)

(* What a report lists as changed Discord changed for it, and it leaves    *)
(* out nothing Discord changed but what is on its way into it; a report    *)
(* that a restart or a panic ended may leave that out.                     *)
Lists(b, i, coming) ==
  /\ b.changed \subseteq took[i]
  /\ b.outcome # "restart" => took[i] \subseteq b.changed \cup Range(b.failed) \cup coming
Coming == IF run.at = "clear" THEN {Head(run.body.todo)} ELSE {}
TruthInv ==
  /\ \A i \in Ids : reports[i].body.changed \subseteq took[i]
  /\ \A i \in Ids : reports[i].state = "ended" => Lists(reports[i].body, i, {})
  /\ run.id \in Ids => Lists(run.body, run.id, Coming)
  /\ \A e \in late : Lists(e.body, e.id, {})
  /\ run.at = "open" => run.body.changed = {}
  /\ run.at = "clear" => Head(run.body.todo) \in took[run.id]
  /\ run.at \in Midway \cup {"open"} => run.body.outcome = ""

(* A member whose change failed joins those that failed.                   *)
LEMMA FailedRange ==
  ASSUME NEW b \in Body, b.todo # <<>>
  PROVE  Range(Append(b.failed, Head(b.todo))) = Range(b.failed) \cup {Head(b.todo)}
<1>1. b.todo \in Seq(Change) /\ b.failed \in Seq(Change)
  BY DEF Body
<1>2. Head(b.todo) \in Change
  BY <1>1, HeadTailProperties
<1> QED
  BY <1>1, <1>2, AppendRange

(* The run's report tells what Discord did, through every move of a run.   *)
LEMMA TruthRunStep ==
  ASSUME TypeInv, OwnInv, TruthInv, [Next]_vars
  PROVE  /\ run'.id \in Ids => Lists(run.body, run.id, Coming)'
         /\ run'.at = "open" => run'.body.changed = {}
         /\ run'.at = "clear" => Head(run'.body.todo) \in took'[run'.id]
<1>0. /\ RunSound(run) /\ run \in RunType /\ run.body \in Body /\ NoReport \notin Ids
      /\ took \in [Ids -> SUBSET Change]
  BY FoxholeAssumption DEF TypeInv, RunSound, RunType, StoreTyped
<1>b. /\ run.id \in Ids => Lists(run.body, run.id, Coming)
      /\ run.at = "open" => run.body.changed = {}
      /\ run.at = "clear" => Head(run.body.todo) \in took[run.id]
      /\ run.at \in Midway => run.body.outcome = ""
  BY DEF TruthInv
<1>1. ASSUME run'.at = run.at, run'.id = run.id, run'.body = run.body, UNCHANGED took
      PROVE  /\ run'.id \in Ids => Lists(run.body, run.id, Coming)'
             /\ run'.at = "open" => run'.body.changed = {}
             /\ run'.at = "clear" => Head(run'.body.todo) \in took'[run'.id]
  BY <1>1, <1>b DEF Lists, Coming
<1>2. ASSUME run'.id = NoReport, run'.at # "clear", run'.at # "open" \/ run'.body.changed = {}
      PROVE  /\ run'.id \in Ids => Lists(run.body, run.id, Coming)'
             /\ run'.at = "open" => run'.body.changed = {}
             /\ run'.at = "clear" => Head(run'.body.todo) \in took'[run'.id]
  BY <1>0, <1>2
<1>3. CASE Quiet
  <2>1. (run' = run \/ run' = [run EXCEPT !.stop = TRUE]) /\ UNCHANGED took
    BY <1>3, QuietSteps
  <2> QED
    BY <1>0, <1>1, <2>1 DEF RunType
<1>4. CASE MemberWork
  <2>1. run.id \in Ids /\ run'.id = run.id /\ run'.at # "open"
    BY <1>4, MemberKeeps DEF Within
  <2> DEFINE b == run.body
             h == Head(b.todo)
  <2>2. Lists(b, run.id, Coming)
    BY <1>b, <2>1
  <2>3. CASE EndsMove
    <3>1. PICK outcome : /\ run' = [run EXCEPT !.at = "end", !.body = [b EXCEPT !.outcome = outcome]]
                         /\ run.at = "clear" => outcome = "restart"
                         /\ UNCHANGED took /\ run.at \in Midway
      BY <2>3 DEF EndsMove, Ends, Midway
    <3>2. /\ run'.at = "end" /\ run'.body.changed = b.changed /\ run'.body.failed = b.failed
          /\ run'.body.outcome = outcome
      BY <1>0, <3>1 DEF RunType, Body
    <3>3. b.outcome # "restart"
      BY <1>b, <3>1
    <3> QED
      BY <2>1, <2>2, <3>1, <3>2, <3>3 DEF Lists, Coming
  <2>4. CASE LooksUp
    <3>1. run'.at # "clear" /\ run.at # "clear" /\ UNCHANGED took
      BY <1>0, <2>4 DEF LooksUp, Reported, RunType
    <3>2. run'.body = b \/ run'.body = Skipped(b)
      BY <1>0, <2>4 DEF LooksUp, Reported, RunType
    <3>3. /\ run'.body.changed = b.changed /\ run'.body.failed = b.failed
          /\ run'.body.outcome = b.outcome
      BY <1>0, <3>2 DEF Skipped, Body
    <3> QED
      BY <2>1, <2>2, <3>1, <3>3 DEF Lists, Coming
  <2>5. CASE Made
    <3>1. run.at = "change" /\ took'[run.id] = took[run.id] \cup {h} /\ b.todo # <<>>
      BY <1>0, <2>1, <2>5 DEF Made, RunSound
    <3>2. CASE run' = [run EXCEPT !.at = "clear"]
      <4>1. run'.at = "clear" /\ run'.body = b
        BY <1>0, <3>2 DEF RunType
      <4> QED
        BY <2>1, <2>2, <3>1, <4>1 DEF Lists, Coming
    <3>3. CASE run' = Reported(Changed(b))
      <4>1. run'.at = "write" /\ run'.body = Changed(b)
        BY <1>0, <3>3 DEF Reported, RunType
      <4>2. /\ run'.body.changed = b.changed \cup {h} /\ run'.body.failed = b.failed
            /\ run'.body.outcome = b.outcome
        BY <1>0, <4>1 DEF Changed, Body
      <4> QED
        BY <2>1, <2>2, <3>1, <4>1, <4>2 DEF Lists, Coming
    <3>4. CASE run' = Reported(Failed(b))
      <4>1. run'.at = "write" /\ run'.body = Failed(b)
        BY <1>0, <3>4 DEF Reported, RunType
      <4>2. /\ run'.body.changed = b.changed /\ run'.body.failed = Append(b.failed, h)
            /\ run'.body.outcome = b.outcome
        BY <1>0, <4>1 DEF Failed, Body
      <4>3. Range(Append(b.failed, h)) = Range(b.failed) \cup {h}
        BY <1>0, <3>1, FailedRange
      <4> QED
        BY <2>1, <2>2, <3>1, <4>1, <4>2, <4>3 DEF Lists, Coming
    <3> QED
      BY <2>5, <3>2, <3>3, <3>4 DEF Made
  <2>6. CASE Refused
    <3>1. run.at = "change" /\ UNCHANGED took /\ b.todo # <<>>
      BY <1>0, <2>6 DEF Refused, RunSound
    <3>2. run'.at = "write" /\ run'.body = Failed(b)
      BY <1>0, <2>6 DEF Refused, Reported, RunType
    <3>3. /\ run'.body.changed = b.changed /\ run'.body.failed = Append(b.failed, h)
          /\ run'.body.outcome = b.outcome
      BY <1>0, <3>2 DEF Failed, Body
    <3>4. Range(Append(b.failed, h)) = Range(b.failed) \cup {h}
      BY <1>0, <3>1, FailedRange
    <3> QED
      BY <2>1, <2>2, <3>1, <3>2, <3>3, <3>4 DEF Lists, Coming
  <2>7. CASE Clears
    <3>1. run.at = "clear" /\ UNCHANGED took
      BY <2>7 DEF Clears
    <3>2. run'.at = "write" /\ (run'.body = Changed(b) \/ run'.body = Cleared(b))
      BY <1>0, <2>7 DEF Clears, Reported, RunType
    <3>3. /\ run'.body.changed = b.changed \cup {h} /\ run'.body.failed = b.failed
          /\ run'.body.outcome = b.outcome
      BY <1>0, <3>2 DEF Changed, Cleared, Body
    <3>4. h \in took[run.id]
      BY <1>b, <3>1
    <3> QED
      BY <2>1, <2>2, <3>1, <3>2, <3>3, <3>4 DEF Lists, Coming
  <2> QED
    BY <1>4, <2>3, <2>4, <2>5, <2>6, <2>7, MemberMoves
<1>5. CASE Write \/ EndWrite
  <2>1. /\ run.id \in Ids /\ UNCHANGED took
        /\ \/ run' = [run EXCEPT !.at = "await"] \/ run' = [run EXCEPT !.at = "release"]
           \/ run' = [run EXCEPT !.tries = run.tries + 1]
    BY <1>5, WriteMoves, EndMoves
  <2>2. /\ run'.id = run.id /\ run'.body = run.body /\ run'.at \notin {"open", "clear"}
        /\ run.at # "clear"
    BY <1>0, <1>5, <2>1, WriteMoves, EndMoves DEF RunType
  <2> QED
    BY <1>b, <2>1, <2>2 DEF Lists, Coming
<1>6. CASE Open
  <2>1. run.at = "open" /\ run.id = NoReport /\ UNCHANGED took
    BY <1>0, <1>6 DEF Open, RunSound, Before0
  <2>2. CASE run' = Off \/ run' = [Off EXCEPT !.at = "release"]
    BY <1>2, <2>2, OffIs DEF Off
  <2>3. ASSUME NEW i \in NextId, run' = [run EXCEPT !.at = "await", !.id = i]
        PROVE  /\ run'.id \in Ids => Lists(run.body, run.id, Coming)'
               /\ run'.at = "open" => run'.body.changed = {}
               /\ run'.at = "clear" => Head(run'.body.todo) \in took'[run'.id]
    <3>1. i \in Ids /\ took[i] = {}
      BY <2>3 DEF NextId, OwnInv, Opened, Unwritten
    <3>2. run'.at = "await" /\ run'.id = i /\ run'.body = run.body
      BY <1>0, <2>3 DEF RunType
    <3> QED
      BY <1>b, <2>1, <3>1, <3>2 DEF Lists, Coming
  <2> QED
    BY <1>6, <2>2, <2>3 DEF Open
<1>7. CASE Claim \/ Release \/ Crash
  <2>1. run'.id = NoReport /\ run'.at \in {"none", "plan"}
    BY <1>7, OffIs DEF Claim, Release, Crash, Moves, Off
  <2> QED
    BY <1>2, <2>1
<1>8. CASE Plan
  <2>1. run' = Off \/ \E plan : run' = [run EXCEPT !.at = "open", !.plan = plan,
                  !.body = [BlankBody EXCEPT !.kind = run.spec.kind, !.todo = plan]]
    BY <1>8 DEF Plan, Moves
  <2>2. run.id = NoReport
    BY <1>0, <1>8 DEF Plan, RunSound, Before0
  <2>3. run'.id = NoReport /\ run'.at # "clear" /\ (run'.at # "open" \/ run'.body.changed = {})
    BY ZenonT(30), <1>0, <2>1, <2>2, OffIs DEF RunType, BlankBody
  <2> QED
    BY <1>2, <2>3
<1>9. CASE EndCutOff \/ \E e \in late : EndLate(e)
  <2>1. UNCHANGED <<run, took>>
    BY <1>9 DEF EndCutOff, EndLate, runtime, history
  <2> QED
    BY <1>1, <2>1
<1> QED
  BY <1>3, <1>4, <1>5, <1>6, <1>7, <1>8, <1>9
  DEF Next, Runtime, Works, Pauses, Process, Quiet, MemberWork

(* Only the run's own report is told of what Discord changes, and it runs. *)
LEMMA TookSteps ==
  ASSUME TypeInv, [Next]_vars
  PROVE  /\ \A i \in Ids : took[i] \subseteq took'[i]
         /\ \A i \in Ids : took'[i] # took[i] => run.at = "change" /\ run.id = i
            /\ UNCHANGED <<reports, late>>
<1>0. took \in [Ids -> SUBSET Change]
  BY DEF TypeInv, StoreTyped
<1>1. CASE UNCHANGED took
  BY <1>1
<1>2. CASE MemberWork
  <2>1. run.id \in Ids
    BY <1>2, MemberKeeps
  <2> QED
    BY <1>0, <1>2, <2>1, MemberMoves DEF EndsMove, LooksUp, Made, Refused, Clears
<1>3. CASE Quiet \/ Write \/ EndWrite
  BY <1>1, <1>3, QuietSteps, WriteMoves, EndMoves
<1>4. CASE Claim \/ Plan \/ Open \/ Release \/ Crash \/ EndCutOff \/ \E e \in late : EndLate(e)
  BY <1>1, <1>4 DEF Claim, Plan, Open, Release, Crash, EndCutOff, EndLate, Runs0, history
<1> QED
  BY <1>2, <1>3, <1>4 DEF Next, Runtime, Works, Pauses, Process, Quiet, MemberWork

(* So do the reports in the store and those still to be written.           *)
LEMMA TruthStoreStep ==
  ASSUME TypeInv, OwnInv, TruthInv, [Next]_vars
  PROVE  /\ \A i \in Ids : reports'[i].body.changed \subseteq took'[i]
         /\ \A i \in Ids : reports'[i].state = "ended" => Lists(reports[i].body, i, {})'
         /\ \A e \in late' : Lists(e.body, e.id, {})'
<1> DEFINE Told(r, t, l) ==
      /\ \A i \in Ids : r[i].body.changed \subseteq t[i]
      /\ \A i \in Ids : r[i].state = "ended" /\ r[i].body.outcome # "restart"
                          => t[i] \subseteq r[i].body.changed \cup Range(r[i].body.failed)
      /\ \A e \in l : /\ e.body.changed \subseteq t[e.id]
                      /\ e.body.outcome # "restart"
                         => t[e.id] \subseteq e.body.changed \cup Range(e.body.failed)
<1>0. /\ RunSound(run) /\ run \in RunType /\ run.body \in Body /\ StoreTyped
      /\ took \in [Ids -> SUBSET Change] /\ late \in SUBSET [id : Ids, body : Body]
      /\ reports \in [Ids -> Stored]
  BY DEF TypeInv, RunSound, RunType, StoreTyped
<1>t. Told(reports, took, late)
  BY DEF TruthInv, Lists
<1>s. ASSUME Told(reports', took', late')
      PROVE  /\ \A i \in Ids : reports'[i].body.changed \subseteq took'[i]
             /\ \A i \in Ids : reports'[i].state = "ended" => Lists(reports[i].body, i, {})'
             /\ \A e \in late' : Lists(e.body, e.id, {})'
  <2>1. ASSUME NEW i \in Ids, reports'[i].state = "ended" PROVE Lists(reports[i].body, i, {})'
    <3>1. reports'[i].body.changed \subseteq took'[i]
      BY <1>s
    <3>2. reports'[i].body.outcome # "restart"
            => took'[i] \subseteq reports'[i].body.changed \cup Range(reports'[i].body.failed)
      BY <1>s, <2>1
    <3> QED
      BY <3>1, <3>2 DEF Lists
  <2>2. ASSUME NEW e \in late' PROVE Lists(e.body, e.id, {})'
    <3>1. /\ e.body.changed \subseteq took'[e.id]
          /\ e.body.outcome # "restart"
               => took'[e.id] \subseteq e.body.changed \cup Range(e.body.failed)
      BY <1>s
    <3> QED
      BY <3>1 DEF Lists
  <2> QED
    BY <1>s, <2>1, <2>2
<1> SUFFICES Told(reports', took', late')
  BY <1>s
<1>1. CASE UNCHANGED <<reports, late, took>>
  BY <1>1, <1>t
<1>2. CASE MemberWork
  <2>1. UNCHANGED <<reports, late>> /\ run.at \in Within /\ run.at # "end" /\ run.id \in Ids
    BY <1>2, MemberMoves, MemberKeeps
  <2>2. reports[run.id].state # "ended" /\ \A e \in late : e.id # run.id
    BY <2>1 DEF OwnInv, Midway, Runs, Within
  <2> QED
    BY <1>0, <1>t, <2>1, <2>2, TookSteps
<1>3. ASSUME NEW i \in Ids, NEW b \in Body, NEW state \in {"running", "ended"},
             b.changed \subseteq took[i],
             state = "ended" /\ b.outcome # "restart"
             => took[i] \subseteq b.changed \cup Range(b.failed),
             reports' = Written(i, b, state), late' \subseteq late, UNCHANGED took
      PROVE  Told(reports', took', late')
  BY <1>0, <1>t, <1>3 DEF Written
<1>4. CASE Write
  <2>1. run.id \in Ids /\ run.at = "write" /\ UNCHANGED <<took, late>>
    BY <1>4, WriteMoves
  <2>2. Lists(run.body, run.id, {})
    BY <2>1 DEF TruthInv, Coming
  <2> QED
    BY <1>0, <1>1, <1>3, <1>4, <2>1, <2>2, WriteMoves DEF Lists
<1>5. CASE EndWrite
  <2>1. run.id \in Ids /\ run.at = "end" /\ UNCHANGED took
    BY <1>5, EndMoves
  <2>2. Lists(run.body, run.id, {})
    BY <2>1 DEF TruthInv, Coming
  <2>3. Told(reports', took', late)
    <3>1. reports' = reports \/ reports' = Written(run.id, run.body, "ended")
      BY <1>5, EndMoves
    <3>2. CASE reports' = Written(run.id, run.body, "ended")
      BY <1>0, <1>t, <2>1, <2>2, <3>2 DEF Lists, Written
    <3> QED
      BY <1>t, <2>1, <3>1, <3>2
  <2>4. late' = late \/ late' = late \cup {[id |-> run.id, body |-> run.body]}
    BY <1>5, EndMoves
  <2> QED
    BY <2>1, <2>2, <2>3, <2>4 DEF Lists
<1>6. ASSUME NEW e \in late, EndLate(e) PROVE Told(reports', took', late')
  <2>1. /\ e.id \in Ids /\ e.body \in Body /\ UNCHANGED took
        /\ \/ UNCHANGED <<reports, late>>
           \/ reports' = Written(e.id, e.body, "ended") /\ late' = late \ {e}
    BY <1>0, <1>6 DEF EndLate, history
  <2>2. Lists(e.body, e.id, {})
    BY DEF TruthInv
  <2>3. CASE reports' = Written(e.id, e.body, "ended") /\ late' = late \ {e}
    BY <1>3, <2>1, <2>2, <2>3 DEF Lists
  <2> QED
    BY <1>1, <2>1, <2>3
<1>7. CASE Open
  <2>1. run.at = "open" /\ UNCHANGED <<late, took>> /\ run.body.changed = {}
    BY <1>7 DEF Open, TruthInv
  <2>2. ASSUME NEW i \in Ids, reports' = [reports EXCEPT ![i] = [state |-> "running", body |-> run.body]]
        PROVE  Told(reports', took', late')
    BY <1>0, <1>t, <2>1, <2>2
  <2>3. UNCHANGED reports \/ \E i \in Ids :
          reports' = [reports EXCEPT ![i] = [state |-> "running", body |-> run.body]]
    BY <1>7 DEF Open, NextId
  <2> QED
    BY <1>1, <2>1, <2>2, <2>3
<1>8. CASE Crash
  BY <1>t, <1>8 DEF Crash, history
<1>9. CASE EndCutOff
  <2>1. UNCHANGED <<took, late>>
    BY <1>9 DEF EndCutOff, history, runtime
  <2>2. ASSUME NEW i \in Ids, reports' = [reports EXCEPT ![i] = [state |-> "ended",
                                 body |-> [@.body EXCEPT !.outcome = "restart"]]]
        PROVE  Told(reports', took', late')
    <3>1. /\ reports'[i].body.changed = reports[i].body.changed
             /\ reports'[i].body.outcome = "restart"
          /\ \A j \in Ids \ {i} : reports'[j] = reports[j]
      BY <1>0, <2>2 DEF Stored, Body
    <3> QED
      BY <1>t, <2>1, <3>1
  <2> QED
    BY <1>1, <1>9, <2>1, <2>2 DEF EndCutOff
<1>10. CASE Quiet \/ Claim \/ Plan \/ Release
  <2>1. UNCHANGED <<reports, late, took>>
    BY <1>10, QuietSteps DEF Claim, Plan, Release, Runs0, history
  <2> QED
    BY <1>1, <2>1
<1> QED
  BY <1>2, <1>4, <1>5, <1>6, <1>7, <1>8, <1>9, <1>10
  DEF Next, Runtime, Works, Pauses, Process, Quiet, MemberWork

(* Until its end a run's report has no outcome.                            *)
LEMMA OutcomeStep ==
  ASSUME TypeInv, TruthInv, [Next]_vars
  PROVE  run'.at \in Midway \cup {"open"} => run'.body.outcome = ""
<1>0. /\ RunSound(run) /\ run \in RunType /\ run.body \in Body
      /\ run.at \in Midway \cup {"open"} => run.body.outcome = ""
  BY DEF TypeInv, RunSound, RunType, TruthInv
<1>o. Off \in RunType /\ Off.body.outcome = ""
  BY OffIs DEF RunSound, Off, BlankBody
<1>1. CASE Quiet
  <2>1. run' = run \/ run' = [run EXCEPT !.stop = TRUE]
    BY <1>1, QuietSteps
  <2> QED
    BY <1>0, <2>1 DEF RunType
<1>2. CASE MemberWork
  <2>1. CASE EndsMove
    BY <1>0, <2>1 DEF EndsMove, Ends, RunType, Midway, Within
  <2>2. CASE LooksUp \/ Made \/ Refused \/ Clears
    <3>1. \/ run'.body = run.body
          \/ run'.body \in {Skipped(run.body), Failed(run.body), Changed(run.body), Cleared(run.body)}
      BY <1>0, <2>2 DEF LooksUp, Made, Refused, Clears, Reported, RunType
    <3>2. run'.body.outcome = run.body.outcome
      BY <1>0, <3>1 DEF Skipped, Failed, Changed, Cleared, Body
    <3>3. run.at \in Midway
      BY <2>2 DEF LooksUp, Made, Refused, Clears, Midway, Within
    <3> QED
      BY <1>0, <3>2, <3>3
  <2> QED
    BY <1>2, <2>1, <2>2, MemberMoves
<1>3. CASE Write \/ EndWrite
  <2>1. \/ run' = [run EXCEPT !.at = "await"] /\ run.at = "write"
        \/ run' = [run EXCEPT !.at = "release"]
        \/ run' = [run EXCEPT !.tries = run.tries + 1] /\ run.at = "end"
    BY <1>3, WriteMoves, EndMoves
  <2> QED
    BY <1>0, <2>1 DEF RunType, Midway, Within
<1>4. CASE Open
  <2>1. \/ \E i \in Ids : run' = [run EXCEPT !.at = "await", !.id = i] /\ run.at = "open"
        \/ run' = Off \/ run' = [Off EXCEPT !.at = "release"]
    BY <1>4 DEF Open, NextId
  <2> QED
    BY <1>0, <1>o, <2>1 DEF RunType, Midway, Within
<1>5. CASE Claim \/ Release \/ Crash
  BY <1>5, <1>o DEF Claim, Release, Crash, Moves, RunType
<1>6. CASE Plan
  <2>1. run' = Off \/ \E plan : run' = [run EXCEPT !.at = "open", !.plan = plan,
                  !.body = [BlankBody EXCEPT !.kind = run.spec.kind, !.todo = plan]]
    BY <1>6 DEF Plan, Moves
  <2> QED
    BY ZenonT(30), <1>0, <1>o, <2>1 DEF RunType, BlankBody
<1>7. CASE EndCutOff \/ \E e \in late : EndLate(e)
  BY <1>0, <1>7 DEF EndCutOff, EndLate, runtime
<1> QED
  BY <1>1, <1>2, <1>3, <1>4, <1>5, <1>6, <1>7
  DEF Next, Runtime, Works, Pauses, Process, Quiet, MemberWork

(* Every step keeps the reports true.                                      *)
LEMMA TruthStep ==
  ASSUME TypeInv, OwnInv, TruthInv, [Next]_vars
  PROVE  TruthInv'
BY TruthRunStep, TruthStoreStep, OutcomeStep DEF TruthInv, Midway

----------------------------------------------------------------------------
(* Nothing is stopped but as asked, nobody changed but as shown            *)

(* A run with a Stop, and a report that says stopped, were asked to stop   *)
(* on a page of their own.                                                 *)
StopsInv ==
  /\ pressed \subseteq Ids
  /\ run.stop \/ run.body.outcome = "stopped" => run.id \in pressed
  /\ \A e \in late : e.body.outcome = "stopped" => e.id \in pressed
  /\ \A i \in Ids : reports[i].body.outcome = "stopped" => i \in pressed

(* Every step keeps it so.                                                 *)
LEMMA StopsStep ==
  ASSUME TypeInv, StopsInv, [Next]_vars
  PROVE  StopsInv'
<1> USE DEF StopsInv
<1>0. /\ RunSound(run) /\ run \in RunType /\ run.body \in Body /\ StoreTyped /\ NoReport \notin Ids
      /\ late \in SUBSET [id : Ids, body : Body] /\ reports \in [Ids -> Stored]
  BY FoxholeAssumption DEF TypeInv, RunSound, RunType, StoreTyped
<1>o. Off.stop = FALSE /\ Off.body.outcome = "" /\ Off \in RunType
  BY OffIs DEF Off, BlankBody, RunSound
<1>1. CASE Quiet
  <2>1. /\ UNCHANGED <<reports, late>>
        /\ \/ UNCHANGED <<run, pressed>>
           \/ \E i \in Ids : /\ pressed' = pressed \cup {i}
                             /\ run' = run \/ (run.id = i /\ run' = [run EXCEPT !.stop = TRUE])
    BY <1>1, QuietSteps
  <2>2. CASE UNCHANGED <<run, pressed>>
    BY <2>1, <2>2
  <2>3. ASSUME NEW i \in Ids, pressed' = pressed \cup {i},
               run' = run \/ (run.id = i /\ run' = [run EXCEPT !.stop = TRUE])
        PROVE  StopsInv'
    <3>1. run'.id = run.id /\ run'.body = run.body /\ (run'.stop => run.stop \/ run.id = i)
      BY <1>0, <2>3 DEF RunType
    <3> QED
      BY <2>1, <2>3, <3>1
  <2> QED
    BY <2>1, <2>2, <2>3
<1>2. CASE MemberWork
  <2>1. UNCHANGED <<reports, late, pressed>> /\ run'.id = run.id /\ run'.stop = run.stop
    BY <1>2, MemberMoves, MemberKeeps
  <2>2. run'.body.outcome = "stopped" => run.stop \/ run.body.outcome = "stopped"
    <3>1. CASE EndsMove
      <4>1. PICK outcome : /\ run' = [run EXCEPT !.at = "end", !.body = [run.body EXCEPT !.outcome = outcome]]
                           /\ outcome = "stopped" => run.stop
        BY <3>1 DEF EndsMove, Ends
      <4>2. run'.body.outcome = outcome
        BY <1>0, <4>1 DEF RunType, Body
      <4> QED
        BY <4>1, <4>2
    <3>2. CASE LooksUp \/ Made \/ Refused \/ Clears
      <4>1. \/ run'.body = run.body
            \/ run'.body \in {Skipped(run.body), Failed(run.body), Changed(run.body), Cleared(run.body)}
        BY <1>0, <3>2 DEF LooksUp, Made, Refused, Clears, Reported, RunType
      <4> QED
        BY <1>0, <4>1 DEF Skipped, Failed, Changed, Cleared, Body
    <3> QED
      BY <1>2, <3>1, <3>2, MemberMoves
  <2> QED
    BY <2>1, <2>2
<1>3. ASSUME NEW i \in Ids, NEW b \in Body, NEW state, b.outcome = "stopped" => i \in pressed,
             reports' = Written(i, b, state)
      PROVE  \A j \in Ids : reports'[j].body.outcome = "stopped" => j \in pressed
  BY <1>0, <1>3 DEF Written
<1>4. CASE Write
  <2>1. run'.id = run.id /\ run'.stop = run.stop /\ run'.body = run.body
    BY <1>0, <1>4, WriteMoves DEF RunType
  <2>2. \A j \in Ids : reports'[j].body.outcome = "stopped" => j \in pressed
    BY <1>0, <1>3, <1>4, WriteMoves
  <2> QED
    BY <1>4, <2>1, <2>2, WriteMoves
<1>5. CASE EndWrite
  <2>1. run'.id = run.id /\ run'.stop = run.stop /\ run'.body = run.body
    BY <1>0, <1>5, EndMoves DEF RunType
  <2>2. \A j \in Ids : reports'[j].body.outcome = "stopped" => j \in pressed
    BY <1>0, <1>3, <1>5, EndMoves
  <2>3. late' = late \/ late' = late \cup {[id |-> run.id, body |-> run.body]}
    BY <1>5, EndMoves
  <2>4. UNCHANGED pressed
    BY <1>5, EndMoves
  <2> QED
    BY <2>1, <2>2, <2>3, <2>4
<1>6. ASSUME NEW e \in late, EndLate(e) PROVE StopsInv'
  <2>1. e.id \in Ids /\ e.body \in Body /\ UNCHANGED <<run, pressed>> /\ late' \subseteq late
    BY <1>0, <1>6 DEF EndLate, history
  <2>2. \A j \in Ids : reports'[j].body.outcome = "stopped" => j \in pressed
    BY <1>0, <1>3, <1>6, <2>1 DEF EndLate
  <2> QED
    BY <2>1, <2>2
<1>7. CASE Claim \/ Release \/ Crash
  <2>1. UNCHANGED <<reports, pressed>> /\ late' \subseteq late
    BY <1>7 DEF Claim, Release, Crash, Runs0, history
  <2>2. ~run'.stop /\ run'.body.outcome # "stopped"
    BY <1>7, <1>o DEF Claim, Release, Crash, Moves, RunType
  <2> QED
    BY <2>1, <2>2
<1>8. CASE Plan
  <2>1. UNCHANGED <<reports, late, pressed>> /\ run.id = NoReport
    BY <1>0, <1>8 DEF Plan, Runs0, history, RunSound, Before0
  <2>2. run' = Off \/ \E plan : run' = [run EXCEPT !.at = "open", !.plan = plan,
                  !.body = [BlankBody EXCEPT !.kind = run.spec.kind, !.todo = plan]]
    BY <1>8 DEF Plan, Moves
  <2>3. ~run.stop
    BY <1>0, <2>1
  <2>4. ~run'.stop /\ run'.body.outcome # "stopped"
    <3>1. CASE run' = Off
      BY <1>o, <3>1
    <3>2. ASSUME NEW plan, run' = [run EXCEPT !.at = "open", !.plan = plan,
                  !.body = [BlankBody EXCEPT !.kind = run.spec.kind, !.todo = plan]]
          PROVE  ~run'.stop /\ run'.body.outcome # "stopped"
      <4>1. [BlankBody EXCEPT !.kind = run.spec.kind, !.todo = plan].outcome = ""
        BY DEF BlankBody
      <4> QED
        BY <1>0, <2>3, <3>2, <4>1 DEF RunType
    <3> QED
      BY <2>2, <3>1, <3>2
  <2> QED
    BY <2>1, <2>4
<1>9. CASE Open
  <2>1. UNCHANGED <<late, pressed>> /\ run.id = NoReport
    BY <1>0, <1>9 DEF Open, RunSound, Before0
  <2>2. ~run.stop /\ run.body.outcome # "stopped"
    BY <1>0, <2>1
  <2>3. \/ run' = Off \/ run' = [Off EXCEPT !.at = "release"]
        \/ \E i \in Ids : run' = [run EXCEPT !.at = "await", !.id = i]
    BY <1>9 DEF Open, NextId
  <2>4. ~run'.stop /\ run'.body.outcome # "stopped"
    BY <1>0, <1>o, <2>2, <2>3 DEF RunType
  <2>5. UNCHANGED reports \/ \E i \in Ids :
          reports' = [reports EXCEPT ![i] = [state |-> "running", body |-> run.body]]
    BY <1>9 DEF Open, NextId
  <2>6. \A j \in Ids : reports'[j].body.outcome = "stopped" => j \in pressed
    BY <1>0, <2>2, <2>5
  <2> QED
    BY <2>1, <2>4, <2>6
<1>10. CASE EndCutOff
  <2>1. UNCHANGED <<run, late, pressed>>
    BY <1>10 DEF EndCutOff, runtime, history
  <2>2. UNCHANGED reports \/ \E i \in Ids : reports' = [reports EXCEPT ![i] = [state |-> "ended",
                                 body |-> [@.body EXCEPT !.outcome = "restart"]]]
    BY <1>10 DEF EndCutOff
  <2>3. \A j \in Ids : reports'[j].body.outcome = "stopped" => j \in pressed
    <3>1. ASSUME NEW i \in Ids, reports' = [reports EXCEPT ![i] = [state |-> "ended",
                                   body |-> [@.body EXCEPT !.outcome = "restart"]]]
          PROVE  \A j \in Ids : reports'[j].body.outcome = "stopped" => j \in pressed
      <4>1. reports'[i].body.outcome = "restart" /\ \A j \in Ids \ {i} : reports'[j] = reports[j]
        BY <1>0, <3>1 DEF Stored, Body
      <4> QED
        BY <4>1
    <3> QED
      BY <2>2, <3>1
  <2> QED
    BY <2>1, <2>3
<1> QED
  BY <1>1, <1>2, <1>4, <1>5, <1>6, <1>7, <1>8, <1>9, <1>10
  DEF Next, Runtime, Works, Pauses, Process, Quiet, MemberWork

(* An action over members its manager was shown has given and planned none *)
(* but those.                                                              *)
ShownInv ==
  OfShown(run.spec) => Whos(run.spec.given) \subseteq run.saw /\ Whos(run.plan) \subseteq run.saw

(* Every step keeps it so.                                                 *)
LEMMA ShownStep ==
  ASSUME TypeInv, ShownInv, [Next]_vars
  PROVE  ShownInv'
<1>0. RunSound(run) /\ run \in RunType
  BY DEF TypeInv, RunSound
<1>1. ASSUME run'.spec = run.spec, run'.saw = run.saw, run'.plan = run.plan
      PROVE  ShownInv'
  BY <1>1 DEF ShownInv
<1>2. ~OfShown(Off.spec) /\ Off \in RunType /\ Off.plan = <<>>
  BY OffIs DEF Off, Given, OfShown, RunSound
<1>3. CASE Quiet
  <2>1. run' = run \/ run' = [run EXCEPT !.stop = TRUE]
    BY <1>3, QuietSteps
  <2> QED
    BY <1>0, <1>1, <2>1 DEF RunType
<1>4. CASE MemberWork
  BY <1>1, <1>4, MemberKeeps
<1>5. CASE Write \/ EndWrite
  <2>1. \/ run' = [run EXCEPT !.at = "await"] \/ run' = [run EXCEPT !.at = "release"]
        \/ run' = [run EXCEPT !.tries = run.tries + 1]
    BY <1>5, WriteMoves, EndMoves
  <2> QED
    BY <1>0, <1>1, <2>1 DEF RunType
<1>6. CASE Claim
  <2>1. run' = [Off EXCEPT !.at = "plan", !.spec = post.spec, !.saw = post.saw] /\ post # NoPost
    BY <1>6 DEF Claim
  <2>2. run'.spec = post.spec /\ run'.saw = post.saw /\ run'.plan = <<>>
    BY <1>2, <2>1 DEF RunType
  <2>3. OfShown(post.spec) => Whos(post.spec.given) \subseteq post.saw
    BY <2>1 DEF TypeInv, PostTyped
  <2>4. Whos(<<>>) = {}
    BY DEF Whos
  <2> QED
    BY <2>2, <2>3, <2>4 DEF ShownInv
<1>7. CASE Plan
  <2>1. CASE run' = Off
    BY <1>2, <2>1 DEF ShownInv
  <2>2. CASE \E b : run' = [run EXCEPT !.at = "open", !.plan = PlanOf(run.spec), !.body = b]
    <3>1. run'.spec = run.spec /\ run'.saw = run.saw /\ run'.plan = PlanOf(run.spec)
      BY <1>0, <2>2 DEF RunType
    <3>2. OfShown(run.spec) => PlanOf(run.spec) = run.spec.given
      BY <1>0 DEF OfShown, PlanOf, RunType, SpecType
    <3> QED
      BY <3>1, <3>2 DEF ShownInv
  <2> QED
    BY <1>7, <2>1, <2>2 DEF Plan, Moves
<1>8. CASE Open
  <2>1. \/ run' = Off \/ run' = [Off EXCEPT !.at = "release"]
        \/ \E i \in Ids : run' = [run EXCEPT !.at = "await", !.id = i]
    BY <1>8 DEF Open, NextId
  <2>2. CASE run' = Off \/ run' = [Off EXCEPT !.at = "release"]
    <3>1. run'.spec = Off.spec
      BY <1>2, <2>2 DEF RunType
    <3> QED
      BY <1>2, <3>1 DEF ShownInv
  <2> QED
    BY <1>0, <1>1, <2>1, <2>2 DEF RunType
<1>9. CASE Release \/ Crash
  BY <1>2, <1>9 DEF Release, Crash, Moves, ShownInv
<1>10. CASE EndCutOff \/ \E e \in late : EndLate(e)
  BY <1>1, <1>10 DEF EndCutOff, EndLate, runtime
<1> QED
  BY <1>3, <1>4, <1>5, <1>6, <1>7, <1>8, <1>9, <1>10
  DEF Next, Runtime, Works, Pauses, Process, Quiet, MemberWork

(* The change in flight at a Stop is the last, for its run ends before the *)
(* next member.                                                            *)
OverrunInv ==
  /\ overrun \in {0, 1}
  /\ overrun = 1 => \/ run.at \in {"clear", "write", "await"} /\ run.stop
                    \/ run.at \in {"end", "release", "none"}

(* Every step keeps it so.                                                 *)
LEMMA OverrunStep ==
  ASSUME TypeInv, OverrunInv, [Next]_vars
  PROVE  OverrunInv'
<1> USE DEF OverrunInv
<1>0. RunSound(run) /\ run \in RunType
  BY DEF TypeInv, RunSound
<1>1. CASE Quiet
  <2>1. (run' = run \/ run' = [run EXCEPT !.stop = TRUE]) /\ UNCHANGED overrun
    BY <1>1, QuietSteps
  <2> QED
    BY <1>0, <2>1 DEF RunType
<1>2. CASE MemberWork
  <2>1. run'.stop = run.stop
    BY <1>2, MemberKeeps
  <2>2. CASE EndsMove
    BY <1>0, <2>2 DEF EndsMove, Ends, RunType
  <2>3. CASE LooksUp
    BY <2>3 DEF LooksUp
  <2>4. CASE Made
    <3>1. run.at = "change" /\ overrun = 0
      BY <2>4 DEF Made
    <3>2. run'.at \in {"clear", "write"}
      BY <1>0, <2>4 DEF Made, Reported, RunType
    <3> QED
      BY <2>1, <2>4, <3>1, <3>2 DEF Made
  <2>5. CASE Refused \/ Clears
    BY <1>0, <2>1, <2>5 DEF Refused, Clears, Reported, RunType
  <2> QED
    BY <1>2, <2>2, <2>3, <2>4, <2>5, MemberMoves
<1>3. CASE Write
  <2>1. run.at = "write" /\ run'.at = "await" /\ run'.stop = run.stop /\ UNCHANGED overrun
    BY <1>0, <1>3, WriteMoves DEF RunType
  <2> QED
    BY <2>1
<1>4. CASE EndWrite
  <2>1. run'.at \in {"end", "release"} /\ UNCHANGED overrun
    BY <1>0, <1>4, EndMoves DEF RunType
  <2> QED
    BY <2>1
<1>5. CASE Claim
  BY <1>5 DEF Claim
<1>6. CASE Plan \/ Open
  BY <1>6 DEF Plan, Open, Runs0, history
<1>7. CASE Release \/ Crash
  BY <1>7, OffIs DEF Release, Crash, Moves, Runs0, history
<1>8. CASE EndCutOff \/ \E e \in late : EndLate(e)
  BY <1>8 DEF EndCutOff, EndLate, runtime, history
<1> QED
  BY <1>1, <1>2, <1>3, <1>4, <1>5, <1>6, <1>7, <1>8
  DEF Next, Runtime, Works, Pauses, Process, Quiet, MemberWork

----------------------------------------------------------------------------
(* The theorems                                                            *)

Inv == TypeInv /\ OwnInv /\ WholeInv /\ TruthInv /\ StopsInv /\ ShownInv /\ OverrunInv

(* The whole invariant holds at first, and every step keeps it.            *)
LEMMA InvInit == Init => Inv
<1> SUFFICES ASSUME Init PROVE Inv
  OBVIOUS
<1>1. TypeInv
  BY TypeInit
<1>2. /\ run = Off /\ late = {} /\ up = "up" /\ post = NoPost /\ overrun = 0 /\ pressed = {}
      /\ \A i \in Ids : reports[i] = Unwritten /\ took[i] = {}
  BY DEF Init
<1>3. /\ Off.at = "none" /\ Off.id = NoReport /\ ~Off.stop /\ NoReport \notin Ids
      /\ Off.body = BlankBody /\ Off.spec.given = <<>> /\ ~OfShown(Off.spec)
      /\ Unwritten.state = "none" /\ Unwritten.body = BlankBody
      /\ BlankBody.changed = {} /\ BlankBody.outcome = ""
  BY FoxholeAssumption, OffIs DEF Off, Unwritten, BlankBody, Given, OfShown
<1>4. OwnInv
  BY <1>2, <1>3 DEF OwnInv, Midway, Within, Opened, Runs
<1>5. WholeInv
  <2>1. Apart(<<>>)
    BY DEF Apart
  <2> QED
    BY <1>2, <1>3, <2>1, BlankWhole DEF WholeInv
<1>6. TruthInv
  BY <1>2, <1>3 DEF TruthInv, Midway, Within
<1>7. StopsInv /\ ShownInv /\ OverrunInv
  BY <1>2, <1>3 DEF StopsInv, ShownInv, OverrunInv
<1> QED
  BY <1>1, <1>4, <1>5, <1>6, <1>7 DEF Inv

LEMMA InvStep ==
  ASSUME Inv, [Next]_vars
  PROVE  Inv'
BY TypeStep, OwnStep, WholeStep, TruthStep, StopsStep, ShownStep, OverrunStep DEF Inv

(* So it always holds.                                                     *)
LEMMA InvHolds == Spec => []Inv
<1>1. Init => Inv
  BY InvInit
<1>2. Inv /\ [Next]_vars => Inv'
  BY InvStep
<1> QED
  BY <1>1, <1>2, PTL DEF Spec

(* The variables of the actions keep their types (commands/                *)
(* foxhole_runtime.go): the store's reports among them, each planned once. *)
THEOREM TypesHold == Spec => []TypeOK
<1>1. Inv => TypeOK
  BY TypesTold DEF Inv
<1> QED
  BY <1>1, InvHolds, PTL

(* A report tells what Discord changed, has each planned change in one     *)
(* list, and is somebody's to end (foxhole_runtime.go, changeEach,         *)
(* endAction, endCutOff).                                                  *)
THEOREM ReportsHold == Spec => []ReportTells
<1>1. Inv => ReportTrue
  <2> SUFFICES ASSUME Inv, NEW i \in Ids
               PROVE  LET b == reports[i].body IN
                        /\ b.changed \subseteq took[i] /\ b.cleared \subseteq b.changed
                        /\ reports[i].state = "ended" /\ b.outcome # "restart"
                             => took[i] \subseteq b.changed \cup Range(b.failed)
    BY DEF ReportTrue
  <2> QED
    BY DEF Inv, TruthInv, WholeInv, Whole, Lists
<1>2. Inv => EachInOneList
  <2> SUFFICES ASSUME Inv, run.id # NoReport
               PROVE  /\ Range(run.plan) = run.body.changed \cup run.body.skipped
                                              \cup Range(run.body.failed) \cup Range(run.body.todo)
                      /\ Len(run.plan) = Cardinality(run.body.changed) + Cardinality(run.body.skipped)
                                            + Len(run.body.failed) + Len(run.body.todo)
    BY DEF EachInOneList
  <2> QED
    BY DEF Inv, WholeInv, Listed, Counted
<1>3. Inv => NothingOrphaned
  BY DEF Inv, OwnInv, NothingOrphaned
<1>4. Inv => ReportTells
  BY <1>1, <1>2, <1>3 DEF ReportTells
<1> QED
  BY <1>4, InvHolds, PTL

(* A removal, an add, a roster add and a Retry change nobody their manager *)
(* was not shown, and nothing ends stopped but by a Stop of its own page   *)
(* (panel/foxhole_actions.go, foxhole_runtime.go, stop).                   *)
THEOREM StartsHold == Spec => []StartsAsShown
<1>1. Inv => OnlyTheShown
  BY DEF Inv, ShownInv, OfShown, Whos, OnlyTheShown
<1>2. Inv => OnlyAskedStops
  BY DEF Inv, StopsInv, OnlyAskedStops
<1>3. Inv => StartsAsShown
  BY <1>1, <1>2 DEF StartsAsShown
<1> QED
  BY <1>3, InvHolds, PTL

(* Once Stop is pressed Discord makes at most the change in flight         *)
(* (foxhole_runtime.go, changeEach).                                       *)
THEOREM StopHolds == Spec => []StopStops
<1>1. Inv => StopStops
  BY DEF Inv, OverrunInv, StopStops
<1> QED
  BY <1>1, InvHolds, PTL

----------------------------------------------------------------------------
(* The rule                                                                *)

Hold == IF run.at = "none" THEN 0 ELSE claims
PastInsert == run.at \notin {"none", "plan", "open"}
Open0 == {i \in Ids : reports[i].state = "running"}
Closed0 == {i \in Ids : reports[i].state = "ended"}

(* What the rule's reader sees does not change.                            *)
LEMMA RuleStutters ==
  ASSUME Hold' = Hold, PastInsert' = PastInsert, UNCHANGED commands, \A i \in Ids : reports'[i].state = reports[i].state
  PROVE  UNCHANGED Rule!vars
BY DEF Hold, PastInsert, Rule!vars

(* A report that is written as running, or is not running any more, stays  *)
(* as it was to the rule's reader; one written as ended is closed.         *)
LEMMA RuleCloses ==
  ASSUME StoreTyped, NEW i \in Ids, NEW body, reports' = Written(i, body, "ended"),
         Hold' = Hold, PastInsert' = PastInsert, UNCHANGED commands
  PROVE  [Rule!Next]_Rule!vars
<1>1. CASE ~Runs(i)
  BY <1>1, RuleStutters DEF Written
<1>2. CASE Runs(i)
  <2>1. /\ reports[i].state = "running" /\ reports'[i].state = "ended"
        /\ \A j \in Ids \ {i} : reports'[j] = reports[j]
    BY <1>2 DEF StoreTyped, Written, Runs
  <2>2. Open0' = Open0 \ {i} /\ Closed0' = Closed0 \cup {i} /\ i \in Open0
    BY <2>1 DEF Open0, Closed0
  <2>3. Rule!Close(i)
    BY <2>2 DEF Rule!Close, Open0, Closed0, Hold, PastInsert
  <2> QED
    BY <2>3 DEF Rule!Next
<1> QED
  BY <1>1, <1>2

(* An action that runs has claimed the rule.                               *)
ClaimInv == run.at # "none" => claims # 0
LEMMA ClaimStep ==
  ASSUME TypeInv, ClaimInv, [Next]_vars
  PROVE  ClaimInv'
<1>1. claims \in Nat /\ RunSound(run) /\ run \in RunType
  BY DEF TypeInv, StoreTyped, RunSound
<1>2. CASE Claim
  BY <1>1, <1>2 DEF Claim, ClaimInv
<1>3. CASE ~Claim
  <2>1. UNCHANGED claims
    BY <1>3, IdleSteps DEF Next, vars, history, Idle, Runtime, Works, Pauses, Process, Plan, Open,
       Await, MakeChange, Clear, Write, EndWrite, Release, PollReady, PauseStops, PauseLimit,
       Panic, EndLate, StartCommand, EndCommand, Crash, EndCutOff, Runs0
  <2>2. run.at = "none" => run'.at = "none"
    BY <1>1, <1>3, IdleSteps, OffIs DEF Next, vars, runtime, Idle, Runtime, Works, Pauses, Process, Plan, Open,
       Await, MakeChange, Clear, Write, EndWrite, Release, PollReady, PauseStops, PauseLimit,
       Panic, EndLate, StartCommand, EndCommand, Crash, EndCutOff, RunType
  <2> QED
    BY <2>1, <2>2 DEF ClaimInv
<1> QED
  BY <1>2, <1>3

(* Every step is one of the rule's, or none.                               *)
LEMMA RuleStep ==
  ASSUME TypeInv, OwnInv, ClaimInv, [Next]_vars
  PROVE  [Rule!Next]_Rule!vars
<1>0. RunSound(run) /\ run \in RunType /\ StoreTyped /\ reports \in [Ids -> Stored]
      /\ claims \in Nat /\ (run.at # "none" => claims # 0)
  BY DEF TypeInv, RunSound, StoreTyped, ClaimInv
<1>o. Off.at = "none" /\ Off \in RunType
  BY OffIs DEF RunSound
<1>1. CASE Environment \/ Page \/ Busy \/ Boot \/ UNCHANGED vars
  <2>1. UNCHANGED reports /\ (run' = run \/ run' = [run EXCEPT !.stop = TRUE])
    BY <1>1, QuietSteps DEF Quiet
  <2>2. UNCHANGED <<commands, claims>>
    BY <1>1, IdleSteps DEF Idle, vars, runtime, history
  <2>3. Hold' = Hold /\ PastInsert' = PastInsert
    BY <1>0, <2>1, <2>2 DEF Hold, PastInsert, RunType
  <2> QED
    BY <2>1, <2>2, <2>3, RuleStutters
<1>2. ASSUME NEW c \in CommandRuns, StartCommand(c) \/ EndCommand(c) PROVE Rule!Next
  BY <1>2 DEF StartCommand, EndCommand, history, Rule!Next, Rule!StartCommand, Rule!EndCommand
<1>3. CASE MemberWork
  <2>1. UNCHANGED commands
    BY <1>3 DEF MemberWork, Await, PollReady, PauseStops, PauseLimit, MakeChange, Clear, Panic,
       Runs0
  <2>2. Hold' = Hold /\ PastInsert' = PastInsert /\ UNCHANGED reports
    BY <1>3, MemberMoves, MemberKeeps DEF Hold, PastInsert, Within
  <2> QED
    BY ZenonT(30), <2>1, <2>2, RuleStutters
<1>4. CASE Claim
  <2>1. run.at = "none" /\ run'.at = "plan" /\ claims' = claims + 1
    BY <1>4, <1>o DEF Claim, RunType
  <2>2. claims' \in Nat \ {0}
    BY <1>0, <2>1
  <2> QED
    BY <1>4, <2>1, <2>2 DEF Claim, Rule!Next, Rule!Claim
<1>5. CASE Plan \/ Release
  <2>1. run.at \in {"plan", "release"} /\ UNCHANGED <<reports, commands, claims>>
    BY <1>5 DEF Plan, Release, Runs0, history
  <2>2. CASE run' = Off
    BY <1>0, <1>o, <2>1, <2>2 DEF Rule!Next, Rule!Free
  <2>3. CASE run.at = "plan" /\ run'.at = "open"
    <3>1. Hold' = Hold /\ PastInsert' = PastInsert
      BY <2>1, <2>3 DEF Hold, PastInsert
    <3> QED
      BY <2>1, <3>1, RuleStutters
  <2>4. run' = Off \/ (run.at = "plan" /\ run'.at = "open")
    BY <1>0, <1>5 DEF Plan, Release, Moves, RunType
  <2> QED
    BY <2>2, <2>3, <2>4
<1>6. CASE Open
  <2>1. run.at = "open" /\ UNCHANGED <<commands, claims>>
    BY <1>6 DEF Open
  <2>2. CASE run' = Off /\ UNCHANGED reports
    BY <1>0, <1>o, <2>1, <2>2 DEF Rule!Next, Rule!Free
  <2>3. ASSUME NEW i \in NextId,
               reports' = [reports EXCEPT ![i] = [state |-> "running", body |-> run.body]],
               run' = [run EXCEPT !.at = "await", !.id = i] \/ run' = [Off EXCEPT !.at = "release"]
        PROVE  Rule!Open(i)
    <3>1. /\ i \in Ids /\ reports[i].state = "none" /\ reports'[i].state = "running"
          /\ \A j \in Ids \ {i} : reports'[j] = reports[j]
      BY <1>0, <2>3 DEF NextId, Unwritten
    <3>2. run'.at \in {"await", "release"}
      BY <1>0, <1>o, <2>3 DEF RunType
    <3>3. Open0' = Open0 \cup {i} /\ Closed0' = Closed0 /\ i \notin Open0 \cup Closed0
      BY <3>1 DEF Open0, Closed0
    <3> QED
      BY <1>0, <2>1, <3>2, <3>3 DEF Rule!Open, Open0, Closed0
  <2> QED
    BY <1>6, <2>2, <2>3 DEF Open, NextId, Rule!Next
<1>7. CASE Write
  <2>1. UNCHANGED <<commands, claims>> /\ run.at = "write" /\ run' = [run EXCEPT !.at = "await"]
        /\ run.id \in Ids
    BY <1>7, WriteMoves DEF Write
  <2>2. Hold' = Hold /\ PastInsert' = PastInsert
    BY <1>0, <2>1 DEF Hold, PastInsert, RunType
  <2>3. \A i \in Ids : reports'[i].state = reports[i].state
    BY <1>0, <1>7, <2>1, WriteMoves DEF Written, Runs
  <2> QED
    BY <2>1, <2>2, <2>3, RuleStutters
<1>8. CASE EndWrite
  <2>1. UNCHANGED <<commands, claims>> /\ run.id \in Ids /\ run.at = "end"
    BY <1>8, EndMoves DEF EndWrite
  <2>2. run'.at \in {"end", "release"}
    BY <1>0, <1>8, EndMoves DEF RunType
  <2>3. Hold' = Hold /\ PastInsert' = PastInsert
    BY <2>1, <2>2 DEF Hold, PastInsert
  <2>4. reports' = reports \/ reports' = Written(run.id, run.body, "ended")
    BY <1>8, EndMoves
  <2> QED
    BY <1>0, <2>1, <2>3, <2>4, RuleStutters, RuleCloses
<1>9. ASSUME NEW e \in late, EndLate(e) PROVE [Rule!Next]_Rule!vars
  <2>1. UNCHANGED <<commands, run, claims>> /\ e.id \in Ids
    BY <1>0, <1>9 DEF EndLate, StoreTyped, history
  <2>2. Hold' = Hold /\ PastInsert' = PastInsert /\ (UNCHANGED reports \/ reports' = Written(e.id, e.body, "ended"))
    BY <1>9, <2>1 DEF EndLate, Hold, PastInsert
  <2> QED
    BY <1>0, <2>1, <2>2, RuleStutters, RuleCloses
<1>10. CASE Crash
  <2>1. run'.at = "none"
    BY <1>10, <1>o DEF Crash
  <2> QED
    BY <1>10, <2>1 DEF Crash, Rule!Next, Rule!Die
<1>11. CASE EndCutOff
  <2>1. UNCHANGED commands /\ Hold' = Hold /\ PastInsert' = PastInsert
    BY <1>11 DEF EndCutOff, runtime, history, Hold, PastInsert
  <2>2. UNCHANGED reports \/ \E i \in Ids : /\ Runs(i)
          /\ reports' = [reports EXCEPT ![i] = [state |-> "ended",
                                                 body |-> [@.body EXCEPT !.outcome = "restart"]]]
    BY <1>11 DEF EndCutOff
  <2>3. UNCHANGED reports \/ \E i \in Ids : \E body : reports' = Written(i, body, "ended")
    BY <2>2 DEF Written
  <2> QED
    BY <1>0, <2>1, <2>3, RuleStutters, RuleCloses
<1> QED
  BY <1>1, <1>2, <1>3, <1>4, <1>5, <1>6, <1>7, <1>8, <1>9, <1>10, <1>11
  DEF Next, Runtime, Works, Pauses, Process, MemberWork

(* The Foxhole actions implement the one-action rule: one action of the    *)
(* page at a time and never beside a command, at most one report to each   *)
(* hold of the rule, and none opened again once it ended (commands/                  *)
(* foxhole_runtime.go, claim, startCommand, release, endCutOff).           *)
THEOREM ImplementsRule == Spec => RuleSpec
<1>1. Init => Rule!Init /\ ClaimInv
  BY DEF Init, Rule!Init, Off, Unwritten, ClaimInv
<1>2. Inv /\ ClaimInv /\ [Next]_vars => ClaimInv'
  BY ClaimStep DEF Inv
<1>3. Inv /\ ClaimInv /\ [Next]_vars => [Rule!Next]_Rule!vars
  BY RuleStep DEF Inv
<1> QED
  BY <1>1, <1>2, <1>3, InvHolds, PTL DEF Spec, RuleSpec, Rule!Spec
=============================================================================
