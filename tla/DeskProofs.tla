----------------------------- MODULE DeskProofs -----------------------------
(***************************************************************************)
(* What the parts of the Foxhole desk and the paged lists keep, for every  *)
(* value of the constants: the records tell who left a note and who gave a *)
(* role, the purges leave no Foxhole role gone and tell of a second one,   *)
(* each reply and each page fits, and a list's pages are there while its   *)
(* arrows work.  Each part has an invariant of its own, and they share no  *)
(* state.                                                                  *)
(***************************************************************************)
EXTENDS MCFoxholeDesk, FiniteSetTheorems, SequenceTheorems, NaturalsInduction, WellFoundedInduction, TLAPS

----------------------------------------------------------------------------
(* The replies (FoxholeReplies)                                            *)

(* A set of numbers that is not empty has a least one.                     *)
LEMMA LeastOf ==
  ASSUME NEW S \in SUBSET Nat, S # {}
  PROVE  \E i \in S : \A j \in S : i <= j
<1> DEFINE R == {ss \in Nat \X Nat : ss[1] < ss[2]}
<1>1. IsWellFoundedOn(R, Nat)
  BY NatLessThanWellFounded, Zenon DEF OpToRel
<1>2. PICK i \in S : \A j \in S : ~(<<j, i>> \in R)
  <2> HIDE DEF R
  <2> QED
    BY <1>1, WFMin
<1>3. \A j \in S : <<j, i>> \in R <=> j < i
  OBVIOUS
<1> HIDE DEF R
<1>4. \A j \in S : j \in Nat /\ ~(j < i)
  BY <1>2, <1>3
<1> QED BY <1>4

(* Every sequence of numbers has its running sums.                         *)
LEMMA SumsExist ==
  ASSUME NEW q \in Seq(Nat), NEW n \in 0 .. Len(q)
  PROVE  \E f \in [0 .. n -> Nat] :
           f = [i \in 0 .. n |-> IF i = 0 THEN 0 ELSE f[i - 1] + q[i]]
<1> DEFINE Has(k) == \E f \in [0 .. k -> Nat] :
                       f = [i \in 0 .. k |-> IF i = 0 THEN 0 ELSE f[i - 1] + q[i]]
           Lacks == {k \in 0 .. Len(q) : ~Has(k)}
<1>1. Has(0)
  <2> DEFINE g == [i \in 0 .. 0 |-> 0]
  <2>1. g \in [0 .. 0 -> Nat] /\ g = [i \in 0 .. 0 |-> IF i = 0 THEN 0 ELSE g[i - 1] + q[i]]
    OBVIOUS
  <2> QED BY <2>1
<1>2. ASSUME NEW k \in 0 .. Len(q), k # 0, Has(k - 1) PROVE Has(k)
  <2>1. PICK f \in [0 .. (k - 1) -> Nat] :
          f = [i \in 0 .. (k - 1) |-> IF i = 0 THEN 0 ELSE f[i - 1] + q[i]]
    BY <1>2
  <2> DEFINE g == [i \in 0 .. k |-> IF i = k THEN f[k - 1] + q[k] ELSE f[i]]
  <2>2. q[k] \in Nat
    BY <1>2
  <2>3. g \in [0 .. k -> Nat]
    BY SMTT(30), <1>2, <2>2
  <2>4. ASSUME NEW i \in 0 .. k PROVE g[i] = IF i = 0 THEN 0 ELSE g[i - 1] + q[i]
    <3>1. CASE i = k
      BY <1>2, <3>1
    <3>2. CASE i # k
      <4>1. i \in 0 .. (k - 1) /\ g[i] = f[i]
        BY <1>2, <3>2
      <4>2. f[i] = IF i = 0 THEN 0 ELSE f[i - 1] + q[i]
        BY <2>1, <4>1
      <4>3. i # 0 => g[i - 1] = f[i - 1]
        BY <4>1
      <4> QED BY <4>1, <4>2, <4>3
    <3> QED BY <3>1, <3>2
  <2> HIDE DEF g
  <2> QED BY <2>3, <2>4
<1> HIDE DEF Has
<1>3. Lacks = {}
  <2> SUFFICES ASSUME Lacks # {} PROVE FALSE
    OBVIOUS
  <2>1. Lacks \in SUBSET Nat
    OBVIOUS
  <2>2. PICK k \in Lacks : \A j \in Lacks : k <= j
    BY <2>1, LeastOf
  <2>3. k # 0
    BY <1>1
  <2>4. k - 1 \in 0 .. Len(q) /\ k - 1 \notin Lacks
    BY <2>2, <2>3
  <2> QED BY <1>2, <2>3, <2>4
<1>4. Has(n)
  BY <1>3
<1> QED BY <1>4 DEF Has

LEMMA SumIsNat ==
  ASSUME NEW q \in Seq(Nat)
  PROVE  SumOf(q) \in Nat /\ (q = <<>> => SumOf(q) = 0)
<1> DEFINE Fits(f) == f = [i \in 0 .. Len(q) |-> IF i = 0 THEN 0 ELSE f[i - 1] + q[i]]
           sum == CHOOSE f : Fits(f)
<1>0. Len(q) \in 0 .. Len(q)
  OBVIOUS
<1>1. PICK g \in [0 .. Len(q) -> Nat] : Fits(g)
  BY SumsExist, <1>0
<1>2. Fits(sum)
  BY <1>1
<1>3. SumOf(q) = sum[Len(q)]
  BY DEF SumOf
<1> DEFINE Odd == {i \in 0 .. Len(q) : sum[i] \notin Nat}
<1> HIDE DEF sum
<1>4. Odd = {}
  <2> SUFFICES ASSUME Odd # {} PROVE FALSE
    OBVIOUS
  <2>1. PICK k \in Odd : \A j \in Odd : k <= j
    BY LeastOf, Odd \in SUBSET Nat
  <2>2. sum[k] = IF k = 0 THEN 0 ELSE sum[k - 1] + q[k]
    BY <1>2
  <2>3. CASE k = 0
    BY <2>2, <2>3
  <2>4. CASE k # 0
    <3>1. k - 1 \in 0 .. Len(q) /\ k - 1 \notin Odd
      BY <2>1, <2>4
    <3>2. q[k] \in Nat
      BY <2>4
    <3> QED BY SMTT(30), <2>2, <2>4, <3>1, <3>2
  <2> QED BY <2>3, <2>4
<1>5. SumOf(q) \in Nat
  BY <1>3, <1>4, <1>0
<1>6. q = <<>> => sum[0] = 0
  BY <1>2
<1> QED BY <1>3, <1>5, <1>6

LEMMA FirstIs ==
  ASSUME NEW q \in Seq(Nat), NEW n \in 0 .. Len(q)
  PROVE  /\ First(q, n) \in Seq(Nat) /\ Len(First(q, n)) = n
         /\ First(q, Len(q)) = q
         /\ SumOf(First(q, n)) \in Nat
         /\ n = 0 => First(q, n) = <<>> /\ SumOf(First(q, n)) = 0 /\ Joined(First(q, n)) = 0
         /\ n # 0 => Joined(First(q, n)) = SumOf(First(q, n)) + n - 1
<1>1. First(q, n) \in Seq(Nat) /\ Len(First(q, n)) = n
  BY DEF First
<1>2. First(q, Len(q)) = q
  BY SeqEqual DEF First
<1>3. n = 0 => First(q, n) = <<>>
  BY <1>1, EmptySeq
<1>4. n # 0 => First(q, n) # <<>>
  BY <1>1, EmptySeq
<1>5. SumOf(First(q, n)) \in Nat /\ (n = 0 => SumOf(First(q, n)) = 0)
  BY <1>1, <1>3, SumIsNat
<1> QED BY <1>1, <1>2, <1>3, <1>4, <1>5 DEF Joined

(* What is kept fits: the last line kept is none of those that do not.     *)
LEMMA KeptFits ==
  ASSUME NEW q \in Seq(Nat), NEW stop \in SUBSET DOMAIN q
  PROVE  KeptWhile(q, stop) \in 0 .. Len(q) /\ KeptWhile(q, stop) \notin stop
<1>1. DOMAIN q = 1 .. Len(q) /\ Len(q) \in Nat
  OBVIOUS
<1>2. CASE stop = {}
  BY <1>1, <1>2 DEF KeptWhile
<1>3. CASE stop # {}
  <2> DEFINE Is(i) == \A j \in stop : i <= j
             i0 == CHOOSE i \in stop : Is(i)
  <2>1. \E i \in stop : Is(i)
    BY SMTT(60), <1>1, <1>3, LeastOf
  <2>2. i0 \in stop /\ Is(i0)
    BY <2>1
  <2>3. KeptWhile(q, stop) = i0 - 1
    BY <1>3 DEF KeptWhile
  <2> HIDE DEF i0
  <2>4. i0 \in 1 .. Len(q)
    BY <2>2, <1>1
  <2> QED BY <2>2, <2>3, <2>4
<1> QED BY <1>2, <1>3

LEMMA NoteBounds ==
  ASSUME NEW n \in Nat
  PROVE  Note(n) \in Nat /\ Note(n) <= NoteLength + 3 /\ Note(n) <= Note(n + 1)
<1> DEFINE square == Base * Base
<1>1. Base \in Nat /\ Base > 1 /\ NoteLength \in Nat
  BY RepliesAssumption
<1>2. square \in Nat /\ square >= Base
  BY <1>1
<1>3. \A m : Note(m) = NoteLength + (IF m < Base THEN 1 ELSE IF m < square THEN 2 ELSE 3)
  BY DEF Note
<1> HIDE DEF square
<1> QED BY <1>1, <1>2, <1>3

LEMMA SummaryFits ==
  ASSUME NEW q \in Seq(Nat)
  PROVE  SummaryLength(q) <= Limit /\ (q # <<>> => Summary(q).kept + Summary(q).more = Len(q))
<1> DEFINE stop == {i \in DOMAIN q : Joined(First(q, i)) + 1 + Note(Len(q) - i + 1) > Limit}
           kept == IF Joined(q) <= Limit THEN Len(q) ELSE KeptWhile(q, stop)
           more == Len(q) - kept
<1>0. Limit \in Nat /\ NoteLength \in Nat /\ NoteLength + 3 <= Limit /\ Len(q) \in Nat
  BY RepliesAssumption
<1>1. Summary(q).kept = kept /\ Summary(q).more = more
  BY DEF Summary
<1>2. KeptWhile(q, stop) \in 0 .. Len(q) /\ KeptWhile(q, stop) \notin stop
  BY KeptFits
<1>3. kept \in 0 .. Len(q) /\ more \in Nat
  BY <1>2, <1>0
<1>4. SummaryLength(q) = Joined(First(q, kept)) + (IF more = 0 THEN 0 ELSE Note(more) + (IF kept = 0 THEN 0 ELSE 1))
  BY <1>1 DEF SummaryLength
<1>5. CASE Joined(q) <= Limit
  <2>1. kept = Len(q) /\ more = 0
    BY <1>5, <1>0
  <2>2. First(q, kept) = q
    BY <2>1, <1>3, FirstIs
  <2>3. Joined(q) \in Int
    BY SumIsNat DEF Joined
  <2> QED BY <1>1, <1>4, <1>5, <2>1, <2>2, <2>3
<1>6. CASE ~(Joined(q) <= Limit)
  <2>1. kept = KeptWhile(q, stop) /\ kept \notin stop
    BY <1>2, <1>6
  <2> HIDE DEF kept
  <2>2. Note(more) \in Nat /\ Note(more) <= NoteLength + 3 /\ Note(more) <= Note(more + 1) /\ Note(more + 1) \in Nat
    <3>1. more \in Nat
      BY <1>3
    <3>2. \A n \in Nat : Note(n) \in Nat /\ Note(n) <= NoteLength + 3 /\ Note(n) <= Note(n + 1)
      BY NoteBounds
    <3>3. more + 1 \in Nat
      BY <3>1
    <3> HIDE DEF more
    <3> QED BY <3>1, <3>2, <3>3
  <2>3. CASE kept = 0
    <3>1. Joined(First(q, kept)) = 0
      BY <2>3, <1>3, FirstIs
    <3> QED BY <1>0, <1>1, <1>3, <1>4, <2>2, <2>3, <3>1
  <2>4. CASE kept # 0
    <3>1. kept \in DOMAIN q
      BY <1>3, <2>4
    <3>2. Joined(First(q, kept)) \in Int
      BY <1>3, <2>4, FirstIs
    <3>3. ~(Joined(First(q, kept)) + 1 + Note(Len(q) - kept + 1) > Limit)
      BY <2>1, <3>1
    <3>4. Len(q) - kept + 1 = more + 1
      OBVIOUS
    <3>5. Joined(First(q, kept)) + 1 + Note(more + 1) <= Limit
      BY <3>2, <3>3, <3>4, <2>2, <1>0
    <3> HIDE DEF more
    <3>6. SummaryLength(q) <= Limit
      BY <1>0, <1>4, <2>2, <2>4, <3>2, <3>5
    <3> QED BY <1>0, <1>1, <1>3, <3>6 DEF more
  <2> QED BY <2>3, <2>4
<1> QED BY <1>5, <1>6

LEMMA EmbedFits ==
  ASSUME NEW q \in Seq(Nat)
  PROVE  EmbedLength(q) <= Limit
<1> DEFINE stop == {i \in DOMAIN q :
                SumOf(First(q, i)) + i + (IF i = Len(q) THEN 0 ELSE Note(Len(q) - i)) > Limit}
           kept == KeptWhile(q, stop)
           more == Len(q) - kept
<1>0. Limit \in Nat /\ NoteLength \in Nat /\ NoteLength + 3 <= Limit /\ Len(q) \in Nat
  BY RepliesAssumption
<1>1. EmbedLength(q) = SumOf(First(q, kept)) + kept + (IF more = 0 THEN 0 ELSE Note(more))
  BY DEF EmbedLength, Embed
<1>2. kept \in 0 .. Len(q) /\ kept \notin stop
  BY KeptFits
<1> HIDE DEF kept
<1>3. SumOf(First(q, kept)) \in Nat /\ (kept = 0 => SumOf(First(q, kept)) = 0)
  BY <1>2, FirstIs
<1>4. more \in Nat
  BY <1>0, <1>2
<1>7. Note(more) \in Nat /\ Note(more) <= NoteLength + 3
  <2> HIDE DEF more
  <2> QED BY <1>4, NoteBounds
<1>5. CASE kept = 0
  <2>1. SumOf(First(q, kept)) + kept = 0
    BY <1>3, <1>5
  <2> HIDE DEF more, stop
  <2> QED BY <1>0, <1>1, <1>4, <1>7, <2>1
<1>6. CASE kept # 0
  <2>1. ~(SumOf(First(q, kept)) + kept + (IF kept = Len(q) THEN 0 ELSE Note(Len(q) - kept)) > Limit)
    BY <1>2, <1>6
  <2>2. kept = Len(q) <=> more = 0
    BY <1>2, <1>0
  <2> QED BY <1>0, <1>1, <1>2, <1>3, <1>4, <1>7, <2>1, <2>2
<1> QED BY <1>5, <1>6

LEMMA ClampFits ==
  ASSUME NEW q \in Seq(Nat), q # <<>>
  PROVE  ClampLength(q) <= Limit
<1> DEFINE stop == {i \in DOMAIN q : SumOf(First(q, i)) + i + MarkerLength + 1 > Limit}
           kept == Clamp(q)
<1>0. Limit \in Nat /\ MarkerLength \in Nat /\ MarkerLength <= Limit /\ Len(q) \in Nat
  BY RepliesAssumption
<1>1. ClampLength(q) = IF kept = Len(q) THEN Joined(q)
                       ELSE Joined(First(q, kept)) + (IF kept = 0 THEN 0 ELSE 1) + MarkerLength
  BY DEF ClampLength
<1>2. KeptWhile(q, stop) \in 0 .. Len(q) /\ KeptWhile(q, stop) \notin stop
  BY KeptFits
<1>3. Len(q) # 0 /\ Joined(q) = SumOf(q) + Len(q) - 1 /\ SumOf(q) \in Nat
  BY SumIsNat, EmptySeq DEF Joined
<1>4. CASE Joined(q) <= Limit
  BY <1>1, <1>4 DEF Clamp
<1>5. CASE ~(Joined(q) <= Limit)
  <2>1. kept \in 0 .. Len(q) /\ kept \notin stop
    BY <1>2, <1>5 DEF Clamp
  <2> HIDE DEF kept
  <2>2. SumOf(First(q, kept)) \in Nat /\ (kept = 0 => Joined(First(q, kept)) = 0)
        /\ (kept # 0 => Joined(First(q, kept)) = SumOf(First(q, kept)) + kept - 1) /\ First(q, Len(q)) = q
    BY <2>1, FirstIs
  <2>3. CASE kept = 0
    BY <1>0, <1>1, <1>3, <2>2, <2>3
  <2>4. CASE kept # 0
    <3>1. ~(SumOf(First(q, kept)) + kept + MarkerLength + 1 > Limit)
      BY <2>1, <2>4
    <3>2. SumOf(First(q, kept)) + kept + MarkerLength + 1 <= Limit
      BY <1>0, <2>1, <2>2, <3>1
    <3>3. kept # Len(q)
      BY SMTT(30), <1>0, <1>3, <1>5, <2>2, <3>2
    <3> QED BY <1>0, <1>1, <2>1, <2>2, <2>4, <3>2, <3>3
  <2> QED BY <2>3, <2>4
<1> QED BY <1>4, <1>5

LEMMA FitFollows ==
  ASSUME lines \in Seq(Nat)
  PROVE  RepliesFit
<1>1. SummaryLength(lines) <= Limit /\ (lines # <<>> => Summary(lines).kept + Summary(lines).more = Len(lines))
  BY SummaryFits
<1> QED BY <1>1, EmbedFits, ClampFits DEF RepliesFit

----------------------------------------------------------------------------
(* A list's pages (PagedLists)                                             *)

(* A set that has 0, and each number whose predecessor it has, has all of  *)
(* 0 .. n: induction with a set for the property.                          *)
LEMMA StepByStep ==
  ASSUME NEW n \in Nat, NEW S, 0 \in S, \A i \in 1 .. n : i - 1 \in S => i \in S
  PROVE  0 .. n \subseteq S
<1> DEFINE Lacks == {i \in 0 .. n : i \notin S}
<1> SUFFICES ASSUME Lacks # {} PROVE FALSE
  OBVIOUS
<1>1. PICK k \in Lacks : \A j \in Lacks : k <= j
  BY LeastOf, Lacks \in SUBSET Nat
<1>2. k \in 1 .. n
  BY <1>1
<1>3. k - 1 \in 0 .. n /\ k - 1 \notin Lacks
  BY <1>1, <1>2
<1> QED BY <1>1, <1>2, <1>3

(* The function on 0 .. n that starts at d and takes each of its steps by  *)
(* G, and that there is one.                                               *)
StepsIn(n, D) == [(1 .. n) \X D -> D]
RunsAs(f, n, D, d, G) ==
  f \in [0 .. n -> D] /\ f[0] = d /\ \A i \in 1 .. n : f[i] = G[<<i, f[i - 1]>>]
LEMMA RunExists ==
  ASSUME NEW n \in Nat, NEW D, NEW d \in D, NEW G \in StepsIn(n, D)
  PROVE  \E f : RunsAs(f, n, D, d, G)
<1> USE DEF StepsIn
<1> DEFINE Has(k) == \E f \in [0 .. k -> D] : f[0] = d /\ \A i \in 1 .. k : f[i] = G[<<i, f[i - 1]>>]
           S == {k \in Nat : Has(k)}
<1>1. 0 \in S
  <2> DEFINE f == [i \in 0 .. 0 |-> d]
  <2>1. f \in [0 .. 0 -> D] /\ f[0] = d /\ \A i \in 1 .. 0 : f[i] = G[<<i, f[i - 1]>>]
    OBVIOUS
  <2> QED BY <2>1
<1>2. ASSUME NEW k \in 1 .. n, k - 1 \in S PROVE k \in S
  <2>1. PICK f \in [0 .. (k - 1) -> D] :
          f[0] = d /\ \A i \in 1 .. (k - 1) : f[i] = G[<<i, f[i - 1]>>]
    BY <1>2
  <2> DEFINE g == [i \in 0 .. k |-> IF i = k THEN G[<<k, f[k - 1]>>] ELSE f[i]]
  <2>2. f[k - 1] \in D /\ G[<<k, f[k - 1]>>] \in D
    BY <2>1
  <2>3. g \in [0 .. k -> D] /\ g[0] = d
    BY <2>1, <2>2
  <2>4. ASSUME NEW i \in 1 .. k PROVE g[i] = G[<<i, g[i - 1]>>]
    <3>1. g[i - 1] = f[i - 1]
      OBVIOUS
    <3>2. CASE i = k
      <4>1. g[i] = G[<<k, f[k - 1]>>]
        BY <3>2
      <4> HIDE DEF g
      <4> QED BY <3>1, <3>2, <4>1
    <3>3. CASE i # k
      <4>1. i \in 1 .. (k - 1)
        BY <3>3
      <4> QED BY <2>1, <3>1, <3>3, <4>1
    <3> QED BY <3>2, <3>3
  <2> HIDE DEF g
  <2>5. Has(k)
    BY <2>3, <2>4
  <2> QED BY <2>5
<1> HIDE DEF S
<1>3. n \in S
  BY <1>1, <1>2, StepByStep
<1> QED BY <1>3 DEF S, RunsAs

----------------------------------------------------------------------------
LineData == [page : Nat, size : Nat]
(* The line at i after one that stands at before.                          *)
After1(q, i, before) ==
  IF before.size + TextLength(q[i - 1].heading, q[i]) > PageLimit
  THEN [page |-> before.page + 1, size |-> TextLength(0, q[i])]
  ELSE [page |-> before.page, size |-> before.size + TextLength(q[i - 1].heading, q[i])]

LEMMA TextLengthIs ==
  ASSUME NEW l \in Lines, NEW h \in Headings \cup {0}
  PROVE  TextLength(h, l) \in Nat /\ (h = 0 => TextLength(h, l) <= PageLimit)
<1>1. l.length \in TextLengths /\ l.heading \in Headings
  BY DEF Lines
<1>2. l.length \in Nat /\ 2 + l.length + HeadingLength <= PageLimit /\ PageLimit \in Nat
  BY <1>1, PagesAssumption
<1>3. h = 0 => h # l.heading
  BY <1>1 DEF Headings
<1> QED BY <1>2, <1>3 DEF TextLength, HeadingLength

LEMMA LaidIs ==
  ASSUME NEW q \in Seq(Lines), q # <<>>
  PROVE  /\ Laid(q)[1] = [page |-> 1, size |-> TextLength(0, q[1])]
         /\ \A i \in 2 .. Len(q) : Laid(q)[i] = After1(q, i, Laid(q)[i - 1])
         /\ \A i \in 1 .. Len(q) : Laid(q)[i] \in LineData
         /\ \A i \in 1 .. Len(q) : Laid(q)[i].size <= PageLimit /\ Laid(q)[i].page \in 1 .. i
<1> DEFINE n == Len(q) - 1
           first == [page |-> 1, size |-> TextLength(0, q[1])]
           G == [x \in (1 .. n) \X LineData |-> After1(q, x[1] + 1, x[2])]
           Fits(f) == f = [i \in 1 .. Len(q) |->
                            IF i = 1 THEN [page |-> 1, size |-> TextLength(0, q[1])]
                            ELSE LET before == f[i - 1]
                                     text == TextLength(q[i - 1].heading, q[i]) IN
                                 IF before.size + text > PageLimit
                                 THEN [page |-> before.page + 1, size |-> OpensWith(q[i - 1].heading, q[i]).size]
                                 ELSE [page |-> before.page, size |-> before.size + text]]
<1>1. n \in Nat /\ Len(q) \in Nat /\ Len(q) = n + 1
  BY EmptySeq
<1>2. \A i \in 1 .. Len(q) : q[i] \in Lines /\ q[i].heading \in Headings
  <2>1. \A l \in Lines : l.heading \in Headings
    BY DEF Lines
  <2>2. \A i \in 1 .. Len(q) : q[i] \in Lines
    OBVIOUS
  <2> QED BY <2>1, <2>2
<1>3. ASSUME NEW i \in 1 .. Len(q)
      PROVE  TextLength(0, q[i]) \in Nat /\ TextLength(0, q[i]) <= PageLimit
  BY <1>2, TextLengthIs
<1>4. ASSUME NEW i \in 2 .. Len(q) PROVE TextLength(q[i - 1].heading, q[i]) \in Nat
  <2>1. q[i] \in Lines /\ q[i - 1].heading \in Headings
    BY <1>2
  <2> QED BY <2>1, TextLengthIs
<1>5. ASSUME NEW i \in 2 .. Len(q), NEW before \in LineData
      PROVE  /\ After1(q, i, before) \in LineData
             /\ before.size <= PageLimit => After1(q, i, before).size <= PageLimit
             /\ After1(q, i, before).page \in {before.page, before.page + 1}
  <2>1. before.size \in Nat /\ before.page \in Nat /\ PageLimit \in Nat
    BY PagesAssumption DEF LineData
  <2>2. TextLength(0, q[i]) \in Nat /\ TextLength(0, q[i]) <= PageLimit
    BY <1>3
  <2> QED BY SMTT(30), <2>1, <2>2, <1>4 DEF After1, LineData
<1>6. \E f : Fits(f)
  <2>1. first \in LineData
    <3>1. TextLength(0, q[1]) \in Nat
      BY <1>1, <1>3
    <3> QED BY <3>1 DEF LineData
  <2>2. G \in [(1 .. n) \X LineData -> LineData]
    <3>1. ASSUME NEW x \in (1 .. n) \X LineData PROVE After1(q, x[1] + 1, x[2]) \in LineData
      <4>1. x[1] + 1 \in 2 .. Len(q) /\ x[2] \in LineData
        BY <1>1
      <4> QED BY <4>1, <1>5
    <3> QED BY <3>1
  <2> HIDE DEF G, first, n, Fits
  <2>3. PICK g \in [0 .. n -> LineData] : g[0] = first /\ \A i \in 1 .. n : g[i] = G[<<i, g[i - 1]>>]
    <3>1. n \in Nat
      BY <1>1 DEF n
    <3>2. G \in StepsIn(n, LineData)
      BY <2>2 DEF StepsIn
    <3>3. PICK g : RunsAs(g, n, LineData, first, G)
      BY <2>1, <3>1, <3>2, RunExists
    <3> QED BY <3>3 DEF RunsAs
  <2> DEFINE f == [i \in 1 .. Len(q) |-> g[i - 1]]
  <2>9. n = Len(q) - 1
    BY DEF n
  <2>4. ASSUME NEW i \in 2 .. Len(q) PROVE f[i] = After1(q, i, f[i - 1])
    <3>1. i - 1 \in 1 .. n /\ g[i - 1 - 1] \in LineData /\ f[i - 1] = g[i - 1 - 1]
      BY <1>1
    <3>2. g[i - 1] = G[<<i - 1, g[i - 1 - 1]>>]
      BY <2>3, <3>1
    <3>3. G[<<i - 1, g[i - 1 - 1]>>] = After1(q, i - 1 + 1, g[i - 1 - 1])
      BY <3>1 DEF G
    <3> QED BY <3>1, <3>2, <3>3
  <2>5. f[1] = first
    BY <1>1, <2>3
  <2>6. Fits(f)
    <3> USE DEF Fits
    <3> SUFFICES ASSUME NEW i \in 1 .. Len(q)
                 PROVE  f[i] = IF i = 1 THEN [page |-> 1, size |-> TextLength(0, q[1])]
                               ELSE LET before == f[i - 1]
                                        text == TextLength(q[i - 1].heading, q[i]) IN
                                    IF before.size + text > PageLimit
                                    THEN [page |-> before.page + 1, size |-> OpensWith(q[i - 1].heading, q[i]).size]
                                    ELSE [page |-> before.page, size |-> before.size + text]
      BY ZenonT(30)
    <3> HIDE DEF f
    <3>1. CASE i = 1
      BY <2>5, <3>1 DEF first
    <3>2. CASE i # 1
      BY <2>4, <3>2 DEF After1, OpensWith
    <3> QED BY <3>1, <3>2
  <2> QED BY <2>6
<1> DEFINE laid == CHOOSE f : Fits(f)
<1>7. Fits(laid)
  BY Zenon, <1>6
<1>8. Laid(q) = laid
  BY DEF Laid
<1> HIDE DEF laid
<1>9. laid[1] = first
  BY <1>1, <1>7
<1>10. ASSUME NEW i \in 2 .. Len(q) PROVE laid[i] = After1(q, i, laid[i - 1])
  <2>1. i \in 1 .. Len(q) /\ i # 1
    OBVIOUS
  <2> QED BY <1>7, <2>1 DEF After1, OpensWith
<1> HIDE DEF Fits
<1> DEFINE S == {k \in 0 .. n : /\ laid[k + 1] \in LineData /\ laid[k + 1].size <= PageLimit
                                /\ laid[k + 1].page \in 1 .. k + 1}
<1>11. 0 \in S
  BY <1>1, <1>3, <1>9 DEF LineData
<1>12. ASSUME NEW k \in 1 .. n, k - 1 \in S PROVE k \in S
  <2>1. k + 1 \in 2 .. Len(q) /\ laid[k] \in LineData /\ laid[k].size <= PageLimit /\ laid[k].page \in 1 .. k
    BY <1>1, <1>12
  <2>2. laid[k + 1] = After1(q, k + 1, laid[k])
    BY <2>1, <1>10
  <2>3. /\ After1(q, k + 1, laid[k]) \in LineData
        /\ After1(q, k + 1, laid[k]).size <= PageLimit
        /\ After1(q, k + 1, laid[k]).page \in {laid[k].page, laid[k].page + 1}
    BY <2>1, <1>5
  <2> QED BY <2>1, <2>2, <2>3
<1> HIDE DEF S
<1>13. 0 .. n \subseteq S
  BY <1>1, <1>11, <1>12, StepByStep
<1>14. ASSUME NEW i \in 1 .. Len(q)
       PROVE  laid[i] \in LineData /\ laid[i].size <= PageLimit /\ laid[i].page \in 1 .. i
  <2>1. i - 1 \in S
    BY <1>1, <1>13
  <2> QED BY <2>1 DEF S
<1> QED BY <1>8, <1>9, <1>10, <1>14

LEMMA PageFits ==
  ASSUME entries \in Seq(Lines), entries # <<>>, NEW p \in 1 .. Total
  PROVE  PageLength(p) <= PageLimit
<1> DEFINE n == Len(entries)
           page(i) == Laid(entries)[i].page
           size(i) == Laid(entries)[i].size
           text(i) == IF i \notin PageLines(p) THEN 0
                      ELSE TextLength(IF i - 1 \in PageLines(p) THEN entries[i - 1].heading ELSE 0, entries[i])
           G == [x \in (1 .. n) \X Nat |-> x[2] + text(x[1])]
           Fits(f) == f = [i \in 0 .. n |-> IF i = 0 THEN 0
                            ELSE f[i - 1] +
                                   (IF i \notin PageLines(p) THEN 0
                                    ELSE TextLength(IF i - 1 \in PageLines(p) THEN entries[i - 1].heading ELSE 0, entries[i]))]
<1>1. n \in Nat /\ n # 0 /\ DOMAIN entries = 1 .. n /\ p \in Int /\ p >= 1 /\ PageLimit \in Nat
  BY EmptySeq, PagesAssumption
<1>2. /\ Laid(entries)[1] = [page |-> 1, size |-> TextLength(0, entries[1])]
      /\ \A i \in 2 .. n : Laid(entries)[i] = After1(entries, i, Laid(entries)[i - 1])
      /\ \A i \in 1 .. n : Laid(entries)[i] \in LineData
      /\ \A i \in 1 .. n : size(i) <= PageLimit /\ page(i) \in 1 .. i
  BY LaidIs
<1>3. \A i \in 1 .. n : i \in PageLines(p) <=> page(i) = p
  BY <1>1 DEF PageLines
<1>4. 0 \notin PageLines(p)
  BY <1>1 DEF PageLines
<1>5. \A i \in 1 .. n : entries[i] \in Lines /\ entries[i].heading \in Headings
  <2>1. \A l \in Lines : l.heading \in Headings
    BY DEF Lines
  <2> QED BY <2>1, <1>1
<1>6. ASSUME NEW i \in 1 .. n PROVE text(i) \in Nat
  <2>1. CASE i \notin PageLines(p)
    BY <2>1
  <2>2. CASE i \in PageLines(p) /\ i - 1 \notin PageLines(p)
    BY <1>5, <2>2, TextLengthIs
  <2>3. CASE i \in PageLines(p) /\ i - 1 \in PageLines(p)
    <3>1. i - 1 \in 1 .. n
      BY <1>4, <2>3
    <3>2. TextLength(entries[i - 1].heading, entries[i]) \in Nat
      BY <1>5, <3>1, TextLengthIs
    <3> QED BY <2>3, <3>2
  <2> QED BY <2>1, <2>2, <2>3
<1> DEFINE length == CHOOSE f : Fits(f)
<1>7. Fits(length)
  <2>1. G \in StepsIn(n, Nat)
    <3>1. ASSUME NEW x \in (1 .. n) \X Nat PROVE x[2] + text(x[1]) \in Nat
      <4>1. x[1] \in 1 .. n /\ x[2] \in Nat
        OBVIOUS
      <4> HIDE DEF text
      <4> QED BY <4>1, <1>6
    <3> QED BY <3>1 DEF StepsIn
  <2> HIDE DEF n, G, text
  <2>2. PICK g : RunsAs(g, n, Nat, 0, G)
    BY <1>1, <2>1, RunExists
  <2>3. g \in [0 .. n -> Nat] /\ g[0] = 0 /\ \A i \in 1 .. n : g[i] = G[<<i, g[i - 1]>>]
    BY <2>2 DEF RunsAs
  <2>4. ASSUME NEW i \in 1 .. n PROVE g[i] = g[i - 1] + text(i)
    <3>1. g[i - 1] \in Nat /\ <<i, g[i - 1]>> \in (1 .. n) \X Nat
      BY <1>1, <2>3
    <3> QED BY <2>3, <3>1 DEF G
  <2>5. Fits(g)
    <3>1. ASSUME NEW i \in 0 .. n
          PROVE  g[i] = IF i = 0 THEN 0
                        ELSE g[i - 1] +
                               (IF i \notin PageLines(p) THEN 0
                                ELSE TextLength(IF i - 1 \in PageLines(p) THEN entries[i - 1].heading ELSE 0, entries[i]))
      BY <2>3, <2>4 DEF text
    <3> HIDE DEF Fits
    <3> QED BY <2>3, <3>1 DEF Fits
  <2> HIDE DEF Fits
  <2> QED BY <2>5
<1>8. PageLength(p) = length[n]
  BY DEF PageLength
<1> HIDE DEF length
<1>9. length[0] = 0
  BY <1>1, <1>7
<1>10. ASSUME NEW i \in 1 .. n PROVE length[i] = length[i - 1] + text(i)
  <2>1. i \in 0 .. n /\ i # 0
    OBVIOUS
  <2> QED BY <2>1, <1>7
<1> HIDE DEF Fits
<1> DEFINE S == {i \in 0 .. n : /\ length[i] \in Nat /\ length[i] <= PageLimit
                                /\ (i = 0 \/ page(i) < p) => length[i] = 0
                                /\ (i # 0 /\ page(i) = p) => length[i] = size(i)}
<1>11. 0 \in S
  BY <1>1, <1>9
<1>12. ASSUME NEW i \in 1 .. n, i - 1 \in S PROVE i \in S
  <2>0. length[i] = length[i - 1] + text(i) /\ text(i) \in Nat
    BY <1>6, <1>10
  <2>1. /\ length[i - 1] \in Nat /\ length[i - 1] <= PageLimit
        /\ (i - 1 = 0 \/ page(i - 1) < p) => length[i - 1] = 0
        /\ (i - 1 # 0 /\ page(i - 1) = p) => length[i - 1] = size(i - 1)
    BY <1>12
  <2>2. page(i) \in Nat /\ size(i) \in Nat /\ size(i) <= PageLimit
    BY <1>2 DEF LineData
  <2>3. page(i) # p => text(i) = 0
    BY <1>3
  <2> HIDE DEF S
  <2>4. CASE i = 1
    <3>1. page(i) = 1 /\ size(i) = TextLength(0, entries[1])
      BY <1>2, <2>4
    <3>2. page(i) = p => text(i) = TextLength(0, entries[1])
      BY <1>3, <1>4, <2>4
    <3> HIDE DEF text, page, size
    <3> QED BY <1>1, <2>0, <2>1, <2>2, <2>3, <2>4, <3>1, <3>2 DEF S
  <2>5. CASE i # 1
    <3> SUFFICES /\ length[i] \in Nat /\ length[i] <= PageLimit
                 /\ page(i) < p => length[i] = 0
                 /\ page(i) = p => length[i] = size(i)
      BY <1>1 DEF S
    <3>0. i \in 2 .. n /\ i - 1 \in 1 .. n /\ i - 1 # 0
      BY <2>5
    <3>1. page(i - 1) \in Nat /\ size(i - 1) \in Nat
      BY <1>2, <3>0 DEF LineData
    <3>2. Laid(entries)[i] = After1(entries, i, Laid(entries)[i - 1])
      BY <1>2, <3>0
    <3>3. CASE size(i - 1) + TextLength(entries[i - 1].heading, entries[i]) > PageLimit
      <4>1. page(i) = page(i - 1) + 1 /\ size(i) = TextLength(0, entries[i])
        BY <3>2, <3>3 DEF After1
      <4>2. page(i) = p => text(i) = TextLength(0, entries[i])
        <5> HIDE DEF page, size
        <5>1. page(i) = p => i \in PageLines(p) /\ i - 1 \notin PageLines(p)
          BY <1>3, <3>0, <3>1, <4>1
        <5> QED BY <5>1
      <4> HIDE DEF text, page, size, n
      <4>3. page(i) < p => page(i - 1) < p
        BY <1>1, <3>1, <4>1
      <4>4. CASE page(i) = p
        BY <1>1, <2>0, <2>1, <2>2, <3>0, <3>1, <4>1, <4>2, <4>4
      <4>5. CASE page(i) # p
        BY <1>1, <2>0, <2>1, <2>2, <2>3, <3>0, <3>1, <4>3, <4>5
      <4> QED BY <4>4, <4>5
    <3>4. CASE ~(size(i - 1) + TextLength(entries[i - 1].heading, entries[i]) > PageLimit)
      <4>1. page(i) = page(i - 1) /\ size(i) = size(i - 1) + TextLength(entries[i - 1].heading, entries[i])
        BY <3>2, <3>4 DEF After1
      <4>2. page(i) = p => text(i) = TextLength(entries[i - 1].heading, entries[i])
        <5> HIDE DEF page, size
        <5>1. page(i) = p => i \in PageLines(p) /\ i - 1 \in PageLines(p)
          BY <1>3, <3>0, <3>1, <4>1
        <5> QED BY <5>1
      <4> HIDE DEF text, page, size, n
      <4>3. page(i) < p => page(i - 1) < p
        BY <1>1, <3>1, <4>1
      <4>4. CASE page(i) = p
        BY <1>1, <2>0, <2>1, <2>2, <3>0, <3>1, <4>1, <4>2, <4>4
      <4>5. CASE page(i) # p
        BY <1>1, <2>0, <2>1, <2>2, <2>3, <3>0, <3>1, <4>3, <4>5
      <4> QED BY <4>4, <4>5
    <3> QED BY <3>3, <3>4
  <2> QED BY <2>4, <2>5
<1> HIDE DEF S
<1>13. 0 .. n \subseteq S
  BY <1>1, <1>11, <1>12, StepByStep
<1>14. n \in S
  BY <1>1, <1>13
<1> QED BY <1>8, <1>14 DEF S

LEMMA TotalIs ==
  ASSUME entries \in Seq(Lines), entries # <<>>
  PROVE  Total \in 1 .. Len(entries)
<1>1. Len(entries) \in 1 .. Len(entries)
  BY EmptySeq
<1> QED BY <1>1, LaidIs DEF Total

----------------------------------------------------------------------------
(* What keeps PagesRight: the reply's pages are stored until they are past *)
(* their date, and a press being answered is of the reply shown, whose     *)
(* time it remembers.                                                      *)
Presses == [at : {"none", "pressed", "page", "expired", "unreadable"}, on : {"list", "copy"},
            page : 0 .. MaxLines, now : Nat, read : Nat]
PagesInv ==
  /\ entries \in Seq(Lines) /\ entries # <<>> /\ Len(entries) <= MaxLines
  /\ days \in 0 .. MaxDays /\ stored \in BOOLEAN /\ sweep \in {"due", "done", "never", "none"}
  /\ reply \in [at : {"laid", "saved", "unsaved", "shown", "lost"}, page : 0 .. MaxLines,
                arrows : BOOLEAN, ran : 0 .. days]
  /\ copies \in [Readers -> 0 .. MaxLines] /\ press \in [Readers -> Presses]
  /\ pagesLeft \in [PagesKinds -> Nat]
  /\ (reply.at = "saved" \/ (reply.at = "shown" /\ reply.arrows)) =>
       (days <= reply.ran + Retention => stored)
  /\ \A r \in Readers :
       press[r].at # "none" =>
         /\ reply.at = "shown" /\ reply.arrows /\ press[r].now <= days
         /\ press[r].at = "page" => press[r].now < reply.ran + Retention
         /\ press[r].at = "expired" => press[r].read >= reply.ran + Retention

(* The reply's page is turned only by the runner's press.                  *)
Turns == reply.at = "shown" /\ reply'.page # reply.page =>
           press[Runner].at = "page" /\ press'[Runner] = NoPress

LEMMA PagesBefall ==
  ASSUME pagesLeft \in [PagesKinds -> Nat], NEW k \in PagesKinds, Befalls(k)
  PROVE  pagesLeft' \in [PagesKinds -> Nat]
BY DEF Befalls

LEMMA PagesInitInv == PagesInit => PagesInv
<1> SUFFICES ASSUME PagesInit PROVE PagesInv
  OBVIOUS
<1>1. PICK n \in 1 .. MaxLines : entries \in [1 .. n -> Lines]
  BY DEF PagesInit
<1>2. entries \in Seq(Lines) /\ Len(entries) = n
  BY <1>1
<1>3. entries # <<>> /\ n <= MaxLines
  BY <1>1, <1>2
<1>4. NoPress \in Presses
  BY PagesAssumption DEF NoPress, Presses
<1>5. pagesLeft \in [PagesKinds -> Nat]
  BY PagesAssumption DEF PagesInit
<1>6. 0 \in 0 .. MaxDays /\ 0 \in 0 .. MaxLines
  BY PagesAssumption
<1>7. /\ reply \in [at : {"laid", "saved", "unsaved", "shown", "lost"}, page : 0 .. MaxLines,
                    arrows : BOOLEAN, ran : 0 .. days]
      /\ reply.at = "laid"
  BY <1>6 DEF PagesInit
<1>8. press \in [Readers -> Presses] /\ \A r \in Readers : press[r].at = "none"
  <2>1. press = [r \in Readers |-> NoPress] /\ NoPress.at = "none"
    BY DEF PagesInit, NoPress
  <2> QED BY <1>4, <2>1
<1>9. /\ days \in 0 .. MaxDays /\ stored \in BOOLEAN /\ sweep \in {"due", "done", "never", "none"}
      /\ copies \in [Readers -> 0 .. MaxLines]
  BY <1>6 DEF PagesInit
<1> QED BY <1>2, <1>3, <1>5, <1>7, <1>8, <1>9 DEF PagesInv

LEMMA SaveKeeps == PagesInv /\ Save => PagesInv' /\ Turns
<1> SUFFICES ASSUME PagesInv, Save PROVE PagesInv' /\ Turns
  OBVIOUS
<1>0. pagesLeft' \in [PagesKinds -> Nat]
  <2>1. "store" \in PagesKinds /\ "lost" \in PagesKinds
    BY DEF PagesKinds
  <2> QED BY <2>1, PagesBefall DEF Save, PagesInv
<1>1. days \in Nat /\ Retention \in Nat /\ days \in 0 .. days
  BY PagesAssumption DEF PagesInv
<1>2. reply' = [reply EXCEPT !.at = "unsaved"] \/ reply' = [reply EXCEPT !.at = "unsaved", !.ran = days]
      \/ (reply' = [reply EXCEPT !.at = "saved", !.ran = days] /\ stored' = TRUE)
  BY DEF Save
<1>3. /\ reply' \in [at : {"laid", "saved", "unsaved", "shown", "lost"}, page : 0 .. MaxLines,
                    arrows : BOOLEAN, ran : 0 .. days]
      /\ reply'.at = "unsaved" \/ (reply'.at = "saved" /\ stored' = TRUE)
  BY <1>1, <1>2 DEF PagesInv
<1>4. reply.at = "laid" /\ stored' \in BOOLEAN /\ UNCHANGED <<entries, days, copies, press, sweep>>
  BY DEF Save, PagesInv
<1> QED BY <1>0, <1>3, <1>4 DEF PagesInv, Turns

LEMMA ShowKeeps == PagesInv /\ Show => PagesInv' /\ Turns
<1> SUFFICES ASSUME PagesInv, Show PROVE PagesInv' /\ Turns
  OBVIOUS
<1>0. pagesLeft' \in [PagesKinds -> Nat]
  <2>1. "refuse" \in PagesKinds
    BY DEF PagesKinds
  <2> QED BY <2>1, PagesBefall DEF Show, PagesInv
<1>1. 1 \in 0 .. MaxLines
  BY EmptySeq, PagesAssumption DEF PagesInv
<1> QED BY ZenonT(30), <1>0, <1>1, PagesAssumption DEF PagesInv, Show, Turns, Arrows

LEMMA PressKeeps == PagesInv /\ (\E r \in Readers : Press(r)) => PagesInv' /\ Turns
<1> SUFFICES ASSUME PagesInv, NEW r \in Readers, Press(r) PROVE PagesInv' /\ Turns
  OBVIOUS
<1>0. pagesLeft' \in [PagesKinds -> Nat]
  <2>1. "press" \in PagesKinds
    BY DEF PagesKinds
  <2> QED BY <2>1, PagesBefall DEF Press, PagesInv
<1>1. PICK on \in {"list", "copy"}, p \in 1 .. Total :
        press' = [press EXCEPT ![r] = [at |-> "pressed", on |-> on, page |-> p, now |-> days, read |-> 0]]
  BY DEF Press
<1>2. p \in 0 .. MaxLines
  BY TotalIs, PagesAssumption DEF PagesInv
<1>3. days \in Nat
  BY PagesAssumption DEF PagesInv
<1>4. press' \in [Readers -> Presses]
  BY <1>1, <1>2, <1>3 DEF PagesInv, Presses
<1> QED BY SMTT(30), <1>0, <1>1, <1>3, <1>4, PagesAssumption DEF PagesInv, Press, Turns

LEMMA ReadKeeps == PagesInv /\ (\E r \in Readers : Read(r)) => PagesInv' /\ Turns
<1> SUFFICES ASSUME PagesInv, NEW r \in Readers, Read(r) PROVE PagesInv' /\ Turns
  OBVIOUS
<1>0. pagesLeft' \in [PagesKinds -> Nat]
  <2>1. "store" \in PagesKinds
    BY DEF PagesKinds
  <2> QED BY <2>1, PagesBefall DEF Read, PagesInv
<1>1. PICK at \in {"page", "expired", "unreadable"} :
        /\ press' = [press EXCEPT ![r].at = at, ![r].read = days]
        /\ at = "page" => stored /\ ~Old(press[r].now, reply.ran)
        /\ at = "expired" => ~(stored /\ ~Old(press[r].now, reply.ran))
  BY DEF Read, Answers
<1>2. days \in Nat /\ reply.ran \in Nat /\ Retention \in Nat /\ press[r] \in Presses /\ press[r].now \in Nat
  BY PagesAssumption DEF PagesInv, Presses
<1>3. press[r].at = "pressed"
  BY DEF Read
<1>4. press[r].now <= days /\ reply.at = "shown" /\ reply.arrows /\ (days <= reply.ran + Retention => stored)
  BY <1>3 DEF PagesInv
<1>5. press' \in [Readers -> Presses]
  BY <1>1, <1>2 DEF PagesInv, Presses
<1>6. /\ press'[r].now = press[r].now /\ press'[r].at = at /\ press'[r].read = days
      /\ \A q \in Readers : q # r => press'[q] = press[q]
  BY <1>1, <1>2 DEF PagesInv, Presses
<1>7. at = "page" => press[r].now < reply.ran + Retention
  BY <1>1, <1>2 DEF Old
<1>8. at = "expired" => days >= reply.ran + Retention
  BY <1>1, <1>2, <1>4 DEF Old
<1> QED BY <1>0, <1>2, <1>4, <1>5, <1>6, <1>7, <1>8 DEF PagesInv, Read, Turns

LEMMA AnswerKeeps == PagesInv /\ (\E r \in Readers : AnswerPress(r)) => PagesInv' /\ Turns
<1> SUFFICES ASSUME PagesInv, NEW r \in Readers, AnswerPress(r) PROVE PagesInv' /\ Turns
  OBVIOUS
<1>0. pagesLeft' \in [PagesKinds -> Nat]
  <2>1. "refuse" \in PagesKinds
    BY DEF PagesKinds
  <2> QED BY <2>1, PagesBefall DEF AnswerPress, PagesInv
<1>1. NoPress \in Presses /\ NoPress.at = "none"
  BY PagesAssumption DEF NoPress, Presses
<1>2. press' = [press EXCEPT ![r] = NoPress] /\ press[r].page \in 0 .. MaxLines /\ press[r].at # "none"
  BY DEF AnswerPress, PagesInv, Presses
<1>3. press' \in [Readers -> Presses] /\ press'[r] = NoPress /\ \A q \in Readers : q # r => press'[q] = press[q]
  BY <1>1, <1>2 DEF PagesInv
<1>4. CASE reply' = reply
  <2>1. copies' \in [Readers -> 0 .. MaxLines]
    BY <1>2 DEF AnswerPress, PagesInv
  <2> QED BY <1>0, <1>1, <1>3, <1>4, <2>1 DEF AnswerPress, PagesInv, Turns
<1>5. CASE reply' # reply
  <2>1. /\ reply' = [reply EXCEPT !.page = press[r].page] /\ copies' = copies
        /\ press[r].at = "page" /\ Flips(r)
    BY <1>5 DEF AnswerPress
  <2>2. /\ reply' \in [at : {"laid", "saved", "unsaved", "shown", "lost"}, page : 0 .. MaxLines,
                       arrows : BOOLEAN, ran : 0 .. days]
        /\ reply'.at = reply.at /\ reply'.arrows = reply.arrows /\ reply'.ran = reply.ran
    BY <1>2, <2>1 DEF PagesInv
  <2> QED BY <1>0, <1>1, <1>3, <2>1, <2>2 DEF AnswerPress, PagesInv, Turns, Flips
<1> QED BY <1>4, <1>5

LEMMA TimeKeeps == PagesInv /\ (Sweep \/ PassDue \/ Day \/ PagesStart) => PagesInv' /\ Turns
<1> SUFFICES ASSUME PagesInv, Sweep \/ PassDue \/ Day \/ PagesStart PROVE PagesInv' /\ Turns
  OBVIOUS
<1>0. "store" \in PagesKinds
  BY DEF PagesKinds
<1>1. days \in Nat /\ reply.ran \in Nat /\ Retention \in Nat /\ MaxDays \in Nat
  BY PagesAssumption DEF PagesInv
<1>2. CASE Sweep
  <2>1. pagesLeft' \in [PagesKinds -> Nat]
    BY <1>0, <1>2, PagesBefall DEF Sweep, PagesInv
  <2>2. /\ stored' \in BOOLEAN /\ sweep' = "done" /\ UNCHANGED <<entries, days, reply, copies, press>>
        /\ days <= reply.ran + Retention => (stored' <=> stored)
    <3>1. stored \in BOOLEAN /\ (days <= reply.ran + Retention => ~Past(reply.ran))
      BY <1>1 DEF PagesInv, Past
    <3>2. sweep' = "done" /\ UNCHANGED <<entries, days, reply, copies, press>>
      BY <1>2 DEF Sweep, PassAfter
    <3>3. CASE stored' = (stored /\ ~Past(reply.ran))
      <4>1. stored' \in BOOLEAN
        BY <3>3
      <4>2. ~Past(reply.ran) => (stored' <=> stored)
        BY <3>1, <3>3
      <4> QED BY <3>1, <3>2, <4>1, <4>2
    <3>4. CASE UNCHANGED stored
      BY <3>1, <3>2, <3>4
    <3> QED BY <1>2, <3>3, <3>4 DEF Sweep
  <2> QED BY <2>1, <2>2 DEF PagesInv, Turns
<1>3. CASE PassDue
  BY <1>3 DEF PagesInv, PassDue, Turns
<1>4. CASE Day
  <2>1. days' \in 0 .. MaxDays /\ days' = days + 1
    BY <1>1, <1>4 DEF Day
  <2>2. reply' \in [at : {"laid", "saved", "unsaved", "shown", "lost"}, page : 0 .. MaxLines,
                    arrows : BOOLEAN, ran : 0 .. days']
    <3>1. 0 .. days \subseteq 0 .. days'
      BY <1>1, <2>1
    <3> QED BY <1>4, <3>1 DEF Day, PagesInv
  <2>3. days' <= reply'.ran + Retention => days <= reply.ran + Retention
    BY <1>1, <1>4, <2>1 DEF Day
  <2>4. \A r \in Readers : press[r].now \in Nat
    BY DEF PagesInv, Presses
  <2>5. \A r \in Readers : press[r].now <= days => press'[r].now <= days'
    BY <1>1, <1>4, <2>1, <2>4 DEF Day
  <2>6. sweep' \in {"due", "done", "never", "none"} /\ UNCHANGED <<entries, reply, stored, copies, press, pagesLeft>>
    BY <1>4 DEF Day, PagesInv
  <2> QED BY <2>1, <2>2, <2>3, <2>5, <2>6 DEF PagesInv, Turns
<1>5. CASE PagesStart
  BY <1>5 DEF PagesInv, PagesStart, Turns
<1> QED BY <1>2, <1>3, <1>4, <1>5

LEMMA CrashKeeps == PagesInv /\ PagesCrash => PagesInv' /\ Turns
<1> SUFFICES ASSUME PagesInv, PagesCrash PROVE PagesInv' /\ Turns
  OBVIOUS
<1>0. pagesLeft' \in [PagesKinds -> Nat]
  <2>1. "crash" \in PagesKinds
    BY DEF PagesKinds
  <2> QED BY <2>1, PagesBefall DEF PagesCrash, PagesInv
<1>1. NoPress \in Presses /\ NoPress.at = "none"
  BY PagesAssumption DEF NoPress, Presses
<1>2. press' \in [Readers -> Presses] /\ \A q \in Readers : press'[q] = NoPress
  BY <1>1 DEF PagesCrash
<1> QED BY <1>0, <1>1, <1>2 DEF PagesInv, PagesCrash, Turns

LEMMA PagesStepKeeps == PagesInv /\ PagesNext => PagesInv' /\ Turns
BY SaveKeeps, ShowKeeps, PressKeeps, ReadKeeps, AnswerKeeps, TimeKeeps, CrashKeeps
   DEF PagesNext, PressSteps, SweepSteps

LEMMA PagesStillKeeps == PagesInv /\ UNCHANGED pagesVars => PagesInv' /\ Turns
BY DEF PagesInv, Turns, pagesVars

----------------------------------------------------------------------------
(* The records (FoxholeRecords)                                            *)

(* What keeps RecordsTell: a save holds the lock of just the rows it has   *)
(* written, so that what it read of them still stands when it commits.     *)
LogEntries ==
  [kind : Kinds, hit : SUBSET Members, before : Texts \cup {NoNote}, after : Texts \cup {NoNote},
   roles : [Members -> SUBSET Approvals]]
HoldsItsRows(s) ==
  /\ save[s].at \in {"sent", "writing", "insert"} => save[s].todo # <<>>
  /\ (save[s].at \in {"idle", "sent", "insert"} \/ (save[s].kind = "note" /\ save[s].at = "writing")) =>
       save[s].hit = {}
  /\ save[s].at = "insert" => save[s].kind = "note" /\ save[s].loaded = NoNote
  /\ \A m \in Members : lock[m] = s <=> m \in save[s].hit
  /\ save[s].kind = "note" /\ save[s].at = "commit" =>
       \E m \in Members :
         /\ save[s].hit = {m} /\ save[s].loaded = rows[m].note
         /\ save[s].wrote[m].there /\ save[s].wrote[m].note = save[s].note
         /\ save[s].wrote[m].approved = rows[m].approved
  /\ save[s].kind # "note" => \A m \in save[s].hit : save[s].wrote[m] = After(s, m)
RecordsInv ==
  /\ RecordsTypeOK /\ changes \in Seq(LogEntries) /\ RecordsTell
  /\ \A s \in Saves : HoldsItsRows(s)

LEMMA OthersHold ==
  ASSUME NEW s, HoldsItsRows(s), save'[s] = save[s],
         \A m \in Members : lock'[m] = s <=> lock[m] = s,
         \A m \in save[s].hit : rows'[m] = rows[m],
         save[s].hit \subseteq Members
  PROVE  HoldsItsRows(s)'
<1>1. save[s].kind # "note" => \A m \in save[s].hit : save'[s].wrote[m] = After(s, m)'
  BY ZenonT(60) DEF HoldsItsRows, After, Takes
<1>2. save[s].kind = "note" /\ save[s].at = "commit" =>
       \E m \in Members :
         /\ save[s].hit = {m} /\ save[s].loaded = rows'[m].note
         /\ save[s].wrote[m].there /\ save[s].wrote[m].note = save[s].note
         /\ save[s].wrote[m].approved = rows'[m].approved
  <2>1. SUFFICES ASSUME save[s].kind = "note", save[s].at = "commit"
                 PROVE  \E m \in Members :
                          /\ save[s].hit = {m} /\ save[s].loaded = rows'[m].note
                          /\ save[s].wrote[m].there /\ save[s].wrote[m].note = save[s].note
                          /\ save[s].wrote[m].approved = rows'[m].approved
    OBVIOUS
  <2>2. PICK m \in Members :
          /\ save[s].hit = {m} /\ save[s].loaded = rows[m].note
          /\ save[s].wrote[m].there /\ save[s].wrote[m].note = save[s].note
          /\ save[s].wrote[m].approved = rows[m].approved
    BY <2>1 DEF HoldsItsRows
  <2>3. rows'[m] = rows[m]
    BY <2>2
  <2> QED BY <2>2, <2>3
<1> QED BY SMTT(30), <1>1, <1>2 DEF HoldsItsRows

LEMMA StillTells ==
  ASSUME RecordsTell, UNCHANGED <<rows, changes>>
  PROVE  RecordsTell'
<1>1. \A m, i : NoteOf(m, i)' <=> NoteOf(m, i)
  BY DEF NoteOf
<1>2. \A m, n, text : Leaves(m, n, text)' <=> Leaves(m, n, text)
  BY DEF Leaves, NoteOf
<1>3. \A i, m, r : (Gives(i, m, r)' <=> Gives(i, m, r)) /\ (TakesBack(i, m, r)' <=> TakesBack(i, m, r))
  BY DEF Gives, TakesBack
<1>4. \A m : HasRow(m)' <=> HasRow(m)
  BY DEF HasRow
<1>5. ASSUME NEW m \in Members
      PROVE  /\ \A i \in DOMAIN changes' : NoteOf(m, i)' => Leaves(m, i - 1, changes[i].before)'
             /\ Leaves(m, Len(changes), rows[m].note)'
             /\ \A r \in Approvals :
                  r \in rows'[m].approved <=>
                    \E i \in DOMAIN changes' :
                      Gives(i, m, r)' /\ \A j \in i + 1 .. Len(changes') : ~TakesBack(j, m, r)'
             /\ HasRow(m)' <=> rows'[m].note # NoNote \/ rows'[m].approved # {}
  <2>1. ASSUME NEW i \in DOMAIN changes, NoteOf(m, i)' PROVE Leaves(m, i - 1, changes[i].before)'
    <3>1. PICK t : t = changes[i].before
      OBVIOUS
    <3>2. Leaves(m, i - 1, t)
      BY <1>1, <2>1, <3>1 DEF RecordsTell
    <3>3. Leaves(m, i - 1, t)'
      BY <1>2, <3>2
    <3> QED BY <3>1, <3>3
  <2>2. Leaves(m, Len(changes), rows[m].note)'
    <3>1. PICK t : t = rows[m].note
      OBVIOUS
    <3>2. PICK n : n = Len(changes)
      OBVIOUS
    <3>3. Leaves(m, n, t)
      BY <3>1, <3>2 DEF RecordsTell
    <3>4. Leaves(m, n, t)'
      BY <1>2, <3>3
    <3> QED BY <3>1, <3>2, <3>4
  <2>3. \A r \in Approvals :
          r \in rows'[m].approved <=>
            \E i \in DOMAIN changes' :
              Gives(i, m, r)' /\ \A j \in i + 1 .. Len(changes') : ~TakesBack(j, m, r)'
    BY <1>3 DEF RecordsTell
  <2>4. HasRow(m)' <=> rows'[m].note # NoNote \/ rows'[m].approved # {}
    BY <1>4 DEF RecordsTell
  <2> QED BY <2>1, <2>2, <2>3, <2>4
<1> QED BY <1>5 DEF RecordsTell

LEMMA SaveTyped ==
  ASSUME RecordsTypeOK, NEW s \in Saves
  PROVE  /\ save[s] \in SavesInFlight
         /\ save[s].at \in {"idle", "sent", "writing", "insert", "commit"} /\ save[s].kind \in Kinds
         /\ save[s].loaded \in Texts \cup {NoNote} /\ save[s].note \in Texts \cup {NoNote}
         /\ save[s].todo \in Seq(Members) /\ save[s].roles \in [Members -> SUBSET Approvals]
         /\ save[s].wrote \in [Members -> Records] /\ save[s].hit \in SUBSET Members
BY DEF RecordsTypeOK, SavesInFlight

LEMMA IdleIs ==
  /\ Idle \in SavesInFlight /\ NoRow \in Records /\ Idle.at = "idle" /\ Idle.hit = {} /\ Idle.kind = "note"
<1>1. NoRow \in Records
  BY DEF NoRow, Records
<1> QED BY <1>1 DEF Idle, SavesInFlight, Kinds

LEMMA MaySaveTyped ==
  ASSUME saveLeft \in [SaveDisturbances -> Nat], NEW k \in SaveDisturbances, MaySave(k)
  PROVE  saveLeft' \in [SaveDisturbances -> Nat]
BY DEF MaySave

(* A step of save s that writes no record: the invariant holds after it    *)
(* when it does for s.                                                     *)
LEMMA OwnStep ==
  ASSUME RecordsInv, NEW s \in Saves, NEW r \in SavesInFlight, Becomes(s, r), UNCHANGED <<rows, changes>>,
         lock' \in [Members -> Saves \cup {Nobody}], listed' \in [Members -> SUBSET Approvals],
         saveLeft' \in [SaveDisturbances -> Nat],
         \A m \in Members : lock'[m] = lock[m] \/ (lock[m] \in {s, Nobody} /\ lock'[m] \in {s, Nobody}),
         HoldsItsRows(s)'
  PROVE  RecordsInv'
<1>1. save' \in [Saves -> SavesInFlight]
  BY DEF Becomes, RecordsInv, RecordsTypeOK
<1>2. RecordsTypeOK' /\ changes' \in Seq(LogEntries)
  BY <1>1 DEF RecordsInv, RecordsTypeOK
<1>3. RecordsTell'
  BY StillTells DEF RecordsInv
<1>4. ASSUME NEW t \in Saves PROVE HoldsItsRows(t)'
  <2>1. CASE t = s
    BY <2>1
  <2>2. CASE t # s
    <3>1. save'[t] = save[t] /\ save[t].hit \subseteq Members
      BY <2>2, SaveTyped DEF Becomes, RecordsInv, RecordsTypeOK
    <3>2. \A m \in Members : lock'[m] = t <=> lock[m] = t
      BY <2>2, RecordsAssumption
    <3>3. HoldsItsRows(t)
      BY DEF RecordsInv
    <3> QED BY <3>1, <3>2, <3>3, OthersHold
  <2> QED BY <2>1, <2>2
<1> QED BY <1>2, <1>3, <1>4 DEF RecordsInv

(* A step that leaves the locks and what is written as they are.           *)
LEMMA QuietStep ==
  ASSUME RecordsInv, NEW s \in Saves, NEW r \in SavesInFlight, Becomes(s, r),
         UNCHANGED <<rows, changes, lock, listed>>, saveLeft' \in [SaveDisturbances -> Nat],
         save[s].hit = {}, r.hit = {}, r.at # "commit" \/ r.kind # "note",
         r.at \in {"sent", "writing", "insert"} => r.todo # <<>>,
         r.at = "insert" => r.kind = "note" /\ r.loaded = NoNote
  PROVE  RecordsInv'
<1>1. save'[s] = r
  BY DEF Becomes, RecordsInv, RecordsTypeOK
<1>2. HoldsItsRows(s)
  BY DEF RecordsInv
<1>3. HoldsItsRows(s)'
  BY <1>1, <1>2 DEF HoldsItsRows
<1>4. lock' \in [Members -> Saves \cup {Nobody}] /\ listed' \in [Members -> SUBSET Approvals]
  BY DEF RecordsInv, RecordsTypeOK
<1> QED BY <1>3, <1>4, OwnStep

LEMMA RollsBack ==
  ASSUME RecordsInv, NEW s \in Saves, RollBack(s), saveLeft' \in [SaveDisturbances -> Nat]
  PROVE  RecordsInv'
<1>1. lock' = [m \in Members |-> IF lock[m] = s THEN Nobody ELSE lock[m]]
  BY DEF RollBack, RolledBack, Unlocked
<1>2. lock' \in [Members -> Saves \cup {Nobody}] /\ listed' \in [Members -> SUBSET Approvals]
  BY <1>1 DEF RollBack, RecordsInv, RecordsTypeOK
<1>3. \A m \in Members : lock'[m] # s
  BY <1>1, RecordsAssumption
<1>4. save'[s] = Idle
  BY DEF RollBack, Becomes, RecordsInv, RecordsTypeOK
<1>5. HoldsItsRows(s)'
  BY <1>3, <1>4, IdleIs DEF HoldsItsRows
<1>6. \A m \in Members : lock'[m] = lock[m] \/ (lock[m] \in {s, Nobody} /\ lock'[m] \in {s, Nobody})
  BY Zenon, <1>1
<1> QED BY <1>2, <1>5, <1>6, IdleIs, OwnStep DEF RollBack

LEMMA SendKeeps == ASSUME RecordsInv, NEW s \in Saves, Send(s) PROVE RecordsInv'
<1>0. save[s].at = "idle" /\ save[s].hit = {} /\ UNCHANGED <<rows, changes, lock, listed>>
  BY DEF Send, RecordsInv, HoldsItsRows
<1>1. saveLeft' \in [SaveDisturbances -> Nat]
  <2>1. "saves" \in SaveDisturbances
    BY DEF SaveDisturbances
  <2> QED BY <2>1, MaySaveTyped DEF Send, RecordsInv, RecordsTypeOK
<1>2. ASSUME NEW m \in Members, NEW n \in Texts \cup {NoNote},
             Becomes(s, [Idle EXCEPT !.at = "sent", !.loaded = rows[m].note, !.note = n, !.todo = <<m>>])
      PROVE  RecordsInv'
  <2> DEFINE r == [Idle EXCEPT !.at = "sent", !.loaded = rows[m].note, !.note = n, !.todo = <<m>>]
  <2>1. rows[m].note \in Texts \cup {NoNote}
    BY DEF RecordsInv, RecordsTypeOK, Records
  <2>2. <<m>> \in Seq(Members) /\ <<m>> # <<>>
    OBVIOUS
  <2>3. r \in SavesInFlight /\ r.hit = {} /\ r.at = "sent" /\ r.todo # <<>>
    BY <2>1, <2>2, IdleIs DEF SavesInFlight
  <2> QED BY <1>0, <1>1, <1>2, <2>3, QuietStep
<1>3. ASSUME NEW kind \in {"approve", "clear"}, NEW q \in Orders,
             Becomes(s, [Idle EXCEPT !.at = "sent", !.kind = kind, !.todo = q])
      PROVE  RecordsInv'
  <2> DEFINE r == [Idle EXCEPT !.at = "sent", !.kind = kind, !.todo = q]
  <2>1. q \in Seq(Members) /\ q # <<>>
    <3>1. PICK n \in 1 .. Cardinality(Members) : q \in [1 .. n -> Members]
      BY DEF Orders
    <3>2. n \in Nat /\ 1 \in 1 .. n
      OBVIOUS
    <3> QED BY <3>1, <3>2
  <2>2. r \in SavesInFlight /\ r.hit = {} /\ r.at = "sent" /\ r.todo # <<>>
    BY <2>1, IdleIs DEF SavesInFlight, Kinds
  <2> QED BY <1>0, <1>1, <1>3, <2>2, QuietStep
<1>4. ASSUME NEW m \in Members, NEW role \in Approvals,
             Becomes(s, [Idle EXCEPT !.at = "writing", !.kind = "removal", !.todo = <<m>>, !.roles[m] = {role}])
      PROVE  RecordsInv'
  <2> DEFINE r == [Idle EXCEPT !.at = "writing", !.kind = "removal", !.todo = <<m>>, !.roles[m] = {role}]
  <2>1. <<m>> \in Seq(Members) /\ <<m>> # <<>>
    OBVIOUS
  <2>2. r \in SavesInFlight /\ r.hit = {} /\ r.at = "writing" /\ r.kind = "removal" /\ r.todo # <<>>
    BY <2>1, IdleIs DEF SavesInFlight, Kinds
  <2> QED BY <1>0, <1>1, <1>4, <2>2, QuietStep
<1> QED BY ZenonT(30), <1>2, <1>3, <1>4 DEF Send

LEMMA ReadNoteKeeps == ASSUME RecordsInv, NEW s \in Saves, ReadNote(s) PROVE RecordsInv'
<1> DEFINE r == [save[s] EXCEPT !.at = "writing"]
<1>0. save[s].hit = {} /\ save[s].todo # <<>> /\ save[s] \in SavesInFlight
  BY SaveTyped DEF ReadNote, RecordsInv, HoldsItsRows
<1>1. UNCHANGED <<rows, changes, lock, listed, saveLeft>> /\ saveLeft' \in [SaveDisturbances -> Nat]
  BY DEF ReadNote, Proceeds, RecordsInv, RecordsTypeOK
<1>2. Becomes(s, Idle) \/ Becomes(s, r)
  BY DEF ReadNote, Proceeds
<1>3. r \in SavesInFlight /\ r.hit = {} /\ r.at = "writing" /\ r.todo # <<>>
  BY <1>0 DEF SavesInFlight
<1>4. CASE Becomes(s, Idle)
  BY <1>0, <1>1, <1>4, IdleIs, QuietStep
<1>5. CASE Becomes(s, r)
  <2> HIDE DEF r
  <2> QED BY <1>0, <1>1, <1>3, <1>5, QuietStep
<1> QED BY <1>2, <1>4, <1>5

LEMMA TouchingKeeps ==
  ASSUME RecordsInv, NEW s \in Saves, NEW touch \in [Members -> SUBSET Approvals],
         save[s].at = "sent", save[s].kind # "note", Touching(s, touch)
  PROVE  RecordsInv'
<1> DEFINE who == {m \in Range(save[s].todo) : touch[m] # {}}
           roles == [m \in Members |-> IF m \in who THEN touch[m] ELSE {}]
           r == [save[s] EXCEPT !.at = "writing", !.roles = roles]
<1>0. save[s].hit = {} /\ save[s].todo # <<>> /\ save[s] \in SavesInFlight
  BY SaveTyped DEF RecordsInv, HoldsItsRows
<1>1. UNCHANGED <<rows, changes, lock, listed, saveLeft>> /\ saveLeft' \in [SaveDisturbances -> Nat]
  BY DEF Touching, Proceeds, RecordsInv, RecordsTypeOK
<1>2. Becomes(s, Idle) \/ Becomes(s, r)
  BY DEF Touching, Proceeds
<1>3. roles \in [Members -> SUBSET Approvals]
  OBVIOUS
<1>4. r \in SavesInFlight /\ r.hit = {} /\ r.at = "writing" /\ r.todo # <<>> /\ r.kind # "note"
  <2> HIDE DEF roles
  <2> QED BY <1>0, <1>3 DEF SavesInFlight
<1>5. CASE Becomes(s, Idle)
  BY <1>0, <1>1, <1>5, IdleIs, QuietStep
<1>6. CASE Becomes(s, r)
  <2> HIDE DEF r
  <2> QED BY <1>0, <1>1, <1>4, <1>6, QuietStep
<1> QED BY <1>2, <1>5, <1>6

LEMMA ReadApprovalsKeeps == ASSUME RecordsInv, NEW s \in Saves, ReadApprove(s) \/ ReadClear(s) PROVE RecordsInv'
<1>1. [m \in Members |-> Giving(m)] \in [Members -> SUBSET Approvals]
  BY DEF RecordsInv, RecordsTypeOK, Giving
<1>2. [m \in Members |-> rows[m].approved] \in [Members -> SUBSET Approvals]
  BY DEF RecordsInv, RecordsTypeOK, Records
<1> QED BY <1>1, <1>2, TouchingKeeps DEF ReadApprove, ReadClear

LEMMA LockNoteKeeps == ASSUME RecordsInv, NEW s \in Saves, LockNote(s) PROVE RecordsInv'
<1> DEFINE m == Head(save[s].todo)
           kept == [rows[m] EXCEPT !.note = save[s].note]
           r == [save[s] EXCEPT !.at = "commit", !.wrote[m] = kept, !.hit = {m}]
<1>0. /\ save[s].hit = {} /\ save[s].todo # <<>> /\ save[s] \in SavesInFlight /\ HoldsItsRows(s)
      /\ save[s].at = "writing" /\ save[s].kind = "note"
  BY SaveTyped DEF LockNote, RecordsInv, HoldsItsRows
<1>1. m \in Members
  BY <1>0, HeadTailProperties DEF SavesInFlight
<1>2. saveLeft \in [SaveDisturbances -> Nat]
  BY DEF RecordsInv, RecordsTypeOK
<1>3. CASE /\ HasRow(m) /\ ~Holder(m) /\ SameNote(rows[m].note, save[s].loaded) /\ Locked(s, m)
           /\ Becomes(s, r) /\ UNCHANGED <<rows, changes, listed, saveLeft>>
  <2>1. rows[m] \in Records /\ save[s].note \in Texts \cup {NoNote} /\ save[s].wrote \in [Members -> Records]
    BY ZenonT(30), <1>1, SaveTyped DEF RecordsInv, RecordsTypeOK
  <2>2. kept \in Records /\ kept.there /\ kept.note = save[s].note /\ kept.approved = rows[m].approved
    BY <1>3, <2>1 DEF Records, HasRow
  <2> HIDE DEF m, kept
  <2>3. /\ r \in SavesInFlight /\ r.at = "commit" /\ r.kind = "note" /\ r.hit = {m} /\ r.loaded = save[s].loaded
        /\ r.note = save[s].note /\ r.wrote[m] = kept
    BY <1>0, <1>1, <2>1, <2>2 DEF SavesInFlight
  <2> HIDE DEF r
  <2>4. lock' = [lock EXCEPT ![m] = s] /\ lock[m] = Nobody
    BY <1>3 DEF Locked, Holder
  <2>5. save'[s] = r
    BY <1>3 DEF Becomes, RecordsInv, RecordsTypeOK
  <2>6. lock \in [Members -> Saves \cup {Nobody}] /\ listed' \in [Members -> SUBSET Approvals]
    BY <1>3 DEF RecordsInv, RecordsTypeOK
  <2>7. \A x \in Members : lock'[x] = s <=> x \in r.hit
    BY <1>0, <2>3, <2>4, <2>6 DEF HoldsItsRows
  <2>8. save[s].loaded = rows[m].note
    BY <1>3 DEF SameNote
  <2>9. HoldsItsRows(s)'
    BY <1>1, <1>3, <2>2, <2>3, <2>5, <2>7, <2>8 DEF HoldsItsRows
  <2>10. lock' \in [Members -> Saves \cup {Nobody}] /\ saveLeft' \in [SaveDisturbances -> Nat]
    BY <2>4, <2>6, <1>2, <1>3
  <2>11. \A x \in Members : lock'[x] = lock[x] \/ (lock[x] \in {s, Nobody} /\ lock'[x] \in {s, Nobody})
    BY <2>4, <2>6
  <2> QED BY <1>3, <2>3, <2>6, <2>9, <2>10, <2>11, OwnStep
<1>4. CASE ~HasRow(m) /\ save[s].loaded = NoNote /\ Proceeds(s, [save[s] EXCEPT !.at = "insert"])
  <2> DEFINE i == [save[s] EXCEPT !.at = "insert"]
  <2>1. i \in SavesInFlight /\ i.hit = {} /\ i.at = "insert" /\ i.kind = "note" /\ i.loaded = NoNote /\ i.todo # <<>>
    BY <1>0, <1>4 DEF SavesInFlight
  <2>2. Becomes(s, i) /\ UNCHANGED <<rows, changes, lock, listed>> /\ saveLeft' \in [SaveDisturbances -> Nat]
    BY <1>2, <1>4 DEF Proceeds
  <2> HIDE DEF i
  <2> QED BY <1>0, <2>1, <2>2, QuietStep
<1>5. CASE RollBack(s) /\ UNCHANGED saveLeft
  BY <1>2, <1>5, RollsBack
<1> QED BY <1>3, <1>4, <1>5 DEF LockNote

LEMMA InsertNoteKeeps == ASSUME RecordsInv, NEW s \in Saves, InsertNote(s) PROVE RecordsInv'
<1> DEFINE m == Head(save[s].todo)
           fresh == [NoRow EXCEPT !.there = TRUE, !.note = save[s].note]
           r == [save[s] EXCEPT !.at = "commit", !.hit = {m}, !.wrote[m] = fresh]
<1>0. /\ save[s].hit = {} /\ save[s].todo # <<>> /\ save[s] \in SavesInFlight /\ HoldsItsRows(s)
      /\ save[s].at = "insert" /\ save[s].kind = "note" /\ save[s].loaded = NoNote
  BY SaveTyped DEF InsertNote, RecordsInv, HoldsItsRows
<1>1. m \in Members
  BY <1>0, HeadTailProperties DEF SavesInFlight
<1>2. saveLeft \in [SaveDisturbances -> Nat]
  BY DEF RecordsInv, RecordsTypeOK
<1>3. CASE ~HasRow(m)
  <2>0. ~Holder(m) /\ Locked(s, m) /\ UNCHANGED <<rows, changes, listed, saveLeft>> /\ Becomes(s, r)
    BY <1>3 DEF InsertNote
  <2>1. save[s].note \in Texts \cup {NoNote} /\ save[s].wrote \in [Members -> Records]
    BY SaveTyped DEF RecordsInv
  <2>2. fresh \in Records /\ fresh.there /\ fresh.note = save[s].note /\ fresh.approved = {}
    BY <2>1 DEF Records, NoRow
  <2>12. rows[m].note = NoNote /\ rows[m].approved = {}
    BY <1>1, <1>3 DEF RecordsInv, RecordsTell
  <2> HIDE DEF m, fresh
  <2>3. /\ r \in SavesInFlight /\ r.at = "commit" /\ r.kind = "note" /\ r.hit = {m} /\ r.loaded = NoNote
        /\ r.note = save[s].note /\ r.wrote[m] = fresh
    BY <1>0, <1>1, <2>1, <2>2 DEF SavesInFlight
  <2> HIDE DEF r
  <2>4. lock' = [lock EXCEPT ![m] = s] /\ lock[m] = Nobody
    BY <2>0 DEF Locked, Holder
  <2>5. save'[s] = r
    BY <2>0 DEF Becomes, RecordsInv, RecordsTypeOK
  <2>6. lock \in [Members -> Saves \cup {Nobody}] /\ listed' \in [Members -> SUBSET Approvals]
    BY <2>0 DEF RecordsInv, RecordsTypeOK
  <2>7. \A x \in Members : lock'[x] = s <=> x \in r.hit
    BY <1>0, <2>3, <2>4, <2>6 DEF HoldsItsRows
  <2>9. HoldsItsRows(s)'
    BY <1>1, <2>0, <2>2, <2>3, <2>5, <2>7, <2>12 DEF HoldsItsRows
  <2>10. lock' \in [Members -> Saves \cup {Nobody}] /\ saveLeft' \in [SaveDisturbances -> Nat]
    BY <2>4, <2>6, <1>2, <2>0
  <2>11. \A x \in Members : lock'[x] = lock[x] \/ (lock[x] \in {s, Nobody} /\ lock'[x] \in {s, Nobody})
    BY <2>4, <2>6
  <2> QED BY <2>0, <2>3, <2>6, <2>9, <2>10, <2>11, OwnStep
<1>4. CASE HasRow(m)
  <2>1. RollBack(s) /\ UNCHANGED saveLeft
    BY <1>4 DEF InsertNote
  <2> QED BY <1>2, <2>1, RollsBack
<1> QED BY <1>3, <1>4

LEMMA WriteKeeps == ASSUME RecordsInv, NEW s \in Saves, WriteApproval(s) PROVE RecordsInv'
<1> DEFINE m == Head(save[s].todo)
           next == [save[s] EXCEPT !.todo = Tail(@), !.at = IF Len(save[s].todo) = 1 THEN "commit" ELSE @]
           r == [next EXCEPT !.wrote[m] = After(s, m), !.hit = @ \cup {m}]
<1>0. /\ save[s].todo # <<>> /\ save[s] \in SavesInFlight /\ HoldsItsRows(s)
      /\ save[s].at = "writing" /\ save[s].kind # "note" /\ save[s].hit \in SUBSET Members
      /\ save[s].wrote \in [Members -> Records] /\ save[s].roles \in [Members -> SUBSET Approvals]
      /\ save[s].todo \in Seq(Members)
  BY SaveTyped DEF WriteApproval, RecordsInv, HoldsItsRows
<1>1. m \in Members /\ Tail(save[s].todo) \in Seq(Members) /\ Len(Tail(save[s].todo)) = Len(save[s].todo) - 1
  BY <1>0, HeadTailProperties
<1>2. /\ UNCHANGED <<rows, changes, listed, saveLeft>> /\ saveLeft' \in [SaveDisturbances -> Nat]
      /\ listed' \in [Members -> SUBSET Approvals]
  BY DEF WriteApproval, RecordsInv, RecordsTypeOK
<1>3. Len(save[s].todo) # 1 => Tail(save[s].todo) # <<>>
  <2>1. Len(save[s].todo) # 1 => Len(Tail(save[s].todo)) # 0
    <3> HIDE DEF m
    <3>1. Len(save[s].todo) \in Nat
      BY <1>0
    <3> QED BY <1>1, <3>1
  <2>2. Tail(save[s].todo) = <<>> => Len(Tail(save[s].todo)) = 0
    BY <1>1, EmptySeq
  <2> QED BY <2>1, <2>2
<1>4. /\ next \in SavesInFlight /\ next.kind = save[s].kind /\ next.roles = save[s].roles
      /\ next.hit = save[s].hit /\ next.wrote = save[s].wrote
      /\ next.at \in {"writing", "commit"} /\ (next.at = "writing" => next.todo # <<>>)
  BY <1>0, <1>1, <1>3 DEF SavesInFlight
<1>8. (Touches(s, m) /\ ~Holder(m) /\ Locked(s, m) /\ Becomes(s, r)) \/ (Becomes(s, next) /\ UNCHANGED lock)
  BY DEF WriteApproval
<1>5. lock \in [Members -> Saves \cup {Nobody}] /\ save \in [Saves -> SavesInFlight] /\ rows \in [Members -> Records]
  BY DEF RecordsInv, RecordsTypeOK
<1> HIDE DEF next
<1>6. CASE Touches(s, m) /\ ~Holder(m) /\ Locked(s, m) /\ Becomes(s, r)
  <2>1. After(s, m) \in Records
    <3>1. rows[m] \in Records /\ rows[m].approved \in SUBSET Approvals /\ save[s].roles[m] \in SUBSET Approvals
      BY <1>0, <1>1, <1>5 DEF Records
    <3> QED BY <3>1 DEF After, Records
  <2> HIDE DEF m
  <2>2. /\ r \in SavesInFlight /\ r.at = next.at /\ r.kind = save[s].kind /\ r.roles = save[s].roles
        /\ r.hit = save[s].hit \cup {m} /\ r.todo = next.todo
        /\ r.wrote = [save[s].wrote EXCEPT ![m] = After(s, m)]
    BY <1>0, <1>1, <1>4, <2>1 DEF SavesInFlight
  <2> HIDE DEF r
  <2>3. lock' = [lock EXCEPT ![m] = s] /\ lock[m] = Nobody
    BY <1>6 DEF Locked, Holder
  <2>4. save'[s] = r
    BY <1>5, <1>6 DEF Becomes
  <2>5. \A x \in Members : lock'[x] = s <=> x \in r.hit
    BY <1>0, <1>1, <1>5, <2>2, <2>3 DEF HoldsItsRows
  <2>6. \A x \in Members : After(s, x)' = After(s, x)
    BY <1>2, <2>2, <2>4 DEF After, Takes
  <2>7. \A x \in r.hit : r.wrote[x] = After(s, x)
    BY <1>0, <1>1, <2>2 DEF HoldsItsRows
  <2>8. HoldsItsRows(s)'
    BY <1>0, <1>1, <1>4, <2>2, <2>4, <2>5, <2>6, <2>7 DEF HoldsItsRows
  <2>9. lock' \in [Members -> Saves \cup {Nobody}]
    BY <1>5, <2>3
  <2>10. \A x \in Members : lock'[x] = lock[x] \/ (lock[x] \in {s, Nobody} /\ lock'[x] \in {s, Nobody})
    BY <1>5, <2>3
  <2> QED BY <1>2, <1>6, <2>2, <2>8, <2>9, <2>10, OwnStep
<1>7. CASE Becomes(s, next) /\ UNCHANGED lock
  <2>1. save'[s] = next
    BY <1>5, <1>7 DEF Becomes
  <2>2. \A x \in Members : After(s, x)' = After(s, x)
    BY <1>2, <1>4, <2>1 DEF After, Takes
  <2>3. HoldsItsRows(s)'
    BY <1>0, <1>4, <1>7, <2>1, <2>2 DEF HoldsItsRows
  <2>4. lock' \in [Members -> Saves \cup {Nobody}]
    BY <1>5, <1>7
  <2> QED BY <1>2, <1>4, <1>7, <2>3, <2>4, OwnStep
<1> QED BY <1>6, <1>7, <1>8

(* Entry e is the log's next, after n.                                     *)
LogsNext(n, e) ==
  changes \in Seq(LogEntries) /\ Len(changes) = n /\ changes' = Append(changes, e)

(* What the log says of an earlier entry is what it said before one more.  *)
LEMMA LogGrows ==
  ASSUME NEW n \in Nat, NEW e, LogsNext(n, e), NEW m \in Members
  PROVE  /\ Len(changes') = n + 1 /\ DOMAIN changes = 1 .. n /\ DOMAIN changes' = 1 .. n + 1
         /\ \A i \in 1 .. n : changes'[i] = changes[i]
         /\ changes'[n + 1] = e
         /\ \A i \in 1 .. n : NoteOf(m, i)' <=> NoteOf(m, i)
         /\ \A i \in 1 .. n, r \in Approvals :
              (Gives(i, m, r)' <=> Gives(i, m, r)) /\ (TakesBack(i, m, r)' <=> TakesBack(i, m, r))
         /\ \A k \in 0 .. n : \A text : Leaves(m, k, text)' <=> Leaves(m, k, text)
<1>1. /\ Len(changes') = n + 1 /\ DOMAIN changes = 1 .. n /\ DOMAIN changes' = 1 .. n + 1
      /\ \A i \in 1 .. n : changes'[i] = changes[i]
      /\ changes'[n + 1] = e
  BY DEF LogsNext
<1>2. \A i \in 1 .. n : NoteOf(m, i)' <=> NoteOf(m, i)
  BY <1>1 DEF NoteOf
<1>3. \A i \in 1 .. n, r \in Approvals :
        (Gives(i, m, r)' <=> Gives(i, m, r)) /\ (TakesBack(i, m, r)' <=> TakesBack(i, m, r))
  BY <1>1 DEF Gives, TakesBack
<1>4. ASSUME NEW k \in 0 .. n, NEW text
      PROVE  Leaves(m, k, text)' <=> Leaves(m, k, text)
  <2>1. \A i \in 1 .. k : NoteOf(m, i)' <=> NoteOf(m, i)
    BY <1>1, <1>2
  <2>2. \A i \in 1 .. k : changes'[i] = changes[i]
    BY <1>1
  <2>3. \A i \in 1 .. k : \A j \in i + 1 .. k : j \in 1 .. k
    OBVIOUS
  <2> QED BY <2>1, <2>2, <2>3 DEF Leaves
<1> QED BY <1>1, <1>2, <1>3, <1>4

(* An entry that is no note of a member leaves their note's text.          *)
LEMMA LeavesBeside ==
  ASSUME NEW n \in Nat, NEW e, LogsNext(n, e), NEW m \in Members, NEW text,
         ~(e.kind = "note" /\ e.hit = {m})
  PROVE  Leaves(m, n + 1, text)' <=> Leaves(m, n, text)
<1>1. /\ \A i \in 1 .. n : changes'[i] = changes[i]
      /\ \A i \in 1 .. n : NoteOf(m, i)' <=> NoteOf(m, i)
      /\ ~NoteOf(m, n + 1)'
  BY LogGrows DEF NoteOf
<1>2. \A i \in 1 .. n + 1 : i \in 1 .. n \/ i = n + 1
  OBVIOUS
<1>3. (\A i \in 1 .. n + 1 : ~NoteOf(m, i)') <=> (\A i \in 1 .. n : ~NoteOf(m, i))
  BY <1>1, <1>2
<1>4. ASSUME NEW i \in 1 .. n
      PROVE  (\A j \in i + 1 .. n + 1 : ~NoteOf(m, j)') <=> (\A j \in i + 1 .. n : ~NoteOf(m, j))
  <2>1. \A j \in i + 1 .. n + 1 : j \in i + 1 .. n \/ j = n + 1
    OBVIOUS
  <2>2. \A j \in i + 1 .. n : j \in i + 1 .. n + 1 /\ j \in 1 .. n
    OBVIOUS
  <2> QED BY <1>1, <2>1, <2>2
<1>5. (\E i \in 1 .. n + 1 : NoteOf(m, i)' /\ changes'[i].after = text /\ \A j \in i + 1 .. n + 1 : ~NoteOf(m, j)')
        <=> (\E i \in 1 .. n : NoteOf(m, i) /\ changes[i].after = text /\ \A j \in i + 1 .. n : ~NoteOf(m, j))
  <2>1. \A i \in 1 .. n : i \in 1 .. n + 1
    OBVIOUS
  <2> QED BY <1>1, <1>2, <1>4, <2>1
<1> QED BY <1>3, <1>5 DEF Leaves

LEMMA LeavesLast ==
  ASSUME NEW n \in Nat, NEW e, LogsNext(n, e), NEW m \in Members, e.kind = "note" /\ e.hit = {m}
  PROVE  Leaves(m, n + 1, e.after)'
<1>1. changes'[n + 1] = e /\ NoteOf(m, n + 1)'
  BY LogGrows DEF NoteOf
<1>2. n + 1 \in 1 .. n + 1 /\ \A j \in n + 1 + 1 .. n + 1 : FALSE
  OBVIOUS
<1> QED BY <1>1, <1>2 DEF Leaves

(* The approvals a log tells of, one entry further.                        *)
Told(m, r) ==
  \E i \in DOMAIN changes : Gives(i, m, r) /\ \A j \in i + 1 .. Len(changes) : ~TakesBack(j, m, r)
LEMMA ToldNext ==
  ASSUME NEW n \in Nat, NEW e, LogsNext(n, e), NEW m \in Members, NEW r \in Approvals
  PROVE  Told(m, r)' <=> \/ Gives(n + 1, m, r)'
                         \/ Told(m, r) /\ ~TakesBack(n + 1, m, r)'
<1>1. /\ Len(changes') = n + 1 /\ DOMAIN changes = 1 .. n /\ DOMAIN changes' = 1 .. n + 1
      /\ \A i \in 1 .. n : (Gives(i, m, r)' <=> Gives(i, m, r)) /\ (TakesBack(i, m, r)' <=> TakesBack(i, m, r))
  BY LogGrows
<1>2. \A i \in 1 .. n + 1 : i \in 1 .. n \/ i = n + 1
  OBVIOUS
<1>3. ASSUME NEW i \in 1 .. n
      PROVE  (\A j \in i + 1 .. n + 1 : ~TakesBack(j, m, r)')
               <=> (\A j \in i + 1 .. n : ~TakesBack(j, m, r)) /\ ~TakesBack(n + 1, m, r)'
  <2>1. \A j \in i + 1 .. n + 1 : j \in i + 1 .. n \/ j = n + 1
    OBVIOUS
  <2>2. \A j \in i + 1 .. n : j \in i + 1 .. n + 1 /\ j \in 1 .. n
    OBVIOUS
  <2>3. n + 1 \in i + 1 .. n + 1
    OBVIOUS
  <2> QED BY <1>1, <2>1, <2>2, <2>3
<1>4. n + 1 \in 1 .. n + 1 /\ \A j \in n + 1 + 1 .. n + 1 : FALSE
  OBVIOUS
<1>5. (\E i \in 1 .. n + 1 : Gives(i, m, r)' /\ \A j \in i + 1 .. n + 1 : ~TakesBack(j, m, r)')
        <=> \/ Gives(n + 1, m, r)'
            \/ /\ \E i \in 1 .. n : Gives(i, m, r) /\ \A j \in i + 1 .. n : ~TakesBack(j, m, r)
               /\ ~TakesBack(n + 1, m, r)'
  <2>1. \A i \in 1 .. n : i \in 1 .. n + 1
    OBVIOUS
  <2> QED BY <1>1, <1>2, <1>3, <1>4, <2>1
<1>6. Told(m, r) <=> \E i \in 1 .. n : Gives(i, m, r) /\ \A j \in i + 1 .. n : ~TakesBack(j, m, r)
  BY <1>1 DEF Told, LogsNext
<1>7. Told(m, r)' <=> \E i \in 1 .. n + 1 : Gives(i, m, r)' /\ \A j \in i + 1 .. n + 1 : ~TakesBack(j, m, r)'
  BY <1>1 DEF Told
<1> QED BY <1>5, <1>6, <1>7

LEMMA TellsIs ==
  RecordsTell <=>
    \A m \in Members :
      /\ \A i \in DOMAIN changes : NoteOf(m, i) => Leaves(m, i - 1, changes[i].before)
      /\ Leaves(m, Len(changes), rows[m].note)
      /\ \A r \in Approvals : r \in rows[m].approved <=> Told(m, r)
      /\ HasRow(m) <=> rows[m].note # NoNote \/ rows[m].approved # {}
BY DEF RecordsTell, Told

LEMMA CommitTells ==
  ASSUME RecordsInv, NEW s \in Saves, save[s].at = "commit",
         rows' = [m \in Members |-> IF m \in save[s].hit THEN Dropped(save[s].wrote[m]) ELSE rows[m]],
         changes' = Append(changes, Entry(s))
  PROVE  RecordsTell'
<1>1. PICK e : e = Entry(s)
  OBVIOUS
<1>2. PICK n \in Nat : n = Len(changes)
  BY DEF RecordsInv
<1>3. LogsNext(n, e) /\ HoldsItsRows(s) /\ RecordsTell
  BY <1>1, <1>2 DEF LogsNext, RecordsInv
<1>4. /\ e.kind = save[s].kind /\ e.hit = save[s].hit /\ e.before = save[s].loaded /\ e.after = save[s].note
      /\ e.roles = save[s].roles
  BY <1>1 DEF Entry
<1>5. /\ save[s].hit \in SUBSET Members /\ save[s].wrote \in [Members -> Records] /\ save[s].kind \in Kinds
      /\ save[s].roles \in [Members -> SUBSET Approvals] /\ rows \in [Members -> Records]
  BY SaveTyped DEF RecordsInv, RecordsTypeOK
<1>6. ASSUME NEW m \in save[s].hit
      PROVE  /\ save[s].wrote[m].there
             /\ save[s].kind # "note" =>
                  /\ save[s].wrote[m].note = rows[m].note
                  /\ save[s].wrote[m].approved =
                       IF save[s].kind = "approve" THEN rows[m].approved \cup save[s].roles[m]
                       ELSE rows[m].approved \ Takes(s, m)
             /\ save[s].kind = "note" =>
                  /\ save[s].hit = {m} /\ save[s].loaded = rows[m].note
                  /\ save[s].wrote[m].note = save[s].note /\ save[s].wrote[m].approved = rows[m].approved
  <2>1. CASE save[s].kind = "note"
    BY <1>3, <2>1 DEF HoldsItsRows
  <2>2. CASE save[s].kind # "note"
    <3>1. save[s].wrote[m] = After(s, m) /\ rows[m] \in Records
      BY <1>3, <1>5, <2>2 DEF HoldsItsRows
    <3> QED BY <2>2, <3>1 DEF After, Records
  <2> QED BY <2>1, <2>2
<1>7. ASSUME NEW m \in Members
      PROVE  /\ rows'[m].note = IF m \in save[s].hit THEN save[s].wrote[m].note ELSE rows[m].note
             /\ rows'[m].approved = IF m \in save[s].hit THEN save[s].wrote[m].approved ELSE rows[m].approved
             /\ HasRow(m)' <=> rows'[m].note # NoNote \/ rows'[m].approved # {}
  <2>1. HasRow(m) <=> rows[m].note # NoNote \/ rows[m].approved # {}
    BY ZenonT(30), <1>3 DEF RecordsTell
  <2>2. CASE m \in save[s].hit
    <3>1. rows'[m] = Dropped(save[s].wrote[m]) /\ save[s].wrote[m].there
      BY <1>6, <2>2
    <3> QED BY <2>2, <3>1 DEF Dropped, NoRow, HasRow
  <2>3. CASE m \notin save[s].hit
    <3>1. rows'[m] = rows[m]
      BY <2>3
    <3> QED BY <2>1, <2>3, <3>1 DEF HasRow
  <2> QED BY <2>2, <2>3
<1>8. ASSUME NEW m \in Members
      PROVE  /\ Leaves(m, n, rows[m].note)
             /\ \A i \in 1 .. n : NoteOf(m, i) => Leaves(m, i - 1, changes[i].before)
             /\ \A r \in Approvals : r \in rows[m].approved <=> Told(m, r)
             /\ Len(changes') = n + 1 /\ DOMAIN changes' = 1 .. n + 1 /\ changes'[n + 1] = e
             /\ \A i \in 1 .. n : changes'[i] = changes[i] /\ (NoteOf(m, i)' <=> NoteOf(m, i))
             /\ \A k \in 0 .. n : \A text : Leaves(m, k, text)' <=> Leaves(m, k, text)
  <2>1. /\ Leaves(m, n, rows[m].note) /\ \A i \in DOMAIN changes : NoteOf(m, i) => Leaves(m, i - 1, changes[i].before)
        /\ \A r \in Approvals : r \in rows[m].approved <=> Told(m, r)
    BY <1>2, <1>3, TellsIs
  <2>2. /\ Len(changes') = n + 1 /\ DOMAIN changes' = 1 .. n + 1 /\ changes'[n + 1] = e /\ DOMAIN changes = 1 .. n
        /\ \A i \in 1 .. n : changes'[i] = changes[i] /\ (NoteOf(m, i)' <=> NoteOf(m, i))
        /\ \A k \in 0 .. n : \A text : Leaves(m, k, text)' <=> Leaves(m, k, text)
    BY <1>3, LogGrows
  <2> QED BY <2>1, <2>2
<1>9. ASSUME NEW m \in Members, NEW i \in 1 .. n + 1, NoteOf(m, i)'
      PROVE  \E t : t = changes'[i].before /\ Leaves(m, i - 1, t)'
  <2>1. PICK t : t = changes'[i].before
    OBVIOUS
  <2>2. CASE i \in 1 .. n
    <3>1. Leaves(m, i - 1, changes[i].before) /\ changes'[i] = changes[i] /\ i - 1 \in 0 .. n
      BY <1>8, <1>9, <2>2
    <3>2. Leaves(m, i - 1, t)
      BY <2>1, <3>1
    <3>3. Leaves(m, i - 1, t)'
      BY <1>8, <3>1, <3>2
    <3> QED BY <2>1, <3>3
  <2>3. CASE i = n + 1
    <3>1. e.kind = "note" /\ e.hit = {m} /\ t = e.before
      BY <1>8, <1>9, <2>1, <2>3 DEF NoteOf
    <3>2. t = rows[m].note
      BY <1>4, <1>6, <3>1
    <3>3. Leaves(m, n, t) /\ n \in 0 .. n /\ i - 1 = n
      BY <1>8, <2>3, <3>2
    <3>4. Leaves(m, i - 1, t)'
      BY <1>8, <3>3
    <3> QED BY <2>1, <3>4
  <2>4. i \in 1 .. n \/ i = n + 1
    OBVIOUS
  <2> QED BY <2>2, <2>3, <2>4
<1>10. ASSUME NEW m \in Members
       PROVE  \E t : t = rows'[m].note /\ Leaves(m, n + 1, t)'
  <2>1. PICK t : t = rows'[m].note
    OBVIOUS
  <2>2. CASE e.kind = "note" /\ e.hit = {m}
    <3>1. t = e.after
      BY <1>4, <1>6, <1>7, <2>1, <2>2
    <3>2. Leaves(m, n + 1, e.after)'
      BY <1>3, <2>2, LeavesLast
    <3> QED BY <2>1, <3>1, <3>2
  <2>3. CASE ~(e.kind = "note" /\ e.hit = {m})
    <3>1. t = rows[m].note
      BY ZenonT(30), <1>4, <1>6, <1>7, <2>1, <2>3
    <3>2. Leaves(m, n, t)
      BY <1>8, <3>1
    <3>3. Leaves(m, n + 1, t)'
      BY <1>3, <2>3, <3>2, LeavesBeside
    <3> QED BY <2>1, <3>3
  <2> QED BY <2>2, <2>3
<1>11. ASSUME NEW m \in Members, NEW r \in Approvals
       PROVE  r \in rows'[m].approved <=> Told(m, r)'
  <2>1. Told(m, r)' <=> Gives(n + 1, m, r)' \/ (Told(m, r) /\ ~TakesBack(n + 1, m, r)')
    BY <1>3, ToldNext
  <2>2. /\ Gives(n + 1, m, r)' <=> m \in e.hit /\ e.kind = "approve" /\ r \in e.roles[m]
        /\ TakesBack(n + 1, m, r)' <=> m \in e.hit /\ (e.kind = "clear" \/ (e.kind = "removal" /\ r \in e.roles[m]))
    BY <1>8 DEF Gives, TakesBack
  <2>3. r \in rows[m].approved <=> Told(m, r)
    BY <1>8
  <2>4. CASE m \notin save[s].hit
    BY <1>4, <1>7, <2>1, <2>2, <2>3, <2>4
  <2>5. CASE m \in save[s].hit /\ save[s].kind = "note"
    BY <1>4, <1>6, <1>7, <2>1, <2>2, <2>3, <2>5
  <2>6. CASE m \in save[s].hit /\ save[s].kind = "approve"
    BY <1>4, <1>6, <1>7, <2>1, <2>2, <2>3, <2>6
  <2>7. CASE m \in save[s].hit /\ save[s].kind = "clear"
    BY <1>4, <1>6, <1>7, <2>1, <2>2, <2>3, <2>7 DEF Takes
  <2>8. CASE m \in save[s].hit /\ save[s].kind = "removal"
    BY <1>4, <1>6, <1>7, <2>1, <2>2, <2>3, <2>8 DEF Takes
  <2> QED BY <1>5, <2>4, <2>5, <2>6, <2>7, <2>8 DEF Kinds
<1>12. ASSUME NEW m \in Members
       PROVE  /\ \A i \in DOMAIN changes' : NoteOf(m, i)' => Leaves(m, i - 1, changes[i].before)'
              /\ Leaves(m, Len(changes), rows[m].note)'
              /\ \A r \in Approvals : r \in rows'[m].approved <=> Told(m, r)'
              /\ HasRow(m)' <=> rows'[m].note # NoNote \/ rows'[m].approved # {}
  <2>1. \A i \in DOMAIN changes' : NoteOf(m, i)' => Leaves(m, i - 1, changes[i].before)'
    <3>1. ASSUME NEW i \in 1 .. n + 1, NoteOf(m, i)' PROVE Leaves(m, i - 1, changes[i].before)'
      <4>1. PICK t : t = changes'[i].before /\ Leaves(m, i - 1, t)'
        BY <1>9, <3>1
      <4> QED BY <4>1
    <3> QED BY <1>8, <3>1
  <2>2. Leaves(m, Len(changes), rows[m].note)'
    <3>1. PICK t : t = rows'[m].note /\ Leaves(m, n + 1, t)'
      BY <1>10
    <3> QED BY <1>8, <3>1
  <2> QED BY <1>7, <1>11, <2>1, <2>2
<1> QED BY <1>12 DEF RecordsTell, Told

LEMMA CommitKeeps == ASSUME RecordsInv, NEW s \in Saves, Commit(s) PROVE RecordsInv'
<1>1. saveLeft \in [SaveDisturbances -> Nat] /\ lock \in [Members -> Saves \cup {Nobody}]
      /\ rows \in [Members -> Records] /\ listed \in [Members -> SUBSET Approvals] /\ save \in [Saves -> SavesInFlight]
  BY DEF RecordsInv, RecordsTypeOK
<1>2. save[s].at = "commit"
  BY DEF Commit
<1>3. CASE MaySave("saveFault") /\ RollBack(s)
  <2>1. "saveFault" \in SaveDisturbances
    BY DEF SaveDisturbances
  <2> QED BY <1>1, <1>3, <2>1, MaySaveTyped, RollsBack
<1>4. CASE /\ rows' = [m \in Members |-> IF m \in save[s].hit THEN Dropped(save[s].wrote[m]) ELSE rows[m]]
           /\ changes' = IF save[s].kind = "removal" /\ save[s].hit = {} THEN changes
                         ELSE Append(changes, Entry(s))
           /\ Becomes(s, Idle) /\ lock' = Unlocked(s) /\ UNCHANGED <<listed, saveLeft>>
  <2>0. /\ save[s].kind \in Kinds /\ save[s].hit \in SUBSET Members /\ save[s].wrote \in [Members -> Records]
        /\ save[s].loaded \in Texts \cup {NoNote} /\ save[s].note \in Texts \cup {NoNote}
        /\ save[s].roles \in [Members -> SUBSET Approvals]
    BY SaveTyped DEF RecordsInv
  <2>1. Entry(s) \in LogEntries
    BY <2>0 DEF Entry, LogEntries
  <2>2. changes' \in Seq(LogEntries)
    BY <1>4, <2>1 DEF RecordsInv
  <2>3. \A row \in Records : Dropped(row) \in Records
    BY IdleIs DEF Dropped
  <2>4. rows' \in [Members -> Records]
    BY <1>1, <1>4, <2>0, <2>3
  <2>5. /\ lock' \in [Members -> Saves \cup {Nobody}] /\ \A m \in Members : lock'[m] # s
        /\ \A t \in Saves : t # s => \A m \in Members : lock'[m] = t <=> lock[m] = t
    BY <1>1, <1>4, RecordsAssumption DEF Unlocked
  <2>6. save' \in [Saves -> SavesInFlight] /\ save'[s] = Idle /\ \A t \in Saves : t # s => save'[t] = save[t]
    BY <1>1, <1>4, IdleIs DEF Becomes
  <2>7. RecordsTypeOK'
    BY <1>1, <1>4, <2>4, <2>5, <2>6 DEF RecordsTypeOK
  <2>8. RecordsTell'
    <3>1. CASE save[s].kind = "removal" /\ save[s].hit = {}
      <4>1. rows' = rows /\ changes' = changes
        BY <1>1, <1>4, <3>1
      <4> QED BY <4>1, StillTells DEF RecordsInv
    <3>2. CASE ~(save[s].kind = "removal" /\ save[s].hit = {})
      BY <1>2, <1>4, <3>2, CommitTells
    <3> QED BY <3>1, <3>2
  <2>9. HoldsItsRows(s)'
    BY <2>5, <2>6, IdleIs DEF HoldsItsRows
  <2>10. ASSUME NEW t \in Saves, t # s PROVE HoldsItsRows(t)'
    <3>1. HoldsItsRows(t) /\ HoldsItsRows(s) /\ save[t].hit \in SUBSET Members
      BY SaveTyped DEF RecordsInv
    <3>2. \A m \in save[t].hit : m \notin save[s].hit
      BY <2>10, <3>1, <2>0 DEF HoldsItsRows
    <3>3. \A m \in save[t].hit : rows'[m] = rows[m]
      BY <1>4, <3>1, <3>2
    <3> QED BY <2>5, <2>6, <2>10, <3>1, <3>3, OthersHold
  <2> QED BY <2>2, <2>7, <2>8, <2>9, <2>10 DEF RecordsInv
<1> QED BY <1>3, <1>4 DEF Commit

LEMMA RecordsStillKeeps ==
  RecordsInv /\ UNCHANGED <<rows, changes, lock, save>> /\ listed' \in [Members -> SUBSET Approvals]
    /\ saveLeft' \in [SaveDisturbances -> Nat] => RecordsInv'
<1> SUFFICES ASSUME RecordsInv, UNCHANGED <<rows, changes, lock, save>>, listed' \in [Members -> SUBSET Approvals],
                    saveLeft' \in [SaveDisturbances -> Nat]
             PROVE  RecordsInv'
  OBVIOUS
<1>1. RecordsTypeOK' /\ changes' \in Seq(LogEntries) /\ RecordsTell'
  BY StillTells DEF RecordsInv, RecordsTypeOK
<1>2. ASSUME NEW s \in Saves PROVE HoldsItsRows(s)'
  <2>1. HoldsItsRows(s) /\ save[s].hit \subseteq Members
    BY SaveTyped DEF RecordsInv
  <2> QED BY <2>1, OthersHold
<1> QED BY <1>1, <1>2 DEF RecordsInv

LEMMA RecordsStepKeeps == RecordsInv /\ RecordsNext => RecordsInv'
<1> SUFFICES ASSUME RecordsInv, RecordsNext PROVE RecordsInv'
  OBVIOUS
<1>1. ASSUME NEW s \in Saves, Send(s) \/ SaveStep(s) PROVE RecordsInv'
  <2>1. ASSUME Abort(s) PROVE RecordsInv'
    <3>1. saveLeft' \in [SaveDisturbances -> Nat]
      BY <2>1 DEF Abort, RecordsInv, RecordsTypeOK
    <3> QED BY <2>1, <3>1, RollsBack DEF Abort
  <2> QED BY <1>1, <2>1, SendKeeps, ReadNoteKeeps, ReadApprovalsKeeps, LockNoteKeeps, InsertNoteKeeps,
             WriteKeeps, CommitKeeps DEF SaveStep
<1>2. ASSUME NEW m \in Members, ListedChanges(m) PROVE RecordsInv'
  <2>1. "roles" \in SaveDisturbances
    BY DEF SaveDisturbances
  <2>2. saveLeft' \in [SaveDisturbances -> Nat]
    BY <1>2, <2>1, MaySaveTyped DEF ListedChanges, RecordsInv, RecordsTypeOK
  <2>3. listed' \in [Members -> SUBSET Approvals]
    BY <1>2 DEF ListedChanges, RecordsInv, RecordsTypeOK
  <2> QED BY <1>2, <2>2, <2>3, RecordsStillKeeps DEF ListedChanges
<1> QED BY <1>1, <1>2 DEF RecordsNext

LEMMA RecordsInitInv == RecordsInit => RecordsInv
<1> SUFFICES ASSUME RecordsInit PROVE RecordsInv
  OBVIOUS
<1>1. RecordsTypeOK
  <2>1. saveLeft \in [SaveDisturbances -> Nat]
    BY RecordsAssumption DEF RecordsInit
  <2>2. listed \in [Members -> SUBSET Approvals]
    BY DEF RecordsInit
  <2> QED BY <2>1, <2>2, IdleIs DEF RecordsInit, RecordsTypeOK
<1>2. changes \in Seq(LogEntries) /\ DOMAIN changes = {} /\ Len(changes) = 0
  BY DEF RecordsInit
<1>3. RecordsTell
  BY <1>2 DEF RecordsInit, RecordsTell, Leaves, HasRow, NoRow
<1>4. ASSUME NEW s \in Saves PROVE HoldsItsRows(s)
  <2>1. save[s] = Idle /\ \A m \in Members : lock[m] # s
    BY RecordsAssumption DEF RecordsInit
  <2> QED BY <2>1, IdleIs DEF HoldsItsRows
<1> QED BY <1>1, <1>2, <1>3, <1>4 DEF RecordsInv

----------------------------------------------------------------------------
(* The commands (FoxholeCommands)                                          *)

(* What keeps PurgesTell.  A role a purge at work has made, and a role     *)
(* that stays: of each name there always is one that stays, and a purge    *)
(* that takes it has made a later one, or somebody else has since.         *)
Making(c) == command[c].at \in {"reapply", "undo"}
NameOf(i) == guild[i].name
Settled(i) == There(i) /\ \A c \in Runs : Making(c) => command[c].new # i
(* The name of the role at k of those a purge still has to do.             *)
NameAt(c, k) == command[c].names[k]

RunKeeps(c) ==
  /\ command[c].at \in {"resolve", "change"} => command[c].todo # <<>>
  /\ command[c].at = "resolve" => command[c].names # <<>>
  /\ command[c].at \in {"channels", "create", "reapply", "undo"} => command[c].ids # <<>>
  /\ command[c].at \in {"channels", "create", "reapply", "undo", "deliver"} => command[c].kind = "purge"
  /\ command[c].at = "none" => command[c].lines = {}
  /\ command[c].at \in {"none", "resolve"} => command[c].ids = <<>>
  /\ Len(command[c].ids) <= Len(command[c].names)
  /\ \A k \in 1 .. Len(command[c].ids) :
       /\ command[c].ids[k] <= made
       /\ There(command[c].ids[k]) => NameOf(command[c].ids[k]) = NameAt(c, k)
  /\ Making(c) =>
       /\ command[c].new \in RoleIds /\ command[c].new <= made
       /\ \A k \in 1 .. Len(command[c].ids) : command[c].ids[k] < command[c].new
       /\ There(command[c].new) => NameOf(command[c].new) = NameAt(c, 1)
OneStays(name) == \E i \in RoleIds : Settled(i) /\ NameOf(i) = name
LaterStays(c) == \E i \in RoleIds : Settled(i) /\ NameOf(i) = NameAt(c, 1) /\ i > command[c].new
NeverGone ==
  /\ \A i \in RoleIds : There(i) => i <= made
  /\ \A c, d \in Runs : Making(c) /\ Making(d) /\ c # d => command[c].new # command[d].new
  /\ \A name \in Range(RoleNames) : OneStays(name)
  /\ \A c \in Runs : Making(c) => There(command[c].new) \/ LaterStays(c)
(* A run has to answer for a role of that name: it says of one that it is  *)
(* not as it should be, or has one begun.                                  *)
Owes(r, name) ==
  /\ r.kind = "purge"
  /\ \/ \E outcome \in {"failed", "partial"} : <<name, outcome>> \in r.lines
     \/ r.new # NoRole /\ Head(r.names) = name
Blamed(name) == {c \in Runs : Owes(command[c], name)}
Counted == \A name \in Range(RoleNames) : Cardinality(WithName(name)) <= 1 + Cardinality(Blamed(name))
(* A purge has said nothing yet of the roles it still has to do, each of a *)
(* name of its own, and its operator is told all of what it says.          *)
Fresh(r) ==
  /\ \A k \in DOMAIN r.names : \A outcome \in Outcomes : <<r.names[k], outcome>> \notin r.lines
  /\ \A j, k \in DOMAIN r.names : r.names[j] = r.names[k] => j = k
Telling(r) ==
  /\ r.at \in {"none", "resolve", "channels"} => r.lines = {}
  /\ r.at \notin {"reapply", "undo", "told"} => r.new = NoRole
  /\ r.kind = "purge" /\ r.at \in {"resolve", "channels", "create", "reapply", "undo"} => Fresh(r)
  /\ r.kind = "purge" /\ r.at = "told" =>
       r.told = "lost" \/ (r.new = NoRole /\ (r.told \in {"summary", "channel"} \/ r.lines = {}))
CommandsInv ==
  CommandsTypeOK /\ (\A c \in Runs : RunKeeps(c) /\ Telling(command[c])) /\ NeverGone /\ Counted

RolesOK == [name : Range(RoleNames) \cup {NoName}, on : SUBSET Channels, held : SUBSET Range(Targets)]

LEMMA RunTyped ==
  ASSUME CommandsTypeOK, NEW c \in Runs
  PROVE  /\ command[c] \in RunStates /\ command[c].kind \in CommandDisturbances
         /\ command[c].names \in Seq(Range(RoleNames)) /\ command[c].ids \in Seq(RoleIds)
         /\ command[c].todo \in Seq(Range(Targets)) /\ command[c].over \in [RoleIds -> SUBSET Channels]
         /\ command[c].new \in RoleIds \cup {NoRole} /\ command[c].left \in SUBSET Channels
         /\ command[c].lines \in SUBSET ((Range(RoleNames) \cup Range(Targets)) \X Outcomes)
         /\ command[c].at \in {"none", "resolve", "change", "channels", "create", "reapply", "undo", "deliver", "told"}
BY DEF CommandsTypeOK, RunStates

LEMMA MayRunTyped ==
  ASSUME commandLeft \in [CommandDisturbances -> Nat], NEW k \in CommandDisturbances, MayRun(k)
  PROVE  commandLeft' \in [CommandDisturbances -> Nat]
BY DEF MayRun

LEMMA FaultTyped ==
  ASSUME CommandsTypeOK, Fault \/ UNCHANGED commandLeft
  PROVE  commandLeft' \in [CommandDisturbances -> Nat]
<1>1. "commandFault" \in CommandDisturbances
  BY DEF CommandDisturbances
<1> QED BY <1>1, MayRunTyped DEF Fault, CommandsTypeOK

(* A run keeps its part when the roles keep their names or go.             *)
LEMMA OthersKeep ==
  ASSUME NEW c, RunKeeps(c), command'[c] = command[c], made \in Nat, made' \in Nat, made <= made',
         command[c].ids \in Seq(RoleIds), RoleIds \subseteq Nat,
         \A i \in RoleIds : i <= made /\ There(i)' => There(i) /\ guild'[i].name = guild[i].name
  PROVE  RunKeeps(c)'
<1>1. \A k \in 1 .. Len(command[c].ids) : command[c].ids[k] \in RoleIds
  OBVIOUS
<1>2. \A k : NameAt(c, k)' = NameAt(c, k)
  BY DEF NameAt
<1>3. \A k \in 1 .. Len(command[c].ids) :
        /\ command[c].ids[k] <= made'
        /\ There(command[c].ids[k])' => guild'[command[c].ids[k]].name = NameAt(c, k)'
  <2> TAKE k \in 1 .. Len(command[c].ids)
  <2>1. PICK i \in RoleIds : i = command[c].ids[k]
    BY <1>1
  <2>2. i <= made /\ (There(i) => guild[i].name = NameAt(c, k))
    BY <2>1 DEF RunKeeps, NameOf
  <2>3. i \in Nat /\ i <= made'
    BY <2>2
  <2>4. There(i)' => guild'[i].name = NameAt(c, k)'
    BY <1>2, <2>2
  <2> QED BY <2>1, <2>3, <2>4 DEF There
<1>4. Making(c)' <=> Making(c)
  BY DEF Making
<1>5. Making(c) =>
        /\ command[c].new \in RoleIds /\ command[c].new <= made'
        /\ There(command[c].new)' => guild'[command[c].new].name = NameAt(c, 1)'
  <2> HAVE Making(c)
  <2>1. PICK i \in RoleIds : i = command[c].new
    BY DEF RunKeeps
  <2>2. i <= made /\ (There(i) => guild[i].name = NameAt(c, 1))
    <3>1. command[c].new <= made /\ (There(command[c].new) => NameOf(command[c].new) = NameAt(c, 1))
      BY DEF RunKeeps
    <3> QED BY <2>1, <3>1 DEF NameOf
  <2>3. i \in Nat /\ i <= made'
    <3>1. i \in Nat /\ i <= made
      BY <2>2
    <3> QED BY <3>1
  <2>4. There(i)' => guild'[i].name = NameAt(c, 1)'
    BY <1>2, <2>2
  <2> QED BY <2>1, <2>3, <2>4 DEF There
<1>6. /\ command[c].at \in {"resolve", "change"} => command[c].todo # <<>>
      /\ command[c].at = "resolve" => command[c].names # <<>>
      /\ command[c].at \in {"channels", "create", "reapply", "undo"} => command[c].ids # <<>>
      /\ command[c].at \in {"channels", "create", "reapply", "undo", "deliver"} => command[c].kind = "purge"
      /\ command[c].at = "none" => command[c].lines = {}
      /\ command[c].at \in {"none", "resolve"} => command[c].ids = <<>>
      /\ Len(command[c].ids) <= Len(command[c].names)
      /\ Making(c) => \A k \in 1 .. Len(command[c].ids) : command[c].ids[k] < command[c].new
  BY DEF RunKeeps
<1> QED BY <1>3, <1>4, <1>5, <1>6 DEF RunKeeps, There, NameOf

(* The end of one role leaves the run at the next, or at its summary.      *)
LEMMA DoneKeeps ==
  ASSUME CommandsTypeOK, NEW c \in Runs, RunKeeps(c), Telling(command[c]),
         command[c].at \in {"create", "reapply", "undo"},
         NEW outcome \in {"failed", "partial", "recreated"}, command'[c] = RoleDone(command[c], outcome),
         made \in Nat, made' \in Nat, made <= made', RoleIds \subseteq Nat,
         \A i \in RoleIds : i <= made /\ There(i)' => There(i) /\ guild'[i].name = guild[i].name
  PROVE  /\ RunKeeps(c)' /\ ~Making(c)' /\ command'[c] \in RunStates /\ Telling(command'[c])
         /\ \A name : Owes(command[c], name) /\ (outcome = "recreated" => name # NameAt(c, 1)) =>
                        Owes(command'[c], name)
         /\ outcome \in {"failed", "partial"} => Owes(command'[c], NameAt(c, 1))
<1>r. PICK r : r = command[c]
  OBVIOUS
<1>q. PICK q : q = command'[c]
  OBVIOUS
<1>0. q = RoleDone(r, outcome)
  BY <1>r, <1>q
<1>1. /\ r \in RunStates /\ r.ids \in Seq(RoleIds) /\ r.names \in Seq(Range(RoleNames)) /\ r.ids # <<>> /\ r.kind = "purge"
      /\ r.lines \in SUBSET ((Range(RoleNames) \cup Range(Targets)) \X Outcomes)
      /\ Len(r.ids) <= Len(r.names) /\ Fresh(r)
  BY <1>r, RunTyped DEF RunKeeps, Telling
<1>2. /\ Tail(r.ids) \in Seq(RoleIds) /\ Len(Tail(r.ids)) = Len(r.ids) - 1 /\ Head(r.ids) = r.ids[1] /\ r.ids[1] \in RoleIds
      /\ \A k \in 1 .. Len(r.ids) - 1 : Tail(r.ids)[k] = r.ids[k + 1]
      /\ Len(r.ids) \in Nat /\ Len(r.ids) # 0 /\ Len(r.names) \in Nat
  BY <1>1, HeadTailProperties, EmptySeq
<1>p. \A k \in 1 .. Len(r.ids) : r.ids[k] \in RoleIds
  BY <1>1
<1>n. r.names # <<>>
  <2>1. Len(r.names) # 0
    BY <1>1, <1>2
  <2>2. Len(<<>>) = 0
    OBVIOUS
  <2> QED BY <2>1, <2>2
<1>t. /\ Tail(r.names) \in Seq(Range(RoleNames)) /\ Len(Tail(r.names)) = Len(r.names) - 1 /\ Head(r.names) = r.names[1]
      /\ r.names[1] \in Range(RoleNames) /\ \A k \in 1 .. Len(r.names) - 1 : Tail(r.names)[k] = r.names[k + 1]
      /\ DOMAIN r.names = 1 .. Len(r.names) /\ DOMAIN Tail(r.names) = 1 .. Len(r.names) - 1
  <2>1. Tail(r.names) \in Seq(Range(RoleNames)) /\ Len(Tail(r.names)) = Len(r.names) - 1 /\ Head(r.names) = r.names[1]
        /\ r.names[1] \in Range(RoleNames) /\ \A k \in 1 .. Len(r.names) - 1 : Tail(r.names)[k] = r.names[k + 1]
    BY <1>1, <1>n, HeadTailProperties, EmptySeq
  <2>2. DOMAIN r.names = 1 .. Len(r.names) /\ DOMAIN Tail(r.names) = 1 .. Len(Tail(r.names))
    BY <1>1, <2>1, LenProperties
  <2> QED BY <2>1, <2>2
<1>3. /\ q.ids = Tail(r.ids) /\ q.names = Tail(r.names) /\ q.kind = r.kind /\ q.new = NoRole
      /\ q.lines = r.lines \cup {<<r.names[1], outcome>>} /\ q.at = IF Len(r.ids) = 1 THEN "deliver" ELSE "create"
  BY <1>0, <1>1, <1>2, <1>t DEF RoleDone, RunStates
<1>4. q \in RunStates
  <2>1. q.lines \in SUBSET ((Range(RoleNames) \cup Range(Targets)) \X Outcomes)
    BY <1>1, <1>t, <1>3 DEF Outcomes
  <2>2. q = [r EXCEPT !.lines = q.lines, !.ids = q.ids, !.names = q.names, !.new = NoRole, !.at = q.at]
    BY <1>0, <1>1, <1>2 DEF RoleDone, RunStates
  <2>3. q.at \in {"deliver", "create"} /\ q.ids \in Seq(RoleIds) /\ q.names \in Seq(Range(RoleNames))
    BY <1>2, <1>3, <1>t
  <2> QED BY <1>1, <2>1, <2>2, <2>3 DEF RunStates
<1>5. q.at = "create" => q.ids # <<>>
  <2>1. CASE Len(r.ids) = 1
    BY <1>3, <2>1
  <2>2. CASE Len(r.ids) # 1
    <3>1. Len(q.ids) # 0
      BY <1>2, <1>3, <2>2
    <3> QED BY <1>2, <1>3, <3>1, EmptySeq
  <2> QED BY <2>1, <2>2
<1>6. Len(q.ids) = Len(r.ids) - 1 /\ Len(q.names) = Len(r.names) - 1
  BY <1>2, <1>3, <1>t
<1>7. ASSUME NEW k \in 1 .. Len(q.ids)
      PROVE  q.ids[k] <= made' /\ (There(q.ids[k])' => guild'[q.ids[k]].name = q.names[k])
  <2>1. k + 1 \in 1 .. Len(r.ids) /\ q.ids[k] = r.ids[k + 1]
    BY <1>2, <1>3, <1>6
  <2>2. PICK i \in RoleIds : i = r.ids[k + 1]
    BY <1>2, <1>p, <2>1
  <2>3. i <= made /\ (There(i) => guild[i].name = r.names[k + 1])
    BY <1>r, <2>1, <2>2 DEF RunKeeps, NameOf, NameAt
  <2>4. q.names[k] = r.names[k + 1]
    <3>1. k \in 1 .. Len(r.names) - 1
      BY <1>1, <1>2, <1>6
    <3> QED BY <1>3, <1>t, <3>1
  <2>5. There(i)' => guild'[i].name = q.names[k]
    BY <2>3, <2>4
  <2>6. i \in Nat /\ i <= made'
    <3>1. i \in Nat /\ i <= made
      BY <2>2, <2>3
    <3> QED BY <3>1
  <2> QED BY <2>1, <2>2, <2>5, <2>6 DEF There
<1>8. Len(q.ids) <= Len(q.names)
  BY <1>1, <1>2, <1>6
<1>9. ~Making(c)'
  BY <1>3, <1>q DEF Making
<1>10. \A k : NameAt(c, k)' = q.names[k]
  BY <1>q DEF NameAt
<1>11. \A k \in 1 .. Len(q.ids) :
         q.ids[k] <= made' /\ (There(q.ids[k])' => NameOf(q.ids[k])' = NameAt(c, k)')
  BY <1>7, <1>10 DEF NameOf
<1>12. q.at \in {"create", "deliver"}
  BY <1>3
<1>13. RunKeeps(c)'
  BY <1>1, <1>3, <1>5, <1>8, <1>9, <1>11, <1>12, <1>q DEF RunKeeps
<1>14. Telling(q)
  <2>1. ASSUME NEW k \in DOMAIN q.names
        PROVE  /\ k + 1 \in DOMAIN r.names /\ 1 \in DOMAIN r.names /\ k + 1 # 1 /\ q.names[k] = r.names[k + 1] /\ k \in Int
    BY <1>1, <1>2, <1>3, <1>t, <2>1
  <2>2. ASSUME NEW k \in DOMAIN q.names, NEW o \in Outcomes PROVE <<q.names[k], o>> \notin q.lines
    <3>1. <<r.names[k + 1], o>> \notin r.lines /\ r.names[k + 1] # r.names[1]
      BY <1>1, <2>1 DEF Fresh
    <3> QED BY <1>3, <2>1, <3>1
  <2>3. ASSUME NEW j \in DOMAIN q.names, NEW k \in DOMAIN q.names, q.names[j] = q.names[k] PROVE j = k
    <3>1. j + 1 = k + 1
      BY <1>1, <2>1, <2>3 DEF Fresh
    <3> QED BY <2>1, <3>1
  <2>4. Fresh(q)
    BY <2>2, <2>3 DEF Fresh
  <2> QED BY <1>3, <1>12, <2>4 DEF Telling
<1>15. outcome \in {"failed", "partial"} => Owes(q, r.names[1])
  BY <1>1, <1>3 DEF Owes
<1>16. ASSUME NEW name, Owes(r, name), outcome = "recreated" => name # r.names[1] PROVE Owes(q, name)
  <2>1. CASE \E o \in {"failed", "partial"} : <<name, o>> \in r.lines
    BY <1>1, <1>3, <2>1 DEF Owes
  <2>2. CASE r.new # NoRole /\ Head(r.names) = name
    <3>1. name = r.names[1] /\ outcome \in {"failed", "partial"}
      BY <1>16, <1>t, <2>2
    <3> QED BY <1>15, <3>1
  <2> QED BY <1>16, <2>1, <2>2 DEF Owes
<1> QED BY <1>4, <1>9, <1>13, <1>14, <1>15, <1>16, <1>q, <1>r DEF NameAt

(* The roles of a name and the runs that answer for them, counted: when    *)
(* none is new and none stops answering; when one goes with the run that   *)
(* answers for it; when one is new with a run that did not answer before.  *)
LEMMA RolesFinite ==
  ASSUME NEW name
  PROVE  IsFiniteSet(WithName(name)) /\ Cardinality(WithName(name)) \in Nat
<1>1. WithName(name) \subseteq RoleIds
  BY DEF WithName
<1> QED BY <1>1, CommandsAssumption, FS_Subset, FS_CardinalityType

LEMMA BlamedFinite ==
  ASSUME NEW name
  PROVE  IsFiniteSet(Blamed(name)) /\ Cardinality(Blamed(name)) \in Nat
<1>1. Blamed(name) \subseteq Runs
  BY DEF Blamed
<1> QED BY <1>1, CommandsAssumption, FS_Subset, FS_CardinalityType

LEMMA RunsFinite ==
  ASSUME NEW S, S \subseteq Runs
  PROVE  IsFiniteSet(S) /\ Cardinality(S) \in Nat
BY CommandsAssumption, FS_Subset, FS_CardinalityType

LEMMA IdsFinite ==
  ASSUME NEW S, S \subseteq RoleIds
  PROVE  IsFiniteSet(S) /\ Cardinality(S) \in Nat
BY CommandsAssumption, FS_Subset, FS_CardinalityType

LEMMA NoMore ==
  ASSUME NEW W, NEW V, NEW B, NEW D, W \subseteq RoleIds, V \subseteq W, D \subseteq Runs, B \subseteq D,
         Cardinality(W) <= 1 + Cardinality(B)
  PROVE  Cardinality(V) <= 1 + Cardinality(D)
<1>1. V \subseteq RoleIds /\ B \subseteq Runs
  OBVIOUS
<1>2. /\ IsFiniteSet(W) /\ IsFiniteSet(D) /\ Cardinality(W) \in Nat /\ Cardinality(V) \in Nat
      /\ Cardinality(B) \in Nat /\ Cardinality(D) \in Nat
  BY <1>1, RunsFinite, IdsFinite
<1>3. Cardinality(V) <= Cardinality(W) /\ Cardinality(B) <= Cardinality(D)
  BY <1>2, FS_Subset
<1> QED BY <1>2, <1>3

LEMMA OneLess ==
  ASSUME NEW W, NEW B, NEW D, NEW i \in W, NEW c, W \subseteq RoleIds, B \subseteq Runs, D \subseteq Runs,
         B \ {c} \subseteq D, Cardinality(W) <= 1 + Cardinality(B)
  PROVE  Cardinality(W \ {i}) <= 1 + Cardinality(D)
<1>1. B \ {c} \subseteq Runs
  OBVIOUS
<1>2. /\ IsFiniteSet(W) /\ IsFiniteSet(B) /\ IsFiniteSet(D) /\ Cardinality(W) \in Nat
      /\ Cardinality(B) \in Nat /\ Cardinality(D) \in Nat /\ Cardinality(B \ {c}) \in Nat
  BY <1>1, RunsFinite, IdsFinite
<1>3. Cardinality(W \ {i}) = Cardinality(W) - 1
  BY <1>2, FS_RemoveElement
<1>4. Cardinality(B \ {c}) >= Cardinality(B) - 1
  <2>1. CASE c \in B
    <3>1. Cardinality(B \ {c}) = Cardinality(B) - 1
      BY <1>2, <2>1, FS_RemoveElement
    <3> QED BY <1>2, <3>1
  <2>2. CASE c \notin B
    <3>1. B \ {c} = B
      BY <2>2
    <3>2. Cardinality(B \ {c}) = Cardinality(B)
      BY <3>1
    <3> QED BY <1>2, <3>2
  <2> QED BY <2>1, <2>2
<1>5. Cardinality(B \ {c}) <= Cardinality(D)
  BY <1>2, FS_Subset
<1> QED BY <1>2, <1>3, <1>4, <1>5

LEMMA OneMore ==
  ASSUME NEW W \in SUBSET RoleIds, NEW V \in SUBSET RoleIds, NEW B \in SUBSET Runs, NEW D \in SUBSET Runs,
         NEW i \in RoleIds, NEW c \in Runs, V \subseteq W \cup {i}, c \notin B, B \cup {c} \subseteq D,
         Cardinality(W) <= 1 + Cardinality(B)
  PROVE  Cardinality(V) <= 1 + Cardinality(D)
<1>1. /\ IsFiniteSet(W) /\ IsFiniteSet(B) /\ IsFiniteSet(D) /\ Cardinality(W) \in Nat /\ IsFiniteSet(V)
      /\ Cardinality(B) \in Nat /\ Cardinality(D) \in Nat /\ Cardinality(V) \in Nat
  BY RunsFinite, IdsFinite
<1>2. IsFiniteSet(W \cup {i}) /\ Cardinality(W \cup {i}) <= Cardinality(W) + 1
  <2>1. IsFiniteSet(W \cup {i}) /\ Cardinality(W \cup {i}) = IF i \in W THEN Cardinality(W) ELSE Cardinality(W) + 1
    BY <1>1, FS_AddElement
  <2> QED BY <1>1, <2>1
<1>3. Cardinality(V) <= Cardinality(W \cup {i}) /\ Cardinality(W \cup {i}) \in Nat
  BY <1>2, FS_Subset, FS_CardinalityType
<1>4. Cardinality(B \cup {c}) = Cardinality(B) + 1
  BY <1>1, FS_AddElement
<1>5. Cardinality(B \cup {c}) <= Cardinality(D)
  BY <1>1, FS_Subset
<1> QED BY <1>1, <1>2, <1>3, <1>4, <1>5

LEMMA CountKeeps ==
  ASSUME Counted, \A name \in Range(RoleNames) : WithName(name)' \subseteq WithName(name) /\ Blamed(name) \subseteq Blamed(name)'
  PROVE  Counted'
<1> SUFFICES ASSUME NEW name \in Range(RoleNames)
             PROVE  Cardinality(WithName(name)') <= 1 + Cardinality(Blamed(name)')
  BY DEF Counted
<1>1. /\ WithName(name) \subseteq RoleIds /\ Blamed(name)' \subseteq Runs
      /\ WithName(name)' \subseteq WithName(name) /\ Blamed(name) \subseteq Blamed(name)'
      /\ Cardinality(WithName(name)) <= 1 + Cardinality(Blamed(name))
  BY DEF WithName, Blamed, Counted
<1> HIDE DEF WithName, Blamed
<1> QED BY <1>1, NoMore

(* A run that takes a step beside the roles' names and the roles at work.  *)
LEMMA SameRoles ==
  ASSUME CommandsInv, NEW c \in Runs, NEW r \in RunStates, Steps(c, r),
         guild' \in [RoleIds -> RolesOK], \A i \in RoleIds : guild'[i].name = guild[i].name,
         made' = made, pageRuns' \in BOOLEAN,
         commandLeft' \in [CommandDisturbances -> Nat], \A name : Owes(command[c], name) => Owes(r, name),
         r.at \in {"reapply", "undo"} <=> Making(c),
         Making(c) => r.new = command[c].new /\ r.ids = command[c].ids /\ r.names = command[c].names,
         RunKeeps(c)', Telling(r)
  PROVE  CommandsInv'
<1>1. command \in [Runs -> RunStates] /\ made \in RoleIds /\ RoleIds \subseteq Nat
  BY CommandsAssumption DEF CommandsInv, CommandsTypeOK
<1>2. /\ command' \in [Runs -> RunStates] /\ command'[c] = r
      /\ \A d \in Runs : d # c => command'[d] = command[d]
  BY <1>1 DEF Steps
<1>3. CommandsTypeOK'
  BY <1>1, <1>2 DEF CommandsTypeOK, RolesOK
<1>4. \A i \in RoleIds : (There(i)' <=> There(i)) /\ NameOf(i)' = NameOf(i)
  BY DEF There, NameOf
<1>5. ASSUME NEW d \in Runs
      PROVE  /\ Making(d)' <=> Making(d)
             /\ Making(d) => /\ command'[d].new = command[d].new /\ command'[d].ids = command[d].ids
                             /\ NameAt(d, 1)' = NameAt(d, 1)
  BY <1>2 DEF Making, NameAt
<1>6. ASSUME NEW d \in Runs PROVE RunKeeps(d)' /\ Telling(command[d])'
  <2>1. CASE d = c
    BY <1>2, <2>1
  <2>2. CASE d # c
    <3>1. RunKeeps(d) /\ command[d].ids \in Seq(RoleIds) /\ command'[d] = command[d] /\ made \in Nat /\ made' \in Nat
          /\ made <= made' /\ Telling(command[d])
      BY <1>1, <1>2, <2>2, RunTyped DEF CommandsInv
    <3>2. \A i \in RoleIds : i <= made /\ There(i)' => There(i) /\ guild'[i].name = guild[i].name
      BY <1>4
    <3>3. RunKeeps(d)'
      BY <1>1, <3>1, <3>2, OthersKeep
    <3> QED BY <3>1, <3>3
  <2> QED BY <2>1, <2>2
<1>7. \A i \in RoleIds : Settled(i)' <=> Settled(i)
  BY <1>4, <1>5 DEF Settled
<1>8. NeverGone'
  <2>0. NeverGone
    BY DEF CommandsInv
  <2>1. \A i \in RoleIds : There(i)' => i <= made'
    BY <1>4, <2>0 DEF NeverGone
  <2>2. \A d, e \in Runs : Making(d)' /\ Making(e)' /\ d # e => command'[d].new # command'[e].new
    BY <1>5, <2>0 DEF NeverGone
  <2>3. \A name \in Range(RoleNames) : OneStays(name)'
    BY <1>4, <1>7, <2>0 DEF NeverGone, OneStays
  <2>4. ASSUME NEW d \in Runs, Making(d)' PROVE There(command[d].new)' \/ LaterStays(d)'
    <3>1. Making(d) /\ command'[d].new = command[d].new /\ NameAt(d, 1)' = NameAt(d, 1) /\ command[d].new \in RoleIds
      BY <1>5, <2>4 DEF CommandsInv, RunKeeps
    <3>2. There(command[d].new) \/ LaterStays(d)
      BY <2>0, <3>1 DEF NeverGone
    <3>3. There(command[d].new) => guild'[command'[d].new].name # NoName
      BY <1>4, <3>1 DEF There
    <3>4. LaterStays(d) => LaterStays(d)'
      BY <1>4, <1>7, <3>1 DEF LaterStays
    <3> QED BY <3>2, <3>3, <3>4 DEF There
  <2> QED BY <2>1, <2>2, <2>3, <2>4 DEF NeverGone
<1>9. Counted'
  <2>1. ASSUME NEW name \in Range(RoleNames)
        PROVE  WithName(name)' \subseteq WithName(name) /\ Blamed(name) \subseteq Blamed(name)'
    <3>1. \A d \in Runs : Owes(command[d], name) => Owes(command'[d], name)
      BY <1>2
    <3>2. \A d \in Runs : Owes(command[d], name)' <=> Owes(command'[d], name)
      BY DEF Owes
    <3> QED BY <1>4, <3>1, <3>2 DEF WithName, Blamed, NameOf
  <2> QED BY <2>1, CountKeeps DEF CommandsInv
<1> QED BY <1>3, <1>6, <1>8, <1>9 DEF CommandsInv

(* The next state's types, from those of the run's.                        *)
LEMMA CommandFacts ==
  ASSUME CommandsInv, NEW c \in Runs
  PROVE  /\ CommandsTypeOK /\ command[c] \in RunStates /\ RunKeeps(c)
         /\ guild \in [RoleIds -> RolesOK] /\ made \in RoleIds /\ made \in Nat /\ RoleIds \subseteq Nat
         /\ pageRuns \in BOOLEAN /\ Telling(command[c])
         /\ commandLeft \in [CommandDisturbances -> Nat] /\ command \in [Runs -> RunStates]
BY RunTyped, CommandsAssumption DEF CommandsInv, CommandsTypeOK, RolesOK

(* A run's part is kept by a step of its own beside its roles.             *)
LEMMA ReplyKeeps ==
  ASSUME CommandsInv, NEW c \in Runs, ~Making(c), NEW way \in Endings,
         command[c].kind = "purge" =>
           way = "lost" \/ (command[c].new = NoRole /\ (way \in {"summary", "channel"} \/ command[c].lines = {})),
         Quietly(c, Replies(command[c], way)), commandLeft' \in [CommandDisturbances -> Nat]
  PROVE  CommandsInv'
<1>1. PICK r : r = Replies(command[c], way)
  OBVIOUS
<1>2. /\ r \in RunStates /\ r.at = "told" /\ r.lines = command[c].lines /\ r.ids = command[c].ids
      /\ r.names = command[c].names /\ r.kind = command[c].kind /\ r.new = command[c].new /\ r.told = way
  BY ZenonT(60), <1>1, RunTyped DEF CommandsInv, Replies, RunStates
<1>3. command'[c] = r /\ Steps(c, r)
  BY <1>1, <1>2, CommandFacts DEF Quietly, Steps
<1>4. UNCHANGED <<guild, made, pageRuns>>
  BY DEF Quietly, Still
<1>5. RunKeeps(c)'
  <2>1. ~Making(c)' /\ \A k : NameAt(c, k)' = NameAt(c, k)
    BY <1>2, <1>3 DEF Making, NameAt
  <2>2. \A i : (There(i)' <=> There(i)) /\ NameOf(i)' = NameOf(i)
    BY <1>4 DEF There, NameOf
  <2>3. RunKeeps(c)
    BY CommandFacts
  <2> QED BY <1>2, <1>3, <1>4, <2>1, <2>2, <2>3 DEF RunKeeps
<1>6. r.at \in {"reapply", "undo"} <=> Making(c)
  BY <1>2
<1>7. Telling(r)
  BY <1>2 DEF Telling
<1>8. \A name : Owes(command[c], name) => Owes(r, name)
  BY <1>2 DEF Owes
<1> QED BY <1>2, <1>3, <1>4, <1>5, <1>6, <1>7, <1>8, CommandFacts, SameRoles

LEMMA RestingIs ==
  /\ Resting \in RunStates /\ Resting.at = "none" /\ Resting.ids = <<>> /\ Resting.lines = {}
  /\ Resting.new = NoRole /\ Resting.kind = "add"
<1>1. /\ <<>> \in Seq(Range(RoleNames)) /\ <<>> \in Seq(RoleIds) /\ <<>> \in Seq(Range(Targets))
  BY EmptySeq
<1>2. [i \in RoleIds |-> {}] \in [RoleIds -> SUBSET Channels]
  OBVIOUS
<1>3. "add" \in CommandDisturbances
  BY DEF CommandDisturbances
<1>4. /\ {} \in SUBSET ((Range(RoleNames) \cup Range(Targets)) \X Outcomes)
      /\ {} \in SUBSET Channels
      /\ NoRole \in RoleIds \cup {NoRole}
      /\ "nothing" \in Endings
  <2>1. {} \in SUBSET ((Range(RoleNames) \cup Range(Targets)) \X Outcomes)
    OBVIOUS
  <2>2. {} \in SUBSET Channels
    OBVIOUS
  <2>3. NoRole \in RoleIds \cup {NoRole}
    OBVIOUS
  <2>4. "nothing" \in Endings
    BY DEF Endings
  <2> QED BY <2>1, <2>2, <2>3, <2>4
<1>5. DEFINE f == [i \in RoleIds |-> {}]
<1>6. f \in [RoleIds -> SUBSET Channels]
  BY <1>2
<1>7. Resting = [at |-> "none", kind |-> "add", names |-> <<>>, ids |-> <<>>, todo |-> <<>>,
            over |-> f, new |-> NoRole, left |-> {}, lines |-> {}, told |-> "nothing"]
  BY DEF Resting
<1> HIDE DEF f
<1> QED BY <1>1, <1>3, <1>4, <1>6, <1>7 DEF RunStates

LEMMA InvokeKeeps == ASSUME CommandsInv, NEW c \in Runs, Invoke(c) PROVE CommandsInv'
<1>1. PICK kind \in CommandDisturbances \ {"commandFault", "pages", "crash"}, scope \in Range(RoleNames) \cup {"both"} :
        LET run == [Resting EXCEPT !.kind = kind,
                  !.names = IF kind = "roster" THEN <<RoleNames[1]>> ELSE Scoped(scope),
                  !.todo = IF Alone(kind) THEN <<Head(Targets)>> ELSE Targets]
    IN /\ command[c].at = "none" /\ MayRun(kind) /\ UNCHANGED <<guild, made, pageRuns>>
       /\ Steps(c, IF pageRuns THEN Replies(run, "refused") ELSE [run EXCEPT !.at = "resolve"])
  BY DEF Invoke
<1>2. PICK names : names = IF kind = "roster" THEN <<RoleNames[1]>> ELSE Scoped(scope)
  OBVIOUS
<1>3. PICK todo : todo = IF Alone(kind) THEN <<Head(Targets)>> ELSE Targets
  OBVIOUS
<1>4. names \in Seq(Range(RoleNames))
  <2>1. RoleNames \in Seq(Range(RoleNames)) /\ RoleNames[1] \in Range(RoleNames)
    BY CommandsAssumption DEF Range
  <2> QED BY <1>2, <2>1 DEF Scoped
<1>n. names # <<>>
  <2>1. Len(names) # 0
    <3>1. Len(RoleNames) = 2 /\ Len(<<scope>>) = 1 /\ Len(<<RoleNames[1]>>) = 1
      BY CommandsAssumption
    <3>2. names = RoleNames \/ names = <<scope>> \/ names = <<RoleNames[1]>>
      BY <1>2 DEF Scoped
    <3> QED BY <3>1, <3>2
  <2>2. Len(<<>>) = 0
    OBVIOUS
  <2> QED BY <2>1, <2>2
<1>m. \A j, k \in DOMAIN names : names[j] = names[k] => j = k
  <2>1. DOMAIN RoleNames = 1 .. 2 /\ RoleNames[1] # RoleNames[2]
    BY CommandsAssumption, LenProperties
  <2>2. CASE names = RoleNames
    <3>1. \A j \in DOMAIN names : j = 1 \/ j = 2
      BY <2>1, <2>2
    <3> QED BY <2>1, <2>2, <3>1
  <2>3. CASE names = <<scope>> \/ names = <<RoleNames[1]>>
    <3>1. \A j \in DOMAIN names : j = 1
      BY <2>3
    <3> QED BY <3>1
  <2> QED BY <1>2, <2>2, <2>3 DEF Scoped
<1>5. todo \in Seq(Range(Targets)) /\ todo # <<>>
  BY <1>3, CommandsAssumption, HeadTailProperties
<1>6. PICK r : r = IF pageRuns THEN Replies([Resting EXCEPT !.kind = kind, !.names = names, !.todo = todo], "refused")
                   ELSE [[Resting EXCEPT !.kind = kind, !.names = names, !.todo = todo] EXCEPT !.at = "resolve"]
  OBVIOUS
<1>7. /\ r \in RunStates /\ r.at = (IF pageRuns THEN "told" ELSE "resolve") /\ r.kind = kind
      /\ r.lines = {} /\ r.ids = <<>> /\ r.todo = todo /\ r.names = names /\ r.new = NoRole
  <2>1. PICK q : q = [Resting EXCEPT !.kind = kind, !.names = names, !.todo = todo]
    OBVIOUS
  <2>2. /\ q.at = "none" /\ q.kind = kind /\ q.names = names /\ q.ids = <<>> /\ q.todo = todo /\ q.lines = {}
        /\ q.new = NoRole
        /\ q \in RunStates
    BY <1>4, <1>5, <2>1, RestingIs DEF RunStates
  <2>3. r = [q EXCEPT !.at = "told", !.told = "refused"] \/ r = [q EXCEPT !.at = "resolve"]
    BY <1>6, <2>1 DEF Replies
  <2>4. CASE pageRuns
    <3>1. r = [q EXCEPT !.at = "told", !.told = "refused"]
      BY <1>6, <2>1, <2>4 DEF Replies
    <3>2. r \in RunStates
      BY <2>2, <3>1 DEF RunStates, Endings
    <3>3. r.at = "told" /\ r.kind = kind /\ r.lines = {} /\ r.ids = <<>> /\ r.todo = todo /\ r.names = names
          /\ r.new = NoRole
      BY <2>2, <3>1 DEF RunStates
    <3> QED BY <2>4, <3>2, <3>3
  <2>5. CASE ~pageRuns
    <3>1. r = [q EXCEPT !.at = "resolve"]
      BY <1>6, <2>1, <2>5
    <3> QED BY <2>2, <2>5, <3>1 DEF RunStates
  <2> QED BY <2>4, <2>5
<1>8. Steps(c, r) /\ UNCHANGED <<guild, made, pageRuns>> /\ command[c].at = "none" /\ MayRun(kind)
  BY <1>1, <1>2, <1>3, <1>6, Zenon
<1>9. command'[c] = r /\ ~Making(c) /\ ~Making(c)' /\ command[c].lines = {}
  BY <1>7, <1>8, CommandFacts DEF Steps, Making, RunKeeps
<1>10. commandLeft' \in [CommandDisturbances -> Nat]
  BY <1>8, CommandFacts, MayRunTyped
<1>11. r.names \in Seq(Range(RoleNames)) /\ Len(r.ids) <= Len(r.names) /\ \A k \in 1 .. Len(r.ids) : FALSE
  BY <1>7 DEF RunStates
<1>12. RunKeeps(c)'
  BY <1>5, <1>7, <1>9, <1>11, <1>n DEF RunKeeps
<1>13. Telling(r)
  BY <1>7, <1>m DEF Telling, Fresh
<1>14. \A name : ~Owes(command[c], name)
  BY <1>8, <1>9, CommandFacts DEF Owes, Telling
<1>15. r.at \in {"reapply", "undo"} <=> Making(c)
  BY <1>7, <1>9
<1> QED BY <1>7, <1>8, <1>9, <1>10, <1>12, <1>13, <1>14, <1>15, CommandFacts, SameRoles

(* A run that makes no role keeps its part by any step that leaves its     *)
(* roles to do and the roles' names alone.                                 *)
LEMMA PlainKeeps ==
  ASSUME CommandsInv, NEW c \in Runs, ~Making(c), HoldsRule(c),
         NEW r \in RunStates, Steps(c, r), r.at \in {"change", "channels", "create", "deliver", "told"},
         r.ids = command[c].ids, r.names = command[c].names, r.kind = command[c].kind, r.new = command[c].new,
         command[c].lines \subseteq r.lines, Telling(r),
         r.at = "change" => r.todo # <<>>,
         r.at \in {"channels", "create"} => r.ids # <<>>,
         r.at \in {"channels", "create", "deliver"} => r.kind = "purge",
         guild' \in [RoleIds -> RolesOK], \A i \in RoleIds : guild'[i].name = guild[i].name,
         Still, commandLeft' \in [CommandDisturbances -> Nat]
  PROVE  CommandsInv'
<1>1. command'[c] = r /\ UNCHANGED <<made, pageRuns>>
  BY CommandFacts DEF Steps, Still
<1>2. ~Making(c)' /\ \A k : NameAt(c, k)' = NameAt(c, k)
  BY <1>1 DEF Making, NameAt
<1>3. /\ RunKeeps(c) /\ command[c].ids \in Seq(RoleIds)
      /\ \A k \in 1 .. Len(command[c].ids) : command[c].ids[k] \in RoleIds
  BY CommandFacts, RunTyped
<1>4. \A k \in 1 .. Len(r.ids) : /\ r.ids[k] <= made'
                                 /\ guild'[r.ids[k]].name # NoName => guild'[r.ids[k]].name = NameAt(c, k)'
  BY <1>1, <1>2, <1>3 DEF RunKeeps, There, NameOf
<1>5. RunKeeps(c)'
  <2>1. Len(r.ids) <= Len(r.names)
    BY <1>3 DEF RunKeeps
  <2> QED BY <1>1, <1>2, <1>4, <2>1 DEF RunKeeps, There, NameOf
<1>6. r.at \in {"reapply", "undo"} <=> Making(c)
  OBVIOUS
<1>7. \A name : Owes(command[c], name) => Owes(r, name)
  BY DEF Owes
<1> QED BY <1>1, <1>5, <1>6, <1>7, CommandFacts, SameRoles

LEMMA AckKeeps == ASSUME CommandsInv, NEW c \in Runs, AckFails(c) PROVE CommandsInv'
<1>1. ~Making(c)
  BY DEF AckFails, Making
<1>2. commandLeft' \in [CommandDisturbances -> Nat]
  BY CommandFacts, FaultTyped DEF AckFails
<1>3. "no start" \in Endings
  BY DEF Endings
<1>4. command[c].new = NoRole /\ command[c].lines = {}
  BY CommandFacts DEF AckFails, Telling
<1> QED BY <1>1, <1>2, <1>3, <1>4, ReplyKeeps DEF AckFails

LEMMA DeliverKeeps == ASSUME CommandsInv, NEW c \in Runs, Deliver(c) PROVE CommandsInv'
<1>1. ~Making(c)
  BY DEF Deliver, Making
<1>2. PICK way \in {"summary", "channel", "lost"} :
        Quietly(c, Replies(command[c], way)) /\ (Fault \/ UNCHANGED commandLeft)
  BY DEF Deliver
<1>3. commandLeft' \in [CommandDisturbances -> Nat]
  BY <1>2, CommandFacts, FaultTyped
<1>4. way \in Endings
  BY DEF Endings
<1>5. command[c].new = NoRole
  BY CommandFacts DEF Deliver, Telling
<1> QED BY <1>1, <1>2, <1>3, <1>4, <1>5, ReplyKeeps

LEMMA ReadOverwritesKeeps == ASSUME CommandsInv, NEW c \in Runs, ReadChannels(c) PROVE CommandsInv'
<1>1. ~Making(c) /\ HoldsRule(c) /\ command[c].at = "channels"
  BY DEF ReadChannels, Making, HoldsRule
<1>2. commandLeft' \in [CommandDisturbances -> Nat]
  BY CommandFacts, FaultTyped DEF ReadChannels
<1>t. command[c].new = NoRole /\ command[c].lines = {} /\ command[c].kind = "purge" /\ Fresh(command[c])
  BY <1>1, CommandFacts DEF Telling, RunKeeps
<1>3. CASE Quietly(c, Replies(command[c], "Discord error"))
  <2>1. "Discord error" \in Endings
    BY DEF Endings
  <2> QED BY <1>1, <1>2, <1>3, <1>t, <2>1, ReplyKeeps
<1>4. CASE Quietly(c, [command[c] EXCEPT !.at = "create", !.over = [i \in RoleIds |-> guild[i].on]])
  <2>1. PICK r : r = [command[c] EXCEPT !.at = "create", !.over = [i \in RoleIds |-> guild[i].on]]
    OBVIOUS
  <2>2. [i \in RoleIds |-> guild[i].on] \in [RoleIds -> SUBSET Channels]
    BY CommandFacts DEF RolesOK
  <2>3. /\ r \in RunStates /\ r.at = "create" /\ r.ids = command[c].ids /\ r.names = command[c].names
        /\ r.kind = command[c].kind /\ r.lines = command[c].lines /\ r.new = command[c].new
    BY ZenonT(60), <2>1, <2>2, CommandFacts DEF RunStates
  <2>4. command[c].ids # <<>> /\ command[c].kind = "purge"
    BY <1>1, CommandFacts DEF RunKeeps
  <2>5. Steps(c, r) /\ UNCHANGED guild /\ Still
    BY <1>4, <2>1 DEF Quietly
  <2>6. Telling(r)
    BY <1>t, <2>3 DEF Telling, Fresh
  <2> QED BY <1>1, <1>2, <2>3, <2>4, <2>5, <2>6, CommandFacts, PlainKeeps
<1> QED BY <1>3, <1>4 DEF ReadChannels

LEMMA ResolveKeeps == ASSUME CommandsInv, NEW c \in Runs, Resolve(c) PROVE CommandsInv'
<1>1. ~Making(c) /\ HoldsRule(c) /\ command[c].at = "resolve"
  BY DEF Resolve, Making, HoldsRule
<1>2. commandLeft' \in [CommandDisturbances -> Nat]
  BY CommandFacts, FaultTyped DEF Resolve
<1>t. command[c].new = NoRole /\ command[c].lines = {} /\ (command[c].kind = "purge" => Fresh(command[c]))
  BY <1>1, CommandFacts DEF Telling
<1>3. ASSUME NEW way \in {"too many", "no role", "Discord error"}, Quietly(c, Replies(command[c], way))
      PROVE  CommandsInv'
  <2>1. way \in Endings
    BY DEF Endings
  <2> QED BY <1>1, <1>2, <1>3, <1>t, <2>1, ReplyKeeps
<1>4. ASSUME NEW ids \in [DOMAIN command[c].names -> RoleIds],
             \A k \in DOMAIN ids : ids[k] \in WithName(command[c].names[k]),
             Quietly(c, [command[c] EXCEPT !.at = IF command[c].kind = "purge" THEN "channels" ELSE "change",
                                       !.ids = ids])
      PROVE  CommandsInv'
  <2>1. PICK r : r = [command[c] EXCEPT !.at = IF command[c].kind = "purge" THEN "channels" ELSE "change",
                                       !.ids = ids]
    OBVIOUS
  <2>2. PICK n \in Nat : n = Len(command[c].names) /\ DOMAIN command[c].names = 1 .. n
    BY CommandFacts, RunTyped, LenProperties
  <2>3. ids \in [1 .. n -> RoleIds]
    BY <1>4, <2>2
  <2>4. ids \in Seq(RoleIds)
    BY <2>3, SeqDef
  <2>5. Len(ids) = n
    <3>1. DOMAIN ids = 1 .. n /\ DOMAIN ids = 1 .. Len(ids) /\ Len(ids) \in Nat
      BY <2>3, <2>4, LenProperties
    <3> QED BY <3>1
  <2>6. /\ r \in RunStates /\ r.at = (IF r.kind = "purge" THEN "channels" ELSE "change") /\ r.ids = ids
        /\ r.names = command[c].names /\ r.kind = command[c].kind /\ r.lines = command[c].lines
        /\ r.todo = command[c].todo /\ r.new = command[c].new
    BY ZenonT(60), <2>1, <2>4, CommandFacts DEF RunStates
  <2>7. ids # <<>> /\ r.todo # <<>>
    <3>1. command[c].names # <<>> /\ command[c].todo # <<>>
      BY <1>1, CommandFacts DEF RunKeeps
    <3>2. n # 0
      BY <2>2, <3>1, CommandFacts, RunTyped, EmptySeq
    <3>3. Len(<<>>) = 0
      OBVIOUS
    <3> QED BY <2>5, <2>6, <3>1, <3>2, <3>3
  <2>8. Steps(c, r) /\ command'[c] = r /\ UNCHANGED <<guild, made, pageRuns>>
    BY <1>4, <2>1, CommandFacts DEF Quietly, Still, Steps
  <2>9. ASSUME NEW k \in 1 .. n
        PROVE  ids[k] \in RoleIds /\ There(ids[k]) /\ ids[k] <= made /\ guild[ids[k]].name = command[c].names[k]
    <3>1. ids[k] \in RoleIds /\ guild[ids[k]].name = command[c].names[k]
      BY <1>4, <2>3 DEF WithName
    <3>2. command[c].names[k] \in Range(RoleNames)
      BY <2>2, CommandFacts, RunTyped
    <3>3. There(ids[k])
      BY <3>1, <3>2, CommandsAssumption DEF There
    <3> QED BY <3>1, <3>3 DEF CommandsInv, NeverGone
  <2>10. \A k \in 1 .. n : NameAt(c, k)' = command[c].names[k]
    BY <2>6, <2>8 DEF NameAt
  <2>11. RunKeeps(c)'
    <3>1. \A k \in 1 .. Len(r.ids) :
            /\ r.ids[k] <= made'
            /\ guild'[r.ids[k]].name # NoName => guild'[r.ids[k]].name = NameAt(c, k)'
      BY <2>5, <2>6, <2>8, <2>9, <2>10
    <3>2. Len(r.ids) <= Len(r.names)
      BY <2>2, <2>5, <2>6
    <3>3. r.at \in {"change", "channels"} /\ ~Making(c)' /\ (r.at = "channels" => r.kind = "purge")
      BY <2>6, <2>8 DEF Making
    <3>4. /\ command'[c] = r /\ r.ids # <<>> /\ r.todo # <<>>
      BY <2>6, <2>7, <2>8
    <3>5. \A k \in 1 .. Len(command'[c].ids) :
            /\ command'[c].ids[k] <= made'
            /\ There(command[c].ids[k])' => NameOf(command[c].ids[k])' = NameAt(c, k)'
      <4> TAKE k \in 1 .. Len(command'[c].ids)
      <4>1. k \in 1 .. Len(r.ids)
        BY <3>4
      <4>2. /\ r.ids[k] <= made'
            /\ guild'[r.ids[k]].name # NoName => guild'[r.ids[k]].name = NameAt(c, k)'
        BY <3>1, <4>1
      <4>3. command'[c].ids[k] = r.ids[k]
        BY <3>4
      <4> QED BY <4>2, <4>3 DEF There, NameOf
    <3>6. /\ command'[c].at \in {"change", "channels"}
          /\ command'[c].at = "channels" => command'[c].kind = "purge"
          /\ Len(command'[c].ids) <= Len(command'[c].names)
      BY <3>2, <3>3, <3>4
    <3> QED BY <3>3, <3>4, <3>5, <3>6 DEF RunKeeps
  <2>12. r.at \in {"reapply", "undo"} <=> Making(c)
    BY <1>1, <2>6
  <2>13. Telling(r)
    BY <1>t, <2>6 DEF Telling, Fresh
  <2>14. \A name : Owes(command[c], name) => Owes(r, name)
    BY <2>6 DEF Owes
  <2>15. Making(c) => r.new = command[c].new /\ r.ids = command[c].ids /\ r.names = command[c].names
    BY <1>1
  <2> QED BY <1>2, <2>6, <2>8, <2>11, <2>12, <2>13, <2>14, <2>15, CommandFacts, SameRoles
<1> QED BY <1>3, <1>4 DEF Resolve

LEMMA ChangeKeeps == ASSUME CommandsInv, NEW c \in Runs, Change(c) PROVE CommandsInv'
<1>1. ~Making(c) /\ HoldsRule(c) /\ command[c].at = "change" /\ Still
  BY DEF Change, Making, HoldsRule
<1>2. PICK m : m = Head(command[c].todo)
  OBVIOUS
<1>3. PICK S \in SUBSET {i \in Range(command[c].ids) : There(i)}, fails \in SUBSET (DOMAIN command[c].ids) :
        /\ Fault \/ UNCHANGED commandLeft
        /\ guild' = [i \in RoleIds |-> IF i \notin S THEN guild[i]
                            ELSE [guild[i] EXCEPT !.held = IF command[c].kind = "remove" THEN @ \ {m}
                                                          ELSE @ \cup {m}]]
        /\ LET next == [command[c] EXCEPT !.lines = @ \cup {Listed(m, fails)}, !.todo = Tail(@)]
           IN Steps(c, IF next.todo = <<>> THEN Replies(next, "summary") ELSE next)
  <2>0. PICK S \in SUBSET {i \in Range(command[c].ids) : There(i)} : \E heard \in SUBSET S :
          LET r == command[c]
              before(k) == {r.ids[j] : j \in 1 .. k - 1}
              fails == {k \in DOMAIN r.ids :
                          r.ids[k] \notin heard /\ (Alone(r.kind) => before(k) \subseteq heard)}
              next == [r EXCEPT !.lines = @ \cup {Listed(Head(r.todo), fails)}, !.todo = Tail(@)]
          IN /\ Alone(r.kind) => \A k \in DOMAIN r.ids : r.ids[k] \in S => before(k) \subseteq heard
             /\ IF \E k \in fails : There(r.ids[k]) THEN Fault ELSE UNCHANGED commandLeft
             /\ guild' = [i \in RoleIds |-> IF i \notin S THEN guild[i]
                            ELSE [guild[i] EXCEPT !.held = IF r.kind = "remove" THEN @ \ {Head(r.todo)}
                                                          ELSE @ \cup {Head(r.todo)}]]
             /\ Steps(c, IF next.todo = <<>> THEN Replies(next, "summary") ELSE next)
    BY Zenon DEF Change
  <2>1. PICK heard \in SUBSET S :
          LET r == command[c]
              before(k) == {r.ids[j] : j \in 1 .. k - 1}
              fails == {k \in DOMAIN r.ids :
                          r.ids[k] \notin heard /\ (Alone(r.kind) => before(k) \subseteq heard)}
              next == [r EXCEPT !.lines = @ \cup {Listed(Head(r.todo), fails)}, !.todo = Tail(@)]
          IN /\ Alone(r.kind) => \A k \in DOMAIN r.ids : r.ids[k] \in S => before(k) \subseteq heard
             /\ IF \E k \in fails : There(r.ids[k]) THEN Fault ELSE UNCHANGED commandLeft
             /\ guild' = [i \in RoleIds |-> IF i \notin S THEN guild[i]
                            ELSE [guild[i] EXCEPT !.held = IF r.kind = "remove" THEN @ \ {Head(r.todo)}
                                                          ELSE @ \cup {Head(r.todo)}]]
             /\ Steps(c, IF next.todo = <<>> THEN Replies(next, "summary") ELSE next)
    BY <2>0, Zenon
  <2>2. PICK fails : fails = {k \in DOMAIN command[c].ids : command[c].ids[k] \notin heard
             /\ (Alone(command[c].kind) => {command[c].ids[j] : j \in 1 .. k - 1} \subseteq heard)}
    OBVIOUS
  <2>3. Fault \/ UNCHANGED commandLeft
    BY <2>1, Zenon
  <2>4. guild' = [i \in RoleIds |-> IF i \notin S THEN guild[i]
                            ELSE [guild[i] EXCEPT !.held = IF command[c].kind = "remove" THEN @ \ {m}
                                                          ELSE @ \cup {m}]]
    BY <1>2, <2>1, Zenon
  <2>5. LET next == [command[c] EXCEPT !.lines = @ \cup {Listed(m, fails)}, !.todo = Tail(@)]
        IN Steps(c, IF next.todo = <<>> THEN Replies(next, "summary") ELSE next)
    BY <1>2, <2>1, <2>2, Zenon
  <2>6. fails \in SUBSET (DOMAIN command[c].ids)
    BY <2>2
  <2> QED BY <2>3, <2>4, <2>5, <2>6, ZenonT(60)
<1>4. commandLeft' \in [CommandDisturbances -> Nat]
  BY <1>3, CommandFacts, FaultTyped
<1>5. /\ m \in Range(Targets) /\ Tail(command[c].todo) \in Seq(Range(Targets))
  <2>1. command[c].todo # <<>>
    BY <1>1, CommandFacts DEF RunKeeps
  <2> QED BY <1>2, <2>1, CommandFacts, RunTyped, HeadTailProperties
<1>6. PICK next : next = [command[c] EXCEPT !.lines = @ \cup {Listed(m, fails)}, !.todo = Tail(@)]
  OBVIOUS
<1>7. /\ next \in RunStates /\ next.at = "change" /\ next.ids = command[c].ids /\ next.names = command[c].names
      /\ next.kind = command[c].kind /\ next.lines = command[c].lines \cup {Listed(m, fails)}
      /\ next.new = command[c].new
  <2>1. Listed(m, fails) \in (Range(RoleNames) \cup Range(Targets)) \X Outcomes
    BY <1>5 DEF Listed, Outcomes
  <2>2. command[c].lines \cup {Listed(m, fails)} \in SUBSET ((Range(RoleNames) \cup Range(Targets)) \X Outcomes)
    BY <2>1, RunTyped, CommandFacts
  <2>3. PICK l : l = Listed(m, fails)
    OBVIOUS
  <2> QED BY ZenonT(60), <1>1, <1>5, <1>6, <2>2, <2>3, CommandFacts DEF RunStates
<1>8. PICK r : r = IF next.todo = <<>> THEN Replies(next, "summary") ELSE next
  OBVIOUS
<1>9. /\ r \in RunStates /\ r.at \in {"change", "told"} /\ r.ids = command[c].ids /\ r.names = command[c].names
      /\ r.kind = command[c].kind /\ command[c].lines \subseteq r.lines /\ (r.at = "change" => r.todo # <<>>)
      /\ r.new = command[c].new /\ (r.at = "told" => r.told = "summary")
  <2>1. "summary" \in Endings
    BY DEF Endings
  <2>2. CASE next.todo = <<>>
    <3>1. r = [next EXCEPT !.at = "told", !.told = "summary"]
      BY <1>8, <2>2 DEF Replies
    <3> QED BY <1>7, <2>1, <3>1 DEF RunStates
  <2>3. CASE next.todo # <<>>
    BY <1>7, <1>8, <2>3
  <2> QED BY <2>2, <2>3
<1>10. Steps(c, r)
  BY <1>3, <1>6, <1>8
<1>11. guild' \in [RoleIds -> RolesOK] /\ \A i \in RoleIds : guild'[i].name = guild[i].name
  <2> DEFINE G(i) == IF i \notin S THEN guild[i]
                            ELSE [guild[i] EXCEPT !.held = IF command[c].kind = "remove" THEN @ \ {m}
                                                          ELSE @ \cup {m}]
  <2>1. ASSUME NEW i \in RoleIds PROVE G(i) \in RolesOK /\ G(i).name = guild[i].name
    <3>1. guild[i] \in RolesOK
      BY CommandFacts
    <3>2. guild[i].held \ {m} \in SUBSET Range(Targets) /\ guild[i].held \cup {m} \in SUBSET Range(Targets)
      BY <1>5, <3>1 DEF RolesOK
    <3> QED BY <3>1, <3>2 DEF RolesOK
  <2>2. guild' = [i \in RoleIds |-> G(i)]
    BY <1>3
  <2> HIDE DEF G
  <2> QED BY <2>1, <2>2
<1>12. Telling(r)
  <2>1. command[c].new = NoRole
    BY <1>1, CommandFacts DEF Telling
  <2> QED BY <1>9, <2>1 DEF Telling
<1> QED BY <1>1, <1>4, <1>9, <1>10, <1>11, <1>12, PlainKeeps

(* A run that is making a role goes on making it.                          *)
LEMMA ReapplyKeeps == ASSUME CommandsInv, NEW c \in Runs, Reapply(c) PROVE CommandsInv'
<1>1. /\ Making(c) /\ command[c].at = "reapply" /\ Still /\ command[c].kind = "purge" /\ command[c].ids # <<>>
      /\ command[c].new \in RoleIds
  BY CommandFacts DEF Reapply, Making, RunKeeps
<1>2. commandLeft' \in [CommandDisturbances -> Nat]
  BY CommandFacts, FaultTyped DEF Reapply
<1>3. PICK r \in RunStates :
        /\ Steps(c, r) /\ r.at \in {"reapply", "undo"} /\ r.new = command[c].new /\ r.ids = command[c].ids
        /\ r.names = command[c].names /\ r.kind = command[c].kind /\ r.lines = command[c].lines
  <2>1. CASE \E ch \in command[c].left : Steps(c, [command[c] EXCEPT !.left = @ \ {ch}])
    <3>1. PICK ch \in command[c].left : Steps(c, [command[c] EXCEPT !.left = @ \ {ch}])
      BY <2>1
    <3>2. PICK r : r = [command[c] EXCEPT !.left = @ \ {ch}]
      OBVIOUS
    <3>3. command[c].left \ {ch} \in SUBSET Channels
      BY CommandFacts, RunTyped
    <3>4. r \in RunStates /\ r.at = "reapply" /\ r.new = command[c].new /\ r.ids = command[c].ids
          /\ r.names = command[c].names /\ r.kind = command[c].kind /\ r.lines = command[c].lines
      BY ZenonT(60), <1>1, <3>2, <3>3, CommandFacts DEF RunStates
    <3> QED BY <3>1, <3>2, <3>4
  <2>2. CASE Steps(c, [command[c] EXCEPT !.at = "undo"])
    <3>2. PICK r : r = [command[c] EXCEPT !.at = "undo"]
      OBVIOUS
    <3>4. r \in RunStates /\ r.at = "undo" /\ r.new = command[c].new /\ r.ids = command[c].ids
          /\ r.names = command[c].names /\ r.kind = command[c].kind /\ r.lines = command[c].lines
      BY ZenonT(60), <1>1, <3>2, CommandFacts DEF RunStates
    <3> QED BY <2>2, <3>2, <3>4
  <2> QED BY <2>1, <2>2 DEF Reapply
<1>4. guild' \in [RoleIds -> RolesOK] /\ \A i \in RoleIds : guild'[i].name = guild[i].name
  <2>1. CASE guild' = guild
    BY <2>1, CommandFacts
  <2>2. CASE \E ch \in command[c].left : guild' = [guild EXCEPT ![command[c].new].on = @ \cup {ch}]
    <3>1. PICK ch \in command[c].left : guild' = [guild EXCEPT ![command[c].new].on = @ \cup {ch}]
      BY <2>2
    <3>2. PICK n \in RoleIds : n = command[c].new
      BY <1>1
    <3>3. guild[n] \in RolesOK /\ guild[n].on \cup {ch} \in SUBSET Channels
      BY CommandFacts, RunTyped DEF RolesOK
    <3>4. PICK g : g = [guild[n] EXCEPT !.on = @ \cup {ch}]
      OBVIOUS
    <3>5. g \in RolesOK /\ g.name = guild[n].name
      BY <3>3, <3>4 DEF RolesOK
    <3>6. guild' = [guild EXCEPT ![n] = g]
      BY <3>1, <3>2, <3>4
    <3> QED BY <3>5, <3>6, CommandFacts
  <2> QED BY <2>1, <2>2 DEF Reapply
<1>5. command'[c] = r /\ UNCHANGED <<made, pageRuns>>
  BY <1>1, <1>3, CommandFacts DEF Steps, Still
<1>6. RunKeeps(c)'
  <2>1. RunKeeps(c) /\ \A k \in 1 .. Len(command[c].ids) : command[c].ids[k] \in RoleIds
    BY CommandFacts, RunTyped
  <2>2. \A k : NameAt(c, k)' = NameAt(c, k)
    BY <1>3, <1>5 DEF NameAt
  <2>3. \A i \in RoleIds : (There(i)' <=> There(i)) /\ NameOf(i)' = NameOf(i)
    BY <1>4 DEF There, NameOf
  <2>4. \A k \in 1 .. Len(command[c].ids) :
          /\ command[c].ids[k] <= made'
          /\ There(r.ids[k])' => NameOf(r.ids[k])' = NameAt(c, k)'
          /\ command[c].ids[k] < command[c].new
    BY <1>1, <1>3, <1>5, <2>1, <2>2, <2>3 DEF RunKeeps
  <2>5. command[c].new \in RoleIds /\ command[c].new <= made' /\ (There(r.new)' => NameOf(r.new)' = NameAt(c, 1)')
    BY <1>1, <1>3, <1>5, <2>1, <2>2, <2>3 DEF RunKeeps
  <2>6. Making(c)' /\ Len(r.ids) <= Len(r.names)
    BY <1>3, <1>5, <2>1 DEF Making, RunKeeps
  <2> QED BY <1>1, <1>3, <1>5, <2>4, <2>5, <2>6 DEF RunKeeps, There, NameOf
<1>7. Telling(r)
  BY <1>1, <1>3, CommandFacts DEF Telling, Fresh
<1>8. r.at \in {"reapply", "undo"} <=> Making(c)
  BY <1>1, <1>3
<1>9. Making(c) => r.new = command[c].new /\ r.ids = command[c].ids /\ r.names = command[c].names
  BY <1>3
<1>10. \A name : Owes(command[c], name) => Owes(r, name)
  BY <1>3 DEF Owes
<1>11. Steps(c, r) /\ made' = made /\ pageRuns' \in BOOLEAN
  BY <1>3, <1>5, CommandFacts
<1> QED BY <1>2, <1>4, <1>6, <1>7, <1>8, <1>9, <1>10, <1>11, CommandFacts, SameRoles

(* A role that cannot be made is passed over.                              *)
LEMMA NotMadeKeeps ==
  ASSUME CommandsInv, NEW c \in Runs, command[c].at = "create", Quietly(c, RoleDone(command[c], "failed")),
         commandLeft' \in [CommandDisturbances -> Nat]
  PROVE  CommandsInv'
<1>1. PICK r : r = RoleDone(command[c], "failed")
  OBVIOUS
<1>2. UNCHANGED <<guild, made, pageRuns>> /\ command'[c] = r /\ Steps(c, r)
  BY <1>1, CommandFacts DEF Quietly, Still, Steps
<1>4. \A i \in RoleIds : There(i)' => There(i) /\ guild'[i].name = guild[i].name
  BY <1>2 DEF There
<1>5. /\ RunKeeps(c)' /\ ~Making(c)' /\ r \in RunStates /\ Telling(r) /\ \A name : Owes(command[c], name) => Owes(r, name)
  BY <1>1, <1>2, <1>4, CommandFacts, DoneKeeps
<1>6. ~Making(c) /\ r.at \notin {"reapply", "undo"}
  BY <1>2, <1>5 DEF Making
<1>8. guild' \in [RoleIds -> RolesOK] /\ \A i \in RoleIds : guild'[i].name = guild[i].name
  BY <1>2, CommandFacts
<1> QED BY <1>2, <1>5, <1>6, <1>8, CommandFacts, SameRoles

(* What every end of a making has in common.  The roles that stay: all     *)
(* that did, but for the one that goes.                                    *)
EndsMaking(c, r) ==
  /\ r \in RunStates /\ Steps(c, r) /\ command'[c] = r /\ ~Making(c)' /\ RunKeeps(c)' /\ Telling(r)
  /\ UNCHANGED <<made, pageRuns>> /\ commandLeft' \in [CommandDisturbances -> Nat]

LEMMA EndFacts ==
  ASSUME CommandsInv, NEW c \in Runs, Making(c), NEW r, EndsMaking(c, r),
         NEW gone \in RoleIds, guild' \in {guild, [guild EXCEPT ![gone] = Gone]}
  PROVE  /\ CommandsTypeOK' /\ (\A d \in Runs : RunKeeps(d)' /\ Telling(command[d])')
         /\ \A i \in RoleIds : There(i)' => There(i) /\ NameOf(i)' = NameOf(i)
         /\ \A i \in RoleIds \ {gone} : (There(i)' <=> There(i)) /\ NameOf(i)' = NameOf(i)
         /\ \A d \in Runs \ {c} : command'[d] = command[d] /\ (Making(d)' <=> Making(d)) /\ NameAt(d, 1)' = NameAt(d, 1)
         /\ \A i \in RoleIds : Settled(i) /\ There(i)' => Settled(i)'
         /\ command'[c] = r
<1>1. command \in [Runs -> RunStates] /\ made \in RoleIds /\ RoleIds \subseteq Nat /\ r \in RunStates /\ command'[c] = r
  BY CommandFacts DEF EndsMaking
<1>2. command' \in [Runs -> RunStates] /\ \A d \in Runs : d # c => command'[d] = command[d]
  BY <1>1 DEF EndsMaking, Steps
<1>3. Gone \in RolesOK
  BY DEF Gone, RolesOK
<1>4. guild' \in [RoleIds -> RolesOK]
  BY <1>3, CommandFacts
<1>5. CommandsTypeOK'
  BY <1>1, <1>2, <1>4, CommandFacts DEF EndsMaking, CommandsTypeOK, RolesOK
<1>6. \A i \in RoleIds \ {gone} : guild'[i] = guild[i]
  BY CommandFacts
<1>7. guild'[gone] = guild[gone] \/ guild'[gone].name = NoName
  BY CommandFacts DEF Gone
<1>8. \A i \in RoleIds : There(i)' => There(i) /\ guild'[i].name = guild[i].name
  BY <1>6, <1>7 DEF There
<1>9. ASSUME NEW d \in Runs PROVE RunKeeps(d)' /\ Telling(command[d])'
  <2>1. CASE d = c
    BY <2>1 DEF EndsMaking
  <2>2. CASE d # c
    <3>1. /\ RunKeeps(d) /\ command'[d] = command[d] /\ made \in Nat /\ made' \in Nat /\ made <= made'
          /\ command[d].ids \in Seq(RoleIds) /\ RoleIds \subseteq Nat /\ Telling(command[d])
      BY <1>2, <2>2, CommandFacts, RunTyped DEF EndsMaking
    <3>2. RunKeeps(d)'
      BY <1>8, <3>1, OthersKeep
    <3> QED BY <3>1, <3>2
  <2> QED BY <2>1, <2>2
<1>10. \A d \in Runs \ {c} : command'[d] = command[d] /\ (Making(d)' <=> Making(d)) /\ NameAt(d, 1)' = NameAt(d, 1)
  BY <1>2 DEF Making, NameAt
<1>11. \A i \in RoleIds : Settled(i) /\ There(i)' => Settled(i)'
  <2> SUFFICES ASSUME NEW i \in RoleIds, Settled(i), There(i)', NEW d \in Runs, Making(d)' PROVE command'[d].new # i
    BY DEF Settled
  <2>1. d # c
    BY DEF EndsMaking
  <2> QED BY <1>10, <2>1 DEF Settled
<1>12. \A i \in RoleIds \ {gone} : (There(i)' <=> There(i)) /\ NameOf(i)' = NameOf(i)
  BY <1>6 DEF There, NameOf
<1>13. \A i \in RoleIds : There(i)' => There(i) /\ NameOf(i)' = NameOf(i)
  BY <1>8 DEF NameOf
<1> QED BY <1>1, <1>5, <1>9, <1>10, <1>11, <1>12, <1>13

(* A making that ends with nothing deleted leaves a run that answers.      *)
LEMMA TraceKeeps ==
  ASSUME CommandsInv, NEW c \in Runs, Making(c), NEW r, EndsMaking(c, r), UNCHANGED guild,
         \A name : Owes(command[c], name) => Owes(r, name)
  PROVE  CommandsInv'
<1>0. PICK gone \in RoleIds : TRUE
  BY CommandFacts
<1>1. /\ CommandsTypeOK' /\ (\A d \in Runs : RunKeeps(d)' /\ Telling(command[d])')
      /\ \A d \in Runs \ {c} : command'[d] = command[d] /\ (Making(d)' <=> Making(d)) /\ NameAt(d, 1)' = NameAt(d, 1)
      /\ \A i \in RoleIds : Settled(i) /\ There(i)' => Settled(i)'
      /\ command'[c] = r
  BY EndFacts
<1>2. \A i : (There(i)' <=> There(i)) /\ NameOf(i)' = NameOf(i)
  BY DEF There, NameOf
<1>3. ~Making(c)' /\ UNCHANGED made
  BY DEF EndsMaking
<1>4. \A i \in RoleIds : Settled(i) => Settled(i)'
  BY <1>1, <1>2 DEF Settled
<1>5. NeverGone'
  <2>0. NeverGone
    BY DEF CommandsInv
  <2>1. \A i \in RoleIds : There(i)' => i <= made'
    BY <1>2, <1>3, <2>0 DEF NeverGone
  <2>2. \A d, e \in Runs : Making(d)' /\ Making(e)' /\ d # e => command'[d].new # command'[e].new
    BY <1>1, <1>3, <2>0 DEF NeverGone
  <2>3. \A name \in Range(RoleNames) : OneStays(name)'
    BY <1>2, <1>4, <2>0 DEF NeverGone, OneStays
  <2>4. ASSUME NEW d \in Runs, Making(d)' PROVE There(command[d].new)' \/ LaterStays(d)'
    <3>1. d # c /\ command'[d] = command[d] /\ Making(d) /\ NameAt(d, 1)' = NameAt(d, 1)
      BY <1>1, <1>3, <2>4
    <3>2. There(command[d].new) \/ LaterStays(d)
      BY <2>0, <3>1 DEF NeverGone
    <3>3. LaterStays(d) => LaterStays(d)'
      BY <1>2, <1>4, <3>1 DEF LaterStays
    <3>4. There(command[d].new) => There(command[d].new)'
      BY <1>2, <3>1 DEF There
    <3> QED BY <3>2, <3>3, <3>4
  <2> QED BY <2>1, <2>2, <2>3, <2>4 DEF NeverGone
<1>6. Counted'
  <2>1. ASSUME NEW name \in Range(RoleNames)
        PROVE  WithName(name)' \subseteq WithName(name) /\ Blamed(name) \subseteq Blamed(name)'
    <3>1. \A d \in Runs : Owes(command[d], name) => Owes(command'[d], name)
      BY <1>1
    <3>2. \A d \in Runs : Owes(command[d], name)' <=> Owes(command'[d], name)
      BY DEF Owes
    <3>3. name # NoName
      BY CommandsAssumption
    <3>4. WithName(name)' \subseteq WithName(name)
      BY <1>2, <3>3 DEF WithName, There, NameOf
    <3>5. Blamed(name) \subseteq Blamed(name)'
      BY <3>1, <3>2 DEF Blamed
    <3> QED BY <3>4, <3>5
  <2> QED BY <2>1, CountKeeps DEF CommandsInv
<1> QED BY <1>1, <1>5, <1>6 DEF CommandsInv

(* The new role of a making that is undone goes.                           *)
LEMMA UndoneKeeps ==
  ASSUME CommandsInv, NEW c \in Runs, Making(c), NEW r, EndsMaking(c, r), \A name : Owes(command[c], name) => Owes(r, name),
         guild' = [guild EXCEPT ![command[c].new] = Gone]
  PROVE  CommandsInv'
<1>0. PICK gone \in RoleIds : gone = command[c].new
  BY CommandFacts DEF RunKeeps
<1>1. /\ CommandsTypeOK' /\ (\A d \in Runs : RunKeeps(d)' /\ Telling(command[d])')
      /\ \A i \in RoleIds : There(i)' => There(i) /\ NameOf(i)' = NameOf(i)
      /\ \A i \in RoleIds \ {gone} : (There(i)' <=> There(i)) /\ NameOf(i)' = NameOf(i)
      /\ \A d \in Runs \ {c} : command'[d] = command[d] /\ (Making(d)' <=> Making(d)) /\ NameAt(d, 1)' = NameAt(d, 1)
      /\ \A i \in RoleIds : Settled(i) /\ There(i)' => Settled(i)'
      /\ command'[c] = r
  BY <1>0, EndFacts
<1>2. ~Making(c)' /\ UNCHANGED made
  BY DEF EndsMaking
<1>3. ~There(gone)'
  BY <1>0, CommandFacts DEF There, Gone
<1>4. \A i \in RoleIds : Settled(i) => i # gone /\ There(i)' /\ Settled(i)' /\ NameOf(i)' = NameOf(i)
  BY <1>0, <1>1 DEF Settled
<1>5. NeverGone'
  <2>0. NeverGone
    BY DEF CommandsInv
  <2>1. \A i \in RoleIds : There(i)' => i <= made'
    BY <1>1, <1>2, <2>0 DEF NeverGone
  <2>2. \A d, e \in Runs : Making(d)' /\ Making(e)' /\ d # e => command'[d].new # command'[e].new
    BY <1>1, <1>2, <2>0 DEF NeverGone
  <2>3. \A name \in Range(RoleNames) : OneStays(name)'
    BY <1>4, <2>0 DEF NeverGone, OneStays
  <2>4. ASSUME NEW d \in Runs, Making(d)' PROVE There(command[d].new)' \/ LaterStays(d)'
    <3>1. d # c /\ command'[d] = command[d] /\ Making(d) /\ NameAt(d, 1)' = NameAt(d, 1)
      BY <1>1, <1>2, <2>4
    <3>2. (There(command[d].new) \/ LaterStays(d)) /\ command[d].new # gone /\ command[d].new \in RoleIds
      BY <1>0, <2>0, <3>1, CommandFacts DEF NeverGone, RunKeeps
    <3>3. LaterStays(d) => LaterStays(d)'
      BY <1>4, <3>1 DEF LaterStays
    <3>4. There(command[d].new) => There(command[d].new)'
      BY <1>1, <3>1, <3>2 DEF There
    <3> QED BY <3>2, <3>3, <3>4
  <2> QED BY <2>1, <2>2, <2>3, <2>4 DEF NeverGone
<1>6. Counted'
  <2>1. ASSUME NEW name \in Range(RoleNames)
        PROVE  WithName(name)' \subseteq WithName(name) /\ Blamed(name) \subseteq Blamed(name)'
    <3>1. \A d \in Runs : Owes(command[d], name) => Owes(command'[d], name)
      BY <1>1
    <3>2. \A d \in Runs : Owes(command[d], name)' <=> Owes(command'[d], name)
      BY DEF Owes
    <3>3. name # NoName
      BY CommandsAssumption
    <3>4. WithName(name)' \subseteq WithName(name)
      BY <1>1, <3>3 DEF WithName, There, NameOf
    <3>5. Blamed(name) \subseteq Blamed(name)'
      BY <3>1, <3>2 DEF Blamed
    <3> QED BY <3>4, <3>5
  <2> QED BY <2>1, CountKeeps DEF CommandsInv
<1> QED BY <1>1, <1>5, <1>6 DEF CommandsInv

(* The old role goes, and the new one or a later one stays for it.         *)
LEMMA MadeKeeps ==
  ASSUME CommandsInv, NEW c \in Runs, Making(c), NEW r, EndsMaking(c, r),
         \A name : Owes(command[c], name) /\ name # NameAt(c, 1) => Owes(r, name),
         There(command[c].ids[1]), guild' = [guild EXCEPT ![command[c].ids[1]] = Gone]
  PROVE  CommandsInv'
<1>k. command[c].ids # <<>> /\ command[c].ids \in Seq(RoleIds) /\ RunKeeps(c) /\ command[c].at \in {"reapply", "undo"}
  BY CommandFacts, RunTyped DEF RunKeeps, Making
<1>l. 1 \in 1 .. Len(command[c].ids)
  BY <1>k, EmptySeq
<1>0. PICK old \in RoleIds : old = command[c].ids[1]
  BY <1>k, <1>l
<1>n. PICK new \in RoleIds : new = command[c].new
  BY <1>k DEF RunKeeps
<1>m. /\ There(old) /\ NameOf(old) = NameAt(c, 1) /\ old < new /\ old <= made /\ (There(new) => NameOf(new) = NameAt(c, 1))
  BY <1>0, <1>k, <1>l, <1>n DEF RunKeeps
<1>i. old \in Nat /\ new \in Nat /\ RoleIds \subseteq Nat
  BY CommandFacts
<1>1. /\ CommandsTypeOK' /\ (\A d \in Runs : RunKeeps(d)' /\ Telling(command[d])')
      /\ \A i \in RoleIds : There(i)' => There(i) /\ NameOf(i)' = NameOf(i)
      /\ \A i \in RoleIds \ {old} : (There(i)' <=> There(i)) /\ NameOf(i)' = NameOf(i)
      /\ \A d \in Runs \ {c} : command'[d] = command[d] /\ (Making(d)' <=> Making(d)) /\ NameAt(d, 1)' = NameAt(d, 1)
      /\ \A i \in RoleIds : Settled(i) /\ There(i)' => Settled(i)'
      /\ command'[c] = r
  <2>1. guild' \in {guild, [guild EXCEPT ![old] = Gone]}
    BY <1>0
  <2> QED BY <2>1, EndFacts
<1>2. ~Making(c)' /\ UNCHANGED made
  BY DEF EndsMaking
<1>3. ~There(old)'
  BY <1>0, CommandFacts DEF There, Gone
<1>4. \A i \in RoleIds : Settled(i) /\ i # old => There(i)' /\ Settled(i)' /\ NameOf(i)' = NameOf(i)
  BY <1>1 DEF Settled
<1>5. PICK s \in RoleIds : Settled(s)' /\ NameOf(s)' = NameOf(old) /\ s > old
  <2>1. There(new) \/ LaterStays(c)
    BY <1>n DEF CommandsInv, NeverGone
  <2>2. CASE There(new)
    <3>1. There(new)' /\ NameOf(new)' = NameOf(old) /\ new > old
      BY <1>1, <1>m, <1>i, <2>2
    <3>2. ASSUME NEW d \in Runs, Making(d)' PROVE command'[d].new # new
      <4>1. d # c /\ Making(d) /\ command'[d] = command[d]
        BY <1>1, <1>2, <3>2
      <4> QED BY <1>n, <4>1 DEF CommandsInv, NeverGone
    <3>3. Settled(new)'
      BY <3>1, <3>2 DEF Settled
    <3> QED BY <3>1, <3>3
  <2>3. CASE LaterStays(c)
    <3>1. PICK i \in RoleIds : Settled(i) /\ NameOf(i) = NameAt(c, 1) /\ i > new
      BY <1>n, <2>3 DEF LaterStays
    <3>2. i \in Nat /\ i > old /\ i # old
      BY <1>i, <1>m, <3>1
    <3> QED BY <1>4, <1>m, <3>1, <3>2
  <2> QED BY <2>1, <2>2, <2>3
<1>6. NeverGone'
  <2>0. NeverGone
    BY DEF CommandsInv
  <2>1. \A i \in RoleIds : There(i)' => i <= made'
    BY <1>1, <1>2, <2>0 DEF NeverGone
  <2>2. \A d, e \in Runs : Making(d)' /\ Making(e)' /\ d # e => command'[d].new # command'[e].new
    BY <1>1, <1>2, <2>0 DEF NeverGone
  <2>3. ASSUME NEW name \in Range(RoleNames) PROVE OneStays(name)'
    <3>1. PICK i \in RoleIds : Settled(i) /\ NameOf(i) = name
      BY <2>0 DEF NeverGone, OneStays
    <3>2. \E k \in RoleIds : Settled(k)' /\ NameOf(k)' = name
      BY <1>4, <1>5, <3>1
    <3> QED BY <3>2 DEF OneStays
  <2>4. ASSUME NEW d \in Runs, Making(d)' PROVE There(command[d].new)' \/ LaterStays(d)'
    <3>1. d # c /\ command'[d] = command[d] /\ Making(d) /\ NameAt(d, 1)' = NameAt(d, 1)
      BY <1>1, <1>2, <2>4
    <3>n. PICK n \in RoleIds : n = command[d].new /\ n \in Nat
      BY <1>i, <3>1, CommandFacts DEF RunKeeps
    <3>2. There(n) \/ \E i \in RoleIds : Settled(i) /\ NameOf(i) = NameAt(d, 1) /\ i > n
      BY <2>0, <3>1, <3>n DEF NeverGone, LaterStays
    <3>3. There(n) => NameOf(n) = NameAt(d, 1)
      BY <3>1, <3>n, CommandFacts DEF RunKeeps
    <3>4. CASE There(n) /\ n # old
      <4>1. There(n)'
        BY <1>1, <3>4
      <4> QED BY <3>1, <3>n, <4>1 DEF There
    <3>5. CASE There(n) /\ n = old
      <4>1. Settled(s)' /\ NameOf(s)' = NameAt(d, 1)' /\ s > command'[d].new
        BY <1>5, <3>1, <3>3, <3>5, <3>n
      <4> QED BY <4>1 DEF LaterStays
    <3>6. CASE ~There(n)
      <4>1. PICK i \in RoleIds : Settled(i) /\ NameOf(i) = NameAt(d, 1) /\ i > n
        BY <3>2, <3>6
      <4>2. CASE i # old
        <5>1. Settled(i)' /\ NameOf(i)' = NameAt(d, 1)' /\ i > command'[d].new
          BY <1>4, <3>1, <3>n, <4>1, <4>2
        <5> QED BY <5>1 DEF LaterStays
      <4>3. CASE i = old
        <5>1. s > n
          BY <1>5, <1>i, <3>n, <4>1, <4>3
        <5>2. Settled(s)' /\ NameOf(s)' = NameAt(d, 1)' /\ s > command'[d].new
          BY <1>5, <3>1, <3>n, <4>1, <4>3, <5>1
        <5> QED BY <5>2 DEF LaterStays
      <4> QED BY <4>2, <4>3
    <3> QED BY <3>4, <3>5, <3>6
  <2> QED BY <2>1, <2>2, <2>3, <2>4 DEF NeverGone
<1>7. Counted'
  <2> SUFFICES ASSUME NEW name \in Range(RoleNames)
               PROVE  Cardinality(WithName(name)') <= 1 + Cardinality(Blamed(name)')
    BY DEF Counted
  <2>o. \A d \in Runs : Owes(command[d], name)' <=> Owes(command'[d], name)
    BY DEF Owes
  <2>n. name # NoName
    BY CommandsAssumption
  <2>w. WithName(name)' \subseteq WithName(name)
    BY <1>1, <2>n DEF WithName, There, NameOf
  <2>b. Blamed(name) \ {c} \subseteq Blamed(name)'
    BY <1>1, <2>o DEF Blamed
  <2>k. Cardinality(WithName(name)) <= 1 + Cardinality(Blamed(name))
    BY DEF Counted, CommandsInv
  <2>1. /\ WithName(name) \subseteq RoleIds /\ Blamed(name)' \subseteq Runs /\ Blamed(name) \subseteq Runs
        /\ WithName(name)' \subseteq WithName(name) /\ Blamed(name) \ {c} \subseteq Blamed(name)'
        /\ Cardinality(WithName(name)) <= 1 + Cardinality(Blamed(name))
    BY <2>w, <2>b, <2>k DEF WithName, Blamed
  <2>2. CASE name = NameAt(c, 1)
    <3>1. old \in WithName(name) /\ WithName(name)' \subseteq WithName(name) \ {old}
      <4>1. old \in WithName(name)
        BY <1>m, <2>2 DEF WithName, NameOf
      <4>2. name # NoName
        BY CommandsAssumption
      <4>3. old \notin WithName(name)'
        BY <1>3, <4>2 DEF WithName, There
      <4> QED BY <2>1, <4>1, <4>3
    <3>2. PICK W : W = WithName(name)
      OBVIOUS
    <3>3. PICK V : V = WithName(name)'
      OBVIOUS
    <3>4. PICK B : B = Blamed(name)
      OBVIOUS
    <3>5. PICK D : D = Blamed(name)'
      OBVIOUS
    <3>6. Cardinality(W \ {old}) <= 1 + Cardinality(D)
      BY <2>1, <3>1, <3>2, <3>4, <3>5, OneLess
    <3>7. /\ V \subseteq W \ {old} /\ W \ {old} \subseteq RoleIds /\ D \subseteq Runs
      BY <2>1, <3>1, <3>2, <3>3, <3>5
    <3>8. Cardinality(V) <= 1 + Cardinality(D)
      BY <3>6, <3>7, NoMore
    <3> QED BY <3>3, <3>5, <3>8
  <2>3. CASE name # NameAt(c, 1)
    <3>1. Blamed(name) \subseteq Blamed(name)'
      <4>1. c \in Blamed(name) => c \in Blamed(name)'
        BY <1>1, <2>3, <2>o DEF Blamed
      <4> QED BY <2>1, <4>1
    <3> HIDE DEF WithName, Blamed
    <3> QED BY <2>1, <3>1, NoMore
  <2> QED BY <2>2, <2>3
<1> QED BY <1>1, <1>6, <1>7 DEF CommandsInv

(* The next role, or the summary, after a role whose making ended.         *)
LEMMA DoneEnds ==
  ASSUME CommandsInv, NEW c \in Runs, Making(c), NEW outcome \in {"failed", "partial", "recreated"},
         Steps(c, RoleDone(command[c], outcome)),
         \A i \in RoleIds : There(i)' => There(i) /\ guild'[i].name = guild[i].name,
         UNCHANGED <<made, pageRuns>>, commandLeft' \in [CommandDisturbances -> Nat]
  PROVE  \E r : /\ EndsMaking(c, r)
                /\ \A name : Owes(command[c], name) /\ (outcome = "recreated" => name # NameAt(c, 1)) => Owes(r, name)
<1>1. PICK r : r = RoleDone(command[c], outcome)
  OBVIOUS
<1>2. Steps(c, r) /\ command'[c] = r
  BY <1>1, CommandFacts DEF Steps
<1>3. /\ RunKeeps(c)' /\ ~Making(c)' /\ command'[c] \in RunStates /\ Telling(command'[c])
      /\ \A name : Owes(command[c], name) /\ (outcome = "recreated" => name # NameAt(c, 1)) => Owes(command'[c], name)
  <2>1. command[c].at \in {"create", "reapply", "undo"}
    BY DEF Making
  <2>2. made \in Nat /\ made' \in Nat /\ made <= made'
    BY CommandFacts
  <2> QED BY <1>1, <1>2, <2>1, <2>2, CommandFacts, DoneKeeps
<1>5. EndsMaking(c, r)
  BY <1>2, <1>3 DEF EndsMaking
<1> QED BY <1>2, <1>3, <1>5

LEMMA UndoKeeps == ASSUME CommandsInv, NEW c \in Runs, Undo(c) PROVE CommandsInv'
<1>1. Making(c) /\ command[c].new \in RoleIds /\ UNCHANGED <<made, pageRuns>>
      /\ Steps(c, RoleDone(command[c], "failed"))
  BY CommandFacts DEF Undo, Making, RunKeeps, Still
<1>2. commandLeft' \in [CommandDisturbances -> Nat]
  BY CommandFacts, FaultTyped DEF Undo
<1>n. PICK new \in RoleIds : new = command[c].new
  BY <1>1
<1>4. CASE guild' = [guild EXCEPT ![command[c].new] = Gone]
  <2>1. \A i \in RoleIds : There(i)' => There(i) /\ guild'[i].name = guild[i].name
    BY <1>4, <1>n, CommandFacts DEF There, Gone
  <2>3. PICK r : EndsMaking(c, r) /\ \A name : Owes(command[c], name) => Owes(r, name)
    BY <1>1, <1>2, <2>1, DoneEnds
  <2> QED BY <1>1, <1>4, <2>3, UndoneKeeps
<1>5. CASE guild' = guild
  <2>1. \A i \in RoleIds : There(i)' => There(i) /\ guild'[i].name = guild[i].name
    BY <1>5 DEF There
  <2>3. PICK r : EndsMaking(c, r) /\ \A name : Owes(command[c], name) => Owes(r, name)
    BY <1>1, <1>2, <2>1, DoneEnds
  <2> QED BY <1>1, <1>5, <2>3, TraceKeeps
<1> QED BY <1>4, <1>5 DEF Undo

LEMMA DeleteKeeps == ASSUME CommandsInv, NEW c \in Runs, DeleteOld(c) PROVE CommandsInv'
<1>1. Making(c) /\ UNCHANGED <<made, pageRuns>> /\ Head(command[c].ids) = command[c].ids[1]
      /\ command[c].ids[1] \in RoleIds
  <2>1. Making(c) /\ UNCHANGED <<made, pageRuns>>
    BY DEF DeleteOld, Making, Still
  <2>2. command[c].ids \in Seq(RoleIds) /\ command[c].ids # <<>>
    BY <2>1, CommandFacts, RunTyped DEF RunKeeps, Making
  <2> QED BY <2>1, <2>2, HeadTailProperties, EmptySeq
<1>2. commandLeft' \in [CommandDisturbances -> Nat]
  BY CommandFacts, FaultTyped DEF DeleteOld
<1>n. PICK old \in RoleIds : old = command[c].ids[1]
  BY <1>1
<1>4. ASSUME NEW outcome \in {"recreated", "partial"},
             There(command[c].ids[1]), guild' = [guild EXCEPT ![command[c].ids[1]] = Gone],
             Steps(c, RoleDone(command[c], outcome))
      PROVE  CommandsInv'
  <2>1. \A i \in RoleIds : There(i)' => There(i) /\ guild'[i].name = guild[i].name
    BY <1>4, <1>n, CommandFacts DEF There, Gone
  <2>3. PICK r : EndsMaking(c, r) /\ \A name : Owes(command[c], name) /\ name # NameAt(c, 1) => Owes(r, name)
    BY <1>1, <1>2, <1>4, <2>1, DoneEnds
  <2> QED BY <1>1, <1>4, <2>3, MadeKeeps
<1>5. CASE Steps(c, RoleDone(command[c], "partial")) /\ guild' = guild
  <2>1. \A i \in RoleIds : There(i)' => There(i) /\ guild'[i].name = guild[i].name
    BY <1>5 DEF There
  <2>3. PICK r : EndsMaking(c, r) /\ \A name : Owes(command[c], name) => Owes(r, name)
    BY <1>1, <1>2, <1>5, <2>1, DoneEnds
  <2> QED BY <1>1, <1>5, <2>3, TraceKeeps
<1> QED BY <1>1, <1>4, <1>5 DEF DeleteOld

(* A run cut off: as it was, but told of nothing.                          *)
LEMMA CutFacts ==
  ASSUME CommandsInv, NEW c \in Runs, command'[c] = Replies(command[c], "lost"), UNCHANGED guild, made' = made
  PROVE  /\ command'[c] \in RunStates /\ RunKeeps(c)' /\ ~Making(c)' /\ Telling(command'[c])
         /\ command'[c].at = "told" /\ \A name : Owes(command[c], name) => Owes(command'[c], name)
<1>1. PICK r : r = Replies(command[c], "lost")
  OBVIOUS
<1>2. "lost" \in Endings
  BY DEF Endings
<1>3. /\ r \in RunStates /\ r.at = "told" /\ r.lines = command[c].lines /\ r.ids = command[c].ids
      /\ r.names = command[c].names /\ r.kind = command[c].kind /\ r.new = command[c].new /\ r.told = "lost"
  BY ZenonT(60), <1>1, <1>2, CommandFacts DEF Replies, RunStates
<1>4. command'[c] = r
  BY <1>1
<1>5. RunKeeps(c)' /\ ~Making(c)'
  <2>1. ~Making(c)' /\ \A k : NameAt(c, k)' = NameAt(c, k)
    BY <1>3, <1>4 DEF Making, NameAt
  <2>2. \A i : (There(i)' <=> There(i)) /\ NameOf(i)' = NameOf(i)
    BY DEF There, NameOf
  <2>3. RunKeeps(c)
    BY CommandFacts
  <2> QED BY <1>3, <1>4, <2>1, <2>2, <2>3 DEF RunKeeps
<1>6. Telling(r) /\ \A name : Owes(command[c], name) => Owes(r, name)
  BY <1>3 DEF Telling, Owes
<1> QED BY <1>3, <1>4, <1>5, <1>6

LEMMA PanicKeeps == ASSUME CommandsInv, NEW c \in Runs, PurgePanics(c) PROVE CommandsInv'
<1>1. PICK r : r = Replies(command[c], "lost")
  OBVIOUS
<1>2. Steps(c, r) /\ UNCHANGED <<guild, made, pageRuns>> /\ command'[c] = r
  BY <1>1, CommandFacts DEF PurgePanics, Quietly, Still, Steps
<1>3. commandLeft' \in [CommandDisturbances -> Nat]
  BY CommandFacts, FaultTyped DEF PurgePanics
<1>4. /\ r \in RunStates /\ RunKeeps(c)' /\ ~Making(c)' /\ Telling(r)
      /\ r.at = "told" /\ \A name : Owes(command[c], name) => Owes(r, name)
  BY <1>1, <1>2, CutFacts
<1>5. CASE Making(c)
  <2>1. EndsMaking(c, r)
    BY <1>2, <1>3, <1>4 DEF EndsMaking
  <2> QED BY <1>2, <1>4, <1>5, <2>1, TraceKeeps
<1>6. CASE ~Making(c)
  <2>1. r.at \in {"reapply", "undo"} <=> Making(c)
    BY <1>4, <1>6
  <2>2. guild' \in [RoleIds -> RolesOK] /\ \A i \in RoleIds : guild'[i].name = guild[i].name
    BY <1>2, CommandFacts
  <2>3. pageRuns' \in BOOLEAN /\ made' = made
    BY <1>2, CommandFacts
  <2> QED BY <1>2, <1>3, <1>4, <1>6, <2>1, <2>2, <2>3, SameRoles
<1> QED BY <1>5, <1>6

(* The process dies: every run at work is cut off, and no role is made.    *)
LEMMA DiesKeeps == ASSUME CommandsInv, Dies PROVE CommandsInv'
<1>1. UNCHANGED <<guild, made>> /\ pageRuns' \in BOOLEAN
  BY DEF Dies
<1>2. commandLeft' \in [CommandDisturbances -> Nat]
  <2>1. "crash" \in CommandDisturbances
    BY DEF CommandDisturbances
  <2> QED BY <2>1, MayRunTyped DEF Dies, CommandsInv, CommandsTypeOK
<1>3. \A c \in Runs : command'[c] = IF HoldsRule(c) THEN Replies(command[c], "lost") ELSE command[c]
  BY DEF Dies
<1>4. ASSUME NEW c \in Runs
      PROVE  /\ command'[c] \in RunStates /\ RunKeeps(c)' /\ ~Making(c)' /\ Telling(command'[c])
             /\ \A name : Owes(command[c], name) => Owes(command'[c], name)
  <2>1. CASE HoldsRule(c)
    <3>1. command'[c] = Replies(command[c], "lost")
      BY <1>3, <2>1
    <3> QED BY <1>1, <3>1, CutFacts
  <2>2. CASE ~HoldsRule(c)
    <3>1. command'[c] = command[c] /\ command[c].at \in {"none", "told"}
      BY <1>3, <2>2 DEF HoldsRule
    <3>2. ~Making(c)'
      BY <3>1 DEF Making
    <3>3. /\ RunKeeps(c) /\ made \in Nat /\ made' \in Nat /\ made <= made' /\ command[c].ids \in Seq(RoleIds)
          /\ RoleIds \subseteq Nat /\ Telling(command[c]) /\ command[c] \in RunStates
      BY <1>1, CommandFacts, RunTyped
    <3>4. \A i \in RoleIds : i <= made /\ There(i)' => There(i) /\ guild'[i].name = guild[i].name
      BY <1>1 DEF There
    <3>5. RunKeeps(c)'
      BY <3>1, <3>3, <3>4, OthersKeep
    <3> QED BY <3>1, <3>2, <3>3, <3>5
  <2> QED BY <2>1, <2>2
<1>5. command' \in [Runs -> RunStates]
  BY <1>4 DEF Dies
<1>6. CommandsTypeOK'
  BY SMTT(30), <1>1, <1>2, <1>5 DEF CommandsTypeOK, CommandsInv
<1>7. \A i : (There(i)' <=> There(i)) /\ NameOf(i)' = NameOf(i)
  BY <1>1 DEF There, NameOf
<1>8. \A i \in RoleIds : Settled(i) => Settled(i)'
  BY <1>4, <1>7 DEF Settled
<1>9. NeverGone'
  <2>1. NeverGone
    BY DEF CommandsInv
  <2>2. \A name \in Range(RoleNames) : OneStays(name)'
    BY <1>7, <1>8, <2>1 DEF NeverGone, OneStays
  <2>3. \A i \in RoleIds : There(i)' => i <= made'
    BY <1>1, <1>7, <2>1 DEF NeverGone
  <2> QED BY <1>4, <2>2, <2>3 DEF NeverGone
<1>10. Counted'
  <2>1. ASSUME NEW name \in Range(RoleNames)
        PROVE  WithName(name)' \subseteq WithName(name) /\ Blamed(name) \subseteq Blamed(name)'
    <3>1. \A d \in Runs : Owes(command[d], name)' <=> Owes(command'[d], name)
      BY DEF Owes
    <3> QED BY <1>1, <1>4, <3>1 DEF WithName, Blamed
  <2> QED BY <2>1, CountKeeps DEF CommandsInv
<1>11. \A c \in Runs : Telling(command[c])' <=> Telling(command'[c])
  OBVIOUS
<1> QED BY <1>4, <1>6, <1>9, <1>10, <1>11 DEF CommandsInv

(* The page, and a step of another part of the bot.                        *)
LEMMA BesideKeeps ==
  ASSUME CommandsInv, UNCHANGED <<guild, command, made>>, pageRuns' \in BOOLEAN,
         commandLeft' \in [CommandDisturbances -> Nat]
  PROVE  CommandsInv'
<1>1. CommandsTypeOK'
  BY CommandFacts DEF CommandsInv, CommandsTypeOK
<1>2. ASSUME NEW c \in Runs PROVE RunKeeps(c)' /\ Telling(command[c])'
  <2>1. RunKeeps(c) /\ command'[c] = command[c] /\ made \in Nat /\ made' \in Nat /\ made <= made'
        /\ command[c].ids \in Seq(RoleIds) /\ RoleIds \subseteq Nat /\ Telling(command[c])
    BY CommandFacts, RunTyped
  <2>2. \A i \in RoleIds : i <= made /\ There(i)' => There(i) /\ guild'[i].name = guild[i].name
    BY DEF There
  <2>3. RunKeeps(c)'
    BY <2>1, <2>2, OthersKeep
  <2> QED BY <2>1, <2>3
<1>3. /\ \A i : (There(i)' <=> There(i)) /\ NameOf(i)' = NameOf(i)
      /\ \A c : (Making(c)' <=> Making(c)) /\ NameAt(c, 1)' = NameAt(c, 1)
  BY DEF There, NameOf, Making, NameAt
<1>4. \A i : Settled(i)' <=> Settled(i)
  BY <1>3 DEF Settled
<1>5. NeverGone'
  <2>1. (\A name : OneStays(name)' <=> OneStays(name)) /\ \A c : LaterStays(c)' <=> LaterStays(c)
    BY <1>3, <1>4 DEF OneStays, LaterStays
  <2>2. NeverGone
    BY DEF CommandsInv
  <2>3. \A c : There(command[c].new)' <=> There(command[c].new)
    BY DEF There
  <2> QED BY <1>3, <2>1, <2>2, <2>3 DEF NeverGone
<1>6. Counted'
  <2>1. \A name : WithName(name)' = WithName(name) /\ Blamed(name)' = Blamed(name)
    BY DEF WithName, Blamed, Owes
  <2> QED BY <2>1, CountKeeps DEF CommandsInv
<1> QED BY <1>1, <1>2, <1>5, <1>6 DEF CommandsInv

(* A role made anew: the one it is to replace has its name, and the run is *)
(* the only one that makes it, or takes it for not made.                   *)
LEMMA NewKeeps ==
  ASSUME CommandsInv, NEW c \in Runs, NEW old, old = Head(command[c].ids), command[c].at = "create", There(old),
         made + 1 \in RoleIds, made' = made + 1, UNCHANGED pageRuns,
         commandLeft' \in [CommandDisturbances -> Nat],
         guild' = [guild EXCEPT ![made + 1] = [Gone EXCEPT !.name = guild[old].name]],
         \/ Steps(c, [command[c] EXCEPT !.new = made + 1, !.at = "reapply", !.left = command[c].over[old]])
         \/ Steps(c, RoleDone(command[c], "failed"))
  PROVE  CommandsInv'
<1>k. command[c].ids # <<>> /\ command[c].ids \in Seq(RoleIds) /\ RunKeeps(c) /\ command[c].kind = "purge"
      /\ command[c].new = NoRole /\ Fresh(command[c]) /\ command[c].names \in Seq(Range(RoleNames))
  BY CommandFacts, RunTyped DEF RunKeeps, Telling
<1>l. 1 \in 1 .. Len(command[c].ids) /\ old = command[c].ids[1] /\ old \in RoleIds
  BY <1>k, EmptySeq, HeadTailProperties
<1>i. RoleIds \subseteq Nat /\ made \in Nat /\ old \in Nat
  BY <1>l, CommandFacts
<1>n. PICK n \in RoleIds : n = made + 1 /\ made' = n /\ n \in Nat
  BY <1>i
<1>0. NeverGone
  BY DEF CommandsInv
<1>m. ~There(n) /\ n # old /\ NameOf(old) = NameAt(c, 1)
  <2>1. ~There(n)
    BY <1>0, <1>i, <1>n DEF NeverGone
  <2>2. n # old
    BY <2>1
  <2>3. NameOf(old) = NameAt(c, 1)
    BY <1>k, <1>l DEF RunKeeps
  <2> QED BY <2>1, <2>2, <2>3
<1>h. /\ command[c].names # <<>> /\ 1 \in DOMAIN command[c].names /\ Head(command[c].names) = NameAt(c, 1)
      /\ NameAt(c, 1) \in Range(RoleNames)
  <2>1. Len(command[c].names) # 0 /\ Len(command[c].names) \in Nat
    BY <1>k, <1>l, LenProperties DEF RunKeeps
  <2>2. Len(<<>>) = 0
    OBVIOUS
  <2>3. command[c].names # <<>>
    BY <2>1, <2>2
  <2>4. DOMAIN command[c].names = 1 .. Len(command[c].names)
    BY <1>k, LenProperties
  <2>5. 1 \in DOMAIN command[c].names
    BY <2>1, <2>4
  <2>6. Head(command[c].names) = command[c].names[1] /\ command[c].names[1] \in Range(RoleNames)
    BY <1>k, <2>3, <2>5, HeadTailProperties
  <2> QED BY <2>3, <2>5, <2>6 DEF NameAt
<1>1. PICK r : r = command'[c]
  OBVIOUS
<1>3. command'[c] = r /\ \A d \in Runs : d # c => command'[d] = command[d]
  BY <1>1, CommandFacts DEF Steps
<1>5. PICK g \in RolesOK : g = [Gone EXCEPT !.name = guild[old].name] /\ g.name = guild[old].name
  <2>1. guild[old].name \in Range(RoleNames) \cup {NoName}
    BY <1>l, CommandFacts DEF RolesOK
  <2> QED BY SMTT(30), <2>1 DEF Gone, RolesOK
<1>6. guild' = [guild EXCEPT ![n] = g]
  BY <1>5, <1>n
<1>7. guild' \in [RoleIds -> RolesOK] /\ guild'[n] = g /\ \A i \in RoleIds : i # n => guild'[i] = guild[i]
  BY SMTT(30), <1>6, CommandFacts
<1>9. /\ \A i \in RoleIds : i # n => (There(i)' <=> There(i)) /\ NameOf(i)' = NameOf(i)
      /\ There(n)' /\ NameOf(n)' = NameOf(old)
  BY <1>5, <1>7, <1>l, <1>n DEF There, NameOf
<1>10. /\ ~Making(c)
       /\ \A d \in Runs : d # c => (Making(d)' <=> Making(d)) /\ NameAt(d, 1)' = NameAt(d, 1)
  BY <1>3 DEF Making, NameAt
<1>11. \A k \in 1 .. Len(command[c].ids) :
         /\ command[c].ids[k] \in RoleIds
         /\ command[c].ids[k] <= made
         /\ command[c].ids[k] < n
         /\ command[c].ids[k] <= made'
         /\ There(command[c].ids[k]) => NameOf(command[c].ids[k]) = NameAt(c, k)
  <2> TAKE k \in 1 .. Len(command[c].ids)
  <2>1. command[c].ids[k] \in RoleIds
    BY <1>k
  <2>2. command[c].ids[k] <= made /\ (There(command[c].ids[k]) => NameOf(command[c].ids[k]) = NameAt(c, k))
    BY <1>k DEF RunKeeps
  <2>3. PICK i \in Nat : i = command[c].ids[k]
    BY <1>i, <2>1
  <2>4. i <= made /\ i < n /\ i <= made'
    BY SMTT(60), <1>i, <1>n, <2>2, <2>3
  <2> QED BY <2>1, <2>2, <2>3, <2>4
<1>12. ASSUME Steps(c, [command[c] EXCEPT !.new = made + 1, !.at = "reapply", !.left = command[c].over[old]])
       PROVE /\ r \in RunStates /\ RunKeeps(c)' /\ Telling(r) /\ Owes(r, NameAt(c, 1))
             /\ (\A name : Owes(command[c], name) => Owes(r, name)) /\ r.new = n
  <2>1. r = [command[c] EXCEPT !.new = n, !.at = "reapply", !.left = command[c].over[old]]
    BY <1>12, <1>1, <1>n, CommandFacts DEF Steps
  <2>2. /\ r \in RunStates /\ r.at = "reapply" /\ r.new = n /\ r.ids = command[c].ids /\ r.names = command[c].names
        /\ r.kind = "purge" /\ r.lines = command[c].lines
    <3>1. command[c].over[old] \in SUBSET Channels
      BY <1>l, CommandFacts, RunTyped
    <3> QED BY ZenonT(60), <2>1, <1>k, <1>n, <3>1, CommandFacts DEF RunStates
  <2>3. Making(c)' /\ \A k : NameAt(c, k)' = NameAt(c, k)
    BY <1>3, <2>2 DEF Making, NameAt
  <2>4. \A k \in 1 .. Len(r.ids) :
          /\ r.ids[k] <= made'
          /\ r.ids[k] < r.new
          /\ guild'[r.ids[k]].name # NoName => guild'[r.ids[k]].name = NameAt(c, k)'
    <3> TAKE k \in 1 .. Len(r.ids)
    <3>1. PICK i \in RoleIds : i = r.ids[k]
      BY <1>11, <2>2
    <3>2. i <= made' /\ i < n /\ (There(i) => NameOf(i) = NameAt(c, k))
      BY <1>11, <2>2, <3>1
    <3>3. i # n
      BY SMTT(30), <1>i, <1>n, <3>2
    <3>4. guild'[i].name # NoName => guild'[i].name = NameAt(c, k)'
      BY <1>7, <2>3, <3>2, <3>3 DEF There, NameOf
    <3> QED BY <2>2, <3>1, <3>2, <3>4
  <2>5. r.new \in RoleIds /\ r.new <= made' /\ guild'[r.new].name = NameAt(c, 1)'
    BY <1>7, <1>9, <1>m, <1>n, <2>2, <2>3 DEF NameOf
  <2>6. Len(r.ids) <= Len(r.names) /\ r.ids # <<>>
    BY <1>k, <2>2 DEF RunKeeps
  <2>7. RunKeeps(c)'
    BY Zenon, <1>3, <2>2, <2>4, <2>5, <2>6 DEF RunKeeps, There, NameOf
  <2>8. Telling(r)
    BY <1>k, <2>2 DEF Telling, Fresh
  <2>9. n # NoRole
    BY CommandsAssumption
  <2>10. Owes(r, NameAt(c, 1)) /\ \A name : Owes(command[c], name) => Owes(r, name)
    BY <1>h, <1>k, <2>2, <2>9 DEF Owes
  <2> QED BY <2>2, <2>7, <2>8, <2>10
<1>e. ASSUME Steps(c, RoleDone(command[c], "failed"))
      PROVE  /\ r \in RunStates /\ RunKeeps(c)' /\ Telling(r) /\ Owes(r, NameAt(c, 1))
             /\ (\A name : Owes(command[c], name) => Owes(r, name)) /\ ~Making(c)'
  <2>1. command'[c] = RoleDone(command[c], "failed")
    BY <1>e, CommandFacts DEF Steps
  <2>2. \A i \in RoleIds : i <= made /\ There(i)' => There(i) /\ guild'[i].name = guild[i].name
    <3> SUFFICES ASSUME NEW i \in RoleIds, i <= made, There(i)' PROVE There(i) /\ guild'[i].name = guild[i].name
      OBVIOUS
    <3>1. i # n
      BY <1>i, <1>n
    <3> QED BY <1>7, <1>9, <3>1
  <2>3. made' \in Nat /\ made <= made'
    BY <1>i, <1>n
  <2>4. /\ RunKeeps(c)' /\ ~Making(c)' /\ command'[c] \in RunStates /\ Telling(command'[c])
        /\ (\A name : Owes(command[c], name) => Owes(command'[c], name)) /\ Owes(command'[c], NameAt(c, 1))
    BY <1>i, <2>1, <2>2, <2>3, CommandFacts, DoneKeeps
  <2> QED BY <1>3, <2>4
<1>2. /\ r \in RunStates /\ RunKeeps(c)' /\ Telling(r) /\ Owes(r, NameAt(c, 1))
      /\ (\A name : Owes(command[c], name) => Owes(r, name)) /\ (Making(c)' => r.new = n)
  <2>1. CASE Steps(c, [command[c] EXCEPT !.new = made + 1, !.at = "reapply", !.left = command[c].over[old]])
    BY <1>12, <2>1
  <2>2. CASE Steps(c, RoleDone(command[c], "failed"))
    BY <1>e, <2>2
  <2> QED BY <2>1, <2>2
<1>4. command' \in [Runs -> RunStates]
  BY <1>2, <1>3, CommandFacts DEF Steps
<1>8. CommandsTypeOK'
  BY <1>4, <1>7, <1>n, CommandFacts DEF CommandsTypeOK, RolesOK
<1>13. ASSUME NEW d \in Runs PROVE RunKeeps(d)' /\ Telling(command[d])'
  <2>1. CASE d = c
    BY <1>2, <1>3, <2>1
  <2>2. CASE d # c
    <3>1. /\ RunKeeps(d) /\ command'[d] = command[d] /\ made \in Nat /\ made' \in Nat /\ made <= made'
          /\ command[d].ids \in Seq(RoleIds) /\ RoleIds \subseteq Nat /\ Telling(command[d])
      BY SMTT(30), <1>3, <1>i, <1>n, <2>2, CommandFacts, RunTyped
    <3>2. \A i \in RoleIds : i <= made /\ There(i)' => There(i) /\ guild'[i].name = guild[i].name
      <4> SUFFICES ASSUME NEW i \in RoleIds, i <= made, There(i)' PROVE There(i) /\ guild'[i].name = guild[i].name
        OBVIOUS
      <4>1. i # n
        BY <1>i, <1>n
      <4> QED BY <1>7, <1>9, <4>1
    <3>3. RunKeeps(d)'
      BY <3>1, <3>2, OthersKeep
    <3> QED BY <3>1, <3>3
  <2> QED BY <2>1, <2>2
<1>14. \A i \in RoleIds : Settled(i) => There(i)' /\ i # n /\ NameOf(i)' = NameOf(i) /\ Settled(i)'
  <2> SUFFICES ASSUME NEW i \in RoleIds, Settled(i) PROVE There(i)' /\ i # n /\ NameOf(i)' = NameOf(i) /\ Settled(i)'
    OBVIOUS
  <2>1. i # n /\ There(i)' /\ NameOf(i)' = NameOf(i)
    BY <1>9, <1>m DEF Settled
  <2>2. ASSUME NEW d \in Runs, Making(d)' PROVE command'[d].new # i
    <3>1. CASE d = c
      BY <1>2, <1>3, <2>1, <2>2, <3>1
    <3>2. CASE d # c
      BY <1>3, <1>10, <2>2, <3>2 DEF Settled
    <3> QED BY <3>1, <3>2
  <2> QED BY <2>1, <2>2 DEF Settled
<1>15. NeverGone'
  <2>1. \A i \in RoleIds : There(i)' => i <= made'
    <3> SUFFICES ASSUME NEW i \in RoleIds, There(i)' PROVE i <= made'
      OBVIOUS
    <3>1. CASE i = n
      BY <1>n, <3>1
    <3>2. CASE i # n
      <4>1. i <= made /\ i \in Nat
        BY <1>0, <1>9, <1>i, <3>2 DEF NeverGone
      <4> QED BY <1>i, <1>n, <4>1
    <3> QED BY <3>1, <3>2
  <2>2. \A d, e \in Runs : Making(d)' /\ Making(e)' /\ d # e => command'[d].new # command'[e].new
    <3>1. \A d \in Runs : d # c /\ Making(d)' => command'[d].new = command[d].new /\ command[d].new # n
      <4> SUFFICES ASSUME NEW d \in Runs, d # c, Making(d)' PROVE command'[d].new = command[d].new /\ command[d].new # n
        OBVIOUS
      <4>1. Making(d) /\ command'[d] = command[d]
        BY <1>3, <1>10
      <4>2. PICK i \in Nat : i = command[d].new /\ i <= made
        BY <1>i, <4>1, CommandFacts DEF RunKeeps
      <4>3. i # n
        BY <1>i, <1>n, <4>2
      <4> QED BY <4>1, <4>2, <4>3
    <3>2. Making(c)' => command'[c].new = n
      BY <1>2, <1>3
    <3>3. \A d, e \in Runs : d # c /\ e # c /\ Making(d)' /\ Making(e)' /\ d # e => command[d].new # command[e].new
      BY <1>0, <1>10 DEF NeverGone
    <3> QED BY <3>1, <3>2, <3>3
  <2>3. \A name \in Range(RoleNames) : OneStays(name)'
    BY <1>14, <1>0 DEF NeverGone, OneStays
  <2>4. ASSUME NEW d \in Runs, Making(d)' PROVE There(command[d].new)' \/ LaterStays(d)'
    <3>1. CASE d = c
      BY <1>2, <1>3, <1>7, <1>9, <2>4, <3>1 DEF There
    <3>2. CASE d # c
      <4>1. command'[d] = command[d] /\ Making(d) /\ NameAt(d, 1)' = NameAt(d, 1)
        BY <1>3, <1>10, <2>4, <3>2
      <4>2. PICK i \in RoleIds : i = command[d].new
        BY <4>1, CommandFacts DEF RunKeeps
      <4>3. There(i) \/ LaterStays(d)
        BY <1>0, <4>1, <4>2 DEF NeverGone
      <4>4. LaterStays(d) => LaterStays(d)'
        BY Zenon, <1>14, <4>1 DEF LaterStays
      <4>5. There(i) => There(command[d].new)'
        BY <1>7, <1>m, <4>1, <4>2 DEF There
      <4> QED BY <4>3, <4>4, <4>5
    <3> QED BY ZenonT(30), <3>1, <3>2
  <2> QED BY <2>1, <2>2, <2>3, <2>4 DEF NeverGone
<1>16. Counted'
  <2> SUFFICES ASSUME NEW name \in Range(RoleNames)
               PROVE  Cardinality(WithName(name)') <= 1 + Cardinality(Blamed(name)')
    BY DEF Counted
  <2>1. /\ WithName(name) \subseteq RoleIds /\ WithName(name)' \subseteq RoleIds
        /\ Blamed(name)' \subseteq Runs /\ Blamed(name) \subseteq Runs
        /\ Cardinality(WithName(name)) <= 1 + Cardinality(Blamed(name))
    BY DEF WithName, Blamed, Counted, CommandsInv
  <2>2. Blamed(name) \subseteq Blamed(name)'
    <3>1. \A d \in Runs : Owes(command[d], name)' <=> Owes(command'[d], name)
      BY DEF Owes
    <3> QED BY <1>2, <1>3, <3>1 DEF Blamed
  <2>3. PICK W : W = WithName(name)
    OBVIOUS
  <2>4. PICK V : V = WithName(name)'
    OBVIOUS
  <2>5. PICK B : B = Blamed(name)
    OBVIOUS
  <2>6. PICK D : D = Blamed(name)'
    OBVIOUS
  <2>7. CASE name = NameAt(c, 1)
    <3>1. WithName(name)' \subseteq WithName(name) \cup {n}
      BY <1>9 DEF WithName, NameOf
    <3>2. c \notin Blamed(name)
      <4>1. \A o \in {"failed", "partial"} : o \in Outcomes
        BY DEF Outcomes
      <4>2. \A o \in Outcomes : <<name, o>> \notin command[c].lines
        BY <1>h, <1>k, <2>7 DEF Fresh, NameAt
      <4> QED BY <1>k, <4>1, <4>2 DEF Blamed, Owes
    <3>3. c \in Blamed(name)'
      BY <1>2, <1>3, <2>7 DEF Blamed, Owes
    <3>4. Cardinality(V) <= 1 + Cardinality(D)
      <4>1. /\ W \subseteq RoleIds /\ V \subseteq W \cup {n} /\ B \subseteq Runs /\ D \subseteq Runs
            /\ c \notin B /\ B \cup {c} \subseteq D /\ Cardinality(W) <= 1 + Cardinality(B) /\ V \subseteq RoleIds
        BY <2>1, <2>2, <2>3, <2>4, <2>5, <2>6, <3>1, <3>2, <3>3
      <4> QED BY <4>1, OneMore
    <3> QED BY <2>4, <2>6, <3>4
  <2>8. CASE name # NameAt(c, 1)
    <3>1. WithName(name)' \subseteq WithName(name)
      BY <1>9, <1>m, <2>8 DEF WithName, NameOf
    <3>2. Cardinality(V) <= 1 + Cardinality(D)
      <4>1. W \subseteq RoleIds /\ V \subseteq W /\ B \subseteq D /\ D \subseteq Runs /\ Cardinality(W) <= 1 + Cardinality(B)
        BY <2>1, <2>2, <2>3, <2>4, <2>5, <2>6, <3>1
      <4> QED BY <4>1, NoMore
    <3> QED BY <2>4, <2>6, <3>2
  <2> QED BY <2>7, <2>8
<1> QED BY <1>8, <1>13, <1>15, <1>16 DEF CommandsInv

LEMMA CreateKeeps == ASSUME CommandsInv, NEW c \in Runs, Create(c) PROVE CommandsInv'
<1>1. commandLeft' \in [CommandDisturbances -> Nat] /\ command[c].at = "create"
  BY CommandFacts, FaultTyped DEF Create
<1>2. CASE Quietly(c, RoleDone(command[c], "failed"))
  BY <1>1, <1>2, NotMadeKeeps
<1>3. CASE ~Quietly(c, RoleDone(command[c], "failed"))
  <2>1. PICK old : old = Head(command[c].ids)
    OBVIOUS
  <2>2. /\ There(old) /\ made + 1 \in RoleIds /\ made' = made + 1 /\ UNCHANGED pageRuns
        /\ guild' = [guild EXCEPT ![made + 1] = [Gone EXCEPT !.name = guild[old].name]]
        /\ \/ Steps(c, [command[c] EXCEPT !.new = made + 1, !.at = "reapply", !.left = command[c].over[old]])
           \/ Steps(c, RoleDone(command[c], "failed"))
    BY Zenon, <1>3, <2>1 DEF Create
  <2> QED BY <1>1, <2>1, <2>2, NewKeeps
<1> QED BY <1>2, <1>3

(* Every step of the commands and of the page keeps what makes them tell.  *)
LEMMA CommandsStepKeeps == ASSUME CommandsInv, CommandsNext PROVE CommandsInv'
<1>1. CASE \E c \in Runs : Invoke(c) \/ AckFails(c) \/ CommandStep(c) \/ PurgePanics(c)
  BY <1>1, InvokeKeeps, AckKeeps, ResolveKeeps, ChangeKeeps, ReadOverwritesKeeps, CreateKeeps, ReapplyKeeps, UndoKeeps,
     DeleteKeeps, DeliverKeeps, PanicKeeps DEF CommandStep
<1>2. CASE PageStarts
  <2>1. "pages" \in CommandDisturbances
    BY DEF CommandDisturbances
  <2>2. commandLeft' \in [CommandDisturbances -> Nat]
    BY <1>2, <2>1, MayRunTyped DEF PageStarts, CommandsInv, CommandsTypeOK
  <2>3. UNCHANGED <<guild, command, made>> /\ pageRuns' \in BOOLEAN
    BY <1>2 DEF PageStarts
  <2> QED BY <2>2, <2>3, BesideKeeps
<1>3. CASE PageEnds
  <2>1. commandLeft' \in [CommandDisturbances -> Nat] /\ pageRuns' \in BOOLEAN
        /\ UNCHANGED <<guild, command, made>>
    BY <1>3 DEF PageEnds, CommandsInv, CommandsTypeOK
  <2> QED BY <2>1, BesideKeeps
<1>4. CASE Dies
  BY <1>4, DiesKeeps
<1> QED BY <1>1, <1>2, <1>3, <1>4 DEF CommandsNext

LEMMA CommandsStillKeeps == ASSUME CommandsInv, UNCHANGED commandVars PROVE CommandsInv'
<1>1. commandLeft' \in [CommandDisturbances -> Nat] /\ pageRuns' \in BOOLEAN
      /\ UNCHANGED <<guild, command, made>>
  BY DEF commandVars, CommandsInv, CommandsTypeOK
<1> QED BY <1>1, BesideKeeps

LEMMA CommandsInitInv == ASSUME CommandsInit PROVE CommandsInv
<1>1. /\ Len(RoleNames) = 2 /\ 1 \in RoleIds /\ 2 \in RoleIds /\ RoleNames[1] # RoleNames[2]
      /\ RoleNames[1] \in Range(RoleNames) /\ RoleNames[2] \in Range(RoleNames) /\ RoleIds \subseteq Nat
      /\ Range(RoleNames) = {RoleNames[1], RoleNames[2]}
  <2>1. RoleNames \in Seq(Range(RoleNames)) /\ Len(RoleNames) = 2
    BY CommandsAssumption
  <2>2. DOMAIN RoleNames = 1 .. 2
    BY <2>1, LenProperties
  <2>3. 1 .. 2 = {1, 2}
    OBVIOUS
  <2> QED BY <2>1, <2>2, <2>3, CommandsAssumption DEF Range
<1>2. ASSUME NEW i \in RoleIds
      PROVE  guild[i] \in RolesOK /\ guild[i].name = (IF i = 1 THEN RoleNames[1] ELSE IF i = 2 THEN RoleNames[2] ELSE NoName)
  <2>1. i \in 1 .. 2 <=> i = 1 \/ i = 2
    BY <1>1
  <2>2. guild[i] = IF i \in 1 .. 2 THEN [Gone EXCEPT !.name = RoleNames[i], !.on = Channels] ELSE Gone
    BY <1>1 DEF CommandsInit
  <2>3. CASE i = 1
    BY <1>1, <2>1, <2>2, <2>3 DEF Gone, RolesOK
  <2>4. CASE i = 2
    BY <1>1, <2>1, <2>2, <2>4 DEF Gone, RolesOK
  <2>5. CASE i # 1 /\ i # 2
    BY <2>1, <2>2, <2>5 DEF Gone, RolesOK
  <2> QED BY <2>3, <2>4, <2>5
<1>3. guild \in [RoleIds -> RolesOK]
  <2> DEFINE G(i) == IF i \in 1 .. Len(RoleNames)
                THEN [Gone EXCEPT !.name = RoleNames[i], !.on = Channels] ELSE Gone
  <2>1. guild = [i \in RoleIds |-> G(i)]
    BY DEF CommandsInit
  <2> HIDE DEF G
  <2> QED BY <1>2, <2>1
<1>4. command \in [Runs -> RunStates] /\ \A c \in Runs : command[c] = Resting
  BY RestingIs DEF CommandsInit
<1>5. CommandsTypeOK
  BY <1>1, <1>3, <1>4, CommandsAssumption DEF CommandsInit, CommandsTypeOK, RolesOK
<1>6. \A c \in Runs : ~Making(c) /\ RunKeeps(c) /\ Telling(command[c])
  <2> TAKE c \in Runs
  <2>1. /\ command[c].at = "none" /\ command[c].ids = <<>> /\ command[c].lines = {}
        /\ command[c].new = NoRole
        /\ command[c].names \in Seq(Range(RoleNames)) /\ Len(command[c].names) \in Nat
    BY <1>4, RestingIs, <1>5, RunTyped, LenProperties
  <2>2. Len(command[c].ids) = 0
    BY <2>1
  <2> QED BY <2>1, <2>2 DEF Making, RunKeeps, Telling
<1>7. NoName # RoleNames[1] /\ NoName # RoleNames[2]
  BY <1>1, CommandsAssumption
<1>8. NeverGone
  <2>1. \A i \in RoleIds : There(i) => i <= made
    <3>1. made = 2
      BY <1>1 DEF CommandsInit
    <3>2. \A i \in RoleIds : There(i) => i = 1 \/ i = 2
      BY <1>2 DEF There
    <3> QED BY <3>1, <3>2
  <2>2. Settled(1) /\ Settled(2) /\ NameOf(1) = RoleNames[1] /\ NameOf(2) = RoleNames[2]
    BY <1>1, <1>2, <1>6, <1>7 DEF There, Settled, NameOf
  <2>3. \A name \in Range(RoleNames) : OneStays(name)
    BY <1>1, <2>2 DEF OneStays
  <2> QED BY <1>6, <2>1, <2>3 DEF NeverGone
<1>9. Counted
  <2> SUFFICES ASSUME NEW name \in Range(RoleNames)
               PROVE  Cardinality(WithName(name)) <= 1 + Cardinality(Blamed(name))
    BY DEF Counted
  <2>1. PICK i \in RoleIds : WithName(name) = {i}
    <3>1. CASE name = RoleNames[1]
      <4>1. WithName(name) = {1}
        BY <1>1, <1>2, <1>7, <3>1 DEF WithName
      <4> QED BY <1>1, <4>1
    <3>2. CASE name = RoleNames[2]
      <4>1. WithName(name) = {2}
        BY <1>1, <1>2, <1>7, <3>2 DEF WithName
      <4> QED BY <1>1, <4>1
    <3> QED BY <1>1, <3>1, <3>2
  <2>2. Cardinality(WithName(name)) = 1
    BY <2>1, FS_Singleton
  <2> QED BY <2>2, BlamedFinite
<1> QED BY <1>5, <1>6, <1>8, <1>9 DEF CommandsInv

LEMMA CommandsTell == ASSUME CommandsInv PROVE PurgesTell
<1>1. \A k \in DOMAIN RoleNames : RoleNames[k] \in Range(RoleNames)
  BY DEF Range
<1>2. \A k \in DOMAIN RoleNames : WithName(RoleNames[k]) # {}
  <2> TAKE k \in DOMAIN RoleNames
  <2>2. PICK i \in RoleIds : NameOf(i) = RoleNames[k]
    BY <1>1 DEF CommandsInv, NeverGone, OneStays
  <2> QED BY <2>2 DEF WithName, NameOf
<1>3. ASSUME \A c \in Runs : ~Purging(c), NEW name \in Range(RoleNames)
      PROVE  Cardinality(WithName(name)) <= 1 + Cardinality({c \in Runs : TellsOf(c, name) \/ CutOff(c, name)})
  <2> DEFINE D == {c \in Runs : TellsOf(c, name) \/ CutOff(c, name)}
  <2>1. ASSUME NEW c \in Blamed(name) PROVE c \in D
    <3>1. c \in Runs /\ Owes(command[c], name) /\ command[c].kind = "purge" /\ Telling(command[c])
      BY <2>1 DEF Blamed, Owes, CommandsInv
    <3>2. command[c].at \in {"none", "told"}
      BY <1>3, <3>1 DEF Purging, HoldsRule
    <3>3. command[c].at = "told"
      BY <3>1, <3>2 DEF Telling, Owes
    <3>4. Unsure(c, name) \/ (command[c].new # NoRole /\ Head(command[c].names) = name)
      <4>1. \A o \in {"failed", "partial"} : <<name, o>> \in command[c].lines => o \in SaysOf(c, name)
        BY DEF SaysOf, Outcomes
      <4> QED BY <3>1, <4>1 DEF Owes, Unsure
    <3>5. \/ command[c].told = "lost"
          \/ command[c].new = NoRole /\ (command[c].told \in {"summary", "channel"} \/ command[c].lines = {})
      BY <3>1, <3>3 DEF Telling
    <3>6. command[c].lines = {} => ~Unsure(c, name)
      BY DEF Unsure, SaysOf
    <3> QED BY <3>1, <3>4, <3>5, <3>6 DEF TellsOf, CutOff
  <2>2. WithName(name) \subseteq RoleIds /\ Cardinality(WithName(name)) <= 1 + Cardinality(Blamed(name)) /\ D \subseteq Runs
    BY DEF WithName, CommandsInv, Counted
  <2>3. Blamed(name) \subseteq D
    BY <2>1
  <2> HIDE DEF D
  <2>4. Cardinality(WithName(name)) <= 1 + Cardinality(D)
    BY <2>2, <2>3, NoMore
  <2> QED BY <2>4 DEF D
<1> QED BY <1>1, <1>2, <1>3 DEF PurgesTell

----------------------------------------------------------------------------
(* The desk                                                                *)

DeskInv == RecordsInv /\ CommandsInv /\ PagesInv /\ lines \in Seq(Nat)

LEMMA DeskInitInv == Init => DeskInv
<1> SUFFICES ASSUME Init PROVE DeskInv
  OBVIOUS
<1>1. RecordsInit /\ CommandsInit /\ PagesInit /\ lines = <<>>
  BY DEF Init, RepliesInit
<1>2. lines \in Seq(Nat)
  BY <1>1
<1> QED BY <1>1, <1>2, RecordsInitInv, CommandsInitInv, PagesInitInv DEF DeskInv

LEMMA DeskStepKeeps == DeskInv /\ [Next]_all => DeskInv' /\ Turns
<1> SUFFICES ASSUME DeskInv, [Next]_all PROVE DeskInv' /\ Turns
  OBVIOUS
<1>1. UNCHANGED recordsVars => RecordsInv'
  <2> SUFFICES ASSUME UNCHANGED recordsVars PROVE RecordsInv'
    OBVIOUS
  <2>1. listed' \in [Members -> SUBSET Approvals] /\ saveLeft' \in [SaveDisturbances -> Nat]
    BY DEF recordsVars, DeskInv, RecordsInv, RecordsTypeOK
  <2> QED BY <2>1, RecordsStillKeeps DEF recordsVars, DeskInv
<1>2. UNCHANGED commandVars => CommandsInv'
  BY CommandsStillKeeps DEF DeskInv
<1>3. UNCHANGED pagesVars => PagesInv' /\ Turns
  BY PagesStillKeeps DEF DeskInv
<1>4. UNCHANGED repliesVars => (lines \in Seq(Nat))'
  BY DEF repliesVars, DeskInv
<1>5. CASE RecordsNext /\ UNCHANGED besideRecords
  <2>1. RecordsInv'
    BY <1>5, RecordsStepKeeps DEF DeskInv
  <2>2. UNCHANGED commandVars /\ UNCHANGED pagesVars /\ UNCHANGED repliesVars
    BY <1>5 DEF besideRecords
  <2> QED BY <1>2, <1>3, <1>4, <2>1, <2>2 DEF DeskInv
<1>6. CASE CommandsNext /\ UNCHANGED besideCommands
  <2>1. CommandsInv'
    BY <1>6, CommandsStepKeeps DEF DeskInv
  <2>2. UNCHANGED recordsVars /\ UNCHANGED pagesVars /\ UNCHANGED repliesVars
    BY <1>6 DEF besideCommands
  <2> QED BY <1>1, <1>3, <1>4, <2>1, <2>2 DEF DeskInv
<1>7. CASE RepliesNext /\ UNCHANGED besideReplies
  <2>1. (lines \in Seq(Nat))'
    <3>1. PICK n \in LineLengths : lines' = Append(lines, n)
      BY <1>7 DEF RepliesNext
    <3>2. n \in Nat
      BY <3>1, RepliesAssumption
    <3> QED BY <3>1, <3>2 DEF DeskInv
  <2>2. UNCHANGED recordsVars /\ UNCHANGED commandVars /\ UNCHANGED pagesVars
    BY <1>7 DEF besideReplies
  <2> QED BY <1>1, <1>2, <1>3, <2>1, <2>2 DEF DeskInv
<1>8. CASE OfPages(PagesNext)
  <2>1. PagesInv' /\ Turns
    BY <1>8, PagesStepKeeps DEF OfPages, DeskInv
  <2>2. UNCHANGED recordsVars /\ UNCHANGED commandVars /\ UNCHANGED repliesVars
    BY <1>8 DEF OfPages, besidePages
  <2> QED BY <1>1, <1>2, <1>4, <2>1, <2>2 DEF DeskInv
<1>9. CASE UNCHANGED all
  <2>1. UNCHANGED recordsVars /\ UNCHANGED commandVars /\ UNCHANGED repliesVars /\ UNCHANGED pagesVars
    BY <1>9 DEF all
  <2> QED BY <1>1, <1>2, <1>3, <1>4, <2>1 DEF DeskInv
<1> QED BY <1>5, <1>6, <1>7, <1>8, <1>9 DEF Next

(* The desk keeps its invariant, and each step turns a reply's page only   *)
(* when the runner presses.                                                *)
THEOREM DeskInvHolds == Spec => []DeskInv
<1>1. DeskInv /\ [Next]_all => DeskInv'
  BY DeskStepKeeps
<1> QED BY <1>1, DeskInitInv, PTL DEF Spec

(* However saves, role changes and approvals race, the change log tells    *)
(* whose note a record has and who gave what a removal took back; and      *)
(* however purges race, fail and panic, no Foxhole role is gone from the   *)
(* server, and one there twice is told of (foxhole_store.go, foxhole.go).  *)
THEOREM DeskAlwaysTells == Spec => []DeskTells
<1>1. DeskInv => DeskTells
  <2> SUFFICES ASSUME DeskInv PROVE DeskTells
    OBVIOUS
  <2>1. PagesTypeOK
    BY DEF DeskInv, PagesInv, PagesTypeOK, Presses
  <2> QED BY <2>1, CommandsTell DEF DeskInv, DeskTells, TypesOK, RecordsInv, CommandsInv
<1> QED BY <1>1, DeskInvHolds, PTL

(* A reply is never longer than Discord takes, for lines of any length and *)
(* any limit that leaves room for the count of the rest, and its count     *)
(* leaves no line out (foxhole_bulkadd.go, foxhole_bulkadd_internal.go).   *)
THEOREM RepliesAlwaysFit == Spec => []RepliesFit
<1>1. DeskInv => RepliesFit
  BY FitFollows DEF DeskInv
<1> QED BY <1>1, DeskInvHolds, PTL

(* Each page of a list fits its embed, the store has the pages arrows lead *)
(* to, a press is told by the date it read, and nobody but the runner      *)
(* turns the reply's page (paged_lists.go).                                *)
THEOREM PagesAlwaysRight == Spec => PagesRight
<1>1. DeskInv => (which = "layout" => \A p \in 1 .. Total : PageLength(p) <= PageLimit)
  BY PageFits DEF DeskInv, PagesInv
<1>2. DeskInv => (which = "pages" =>
         /\ reply.at = "shown" /\ reply.arrows /\ days <= reply.ran + Retention => stored
         /\ \A r \in Readers :
              /\ press[r].at = "page" => press[r].now < reply.ran + Retention
              /\ press[r].at = "expired" => press[r].read >= reply.ran + Retention)
  BY DEF DeskInv, PagesInv
<1>3. DeskInv /\ [Next]_all => [reply.at = "shown" /\ reply'.page # reply.page =>
          press[Runner].at = "page" /\ press'[Runner] = NoPress]_all
  BY DeskStepKeeps DEF Turns
<1>4. Spec => [][Next]_all
  BY PTL DEF Spec
<1> QED BY <1>1, <1>2, <1>3, <1>4, DeskInvHolds, PTL DEF PagesRight
=============================================================================
