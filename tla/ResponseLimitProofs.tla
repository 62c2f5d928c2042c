------------------------ MODULE ResponseLimitProofs ------------------------
(***************************************************************************)
(* What ResponseLimit promises, for any documents and any limit.  The      *)
(* sizes are sums over the elements of a sequence, so that they are        *)
(* numbers, that some array is the largest and that a cut leaves something *)
(* of it comes first.  The rest follows what is left of the document back  *)
(* to what the tool returned.                                              *)
(***************************************************************************)
EXTENDS ResponseLimit, FiniteSetTheorems, WellFoundedInduction, TLAPS

\* What is left of items is neighbours of theirs, not nothing, and the newest of
\* a past series.
CutOf(left, items) ==
    /\ \E skip \in 0..Len(items) - Len(left) :
          \A i \in DOMAIN left : left[i].time = items[skip + i].time
    /\ Len(items) > 0 => Len(left) > 0
    /\ NewestOf(left, items)

\* The sections left, and their rows.
SectionsCut ==
    \E skip \in 0..Len(full) - Len(doc) :
        \A i \in DOMAIN doc :
            /\ doc[i].time = full[skip + i].time
            /\ CutOf(doc[i].rows, full[skip + i].rows)

\* The notice has an array once it is cut, and nothing wrong about it.
Noticed(path) ==
    /\ InNotice(path)
    /\ Len(ArrayAt(doc, path)) <= Len(ArrayAt(full, path))
    /\ \A k \in DOMAIN cuts : cuts[k].path = path =>
          /\ cuts[k].kept = Len(ArrayAt(doc, path))
          /\ cuts[k].total = Len(ArrayAt(full, path))

AllNoticed ==
    /\ Noticed(0)
    /\ Len(doc) = Len(full) \/ SectionsStay =>
          \A path \in Paths(doc) : Noticed(path)

LimitInv ==
    TypeOK /\ CutOf(doc, full) /\ SectionsCut /\ AllNoticed /\ FitsOrBare

-----------------------------------------------------------------------------
(* Sums. *)

\* A set of numbers that is not empty has a least one.
LEMMA LeastNumber ==
    ASSUME NEW T \in SUBSET Nat, T # {}
    PROVE  \E x \in T : \A y \in T : x <= y
<1>1. IsWellFoundedOn(OpToRel(<, Nat), Nat)
  BY NatLessThanWellFounded
<1>2. PICK x \in T : \A y \in T : <<y, x>> \notin OpToRel(<, Nat)
  BY <1>1, WFMin
<1>3. \A y \in T : ~(y < x)
  BY <1>2 DEF OpToRel
<1>. QED BY <1>3

\* The element a sum over s takes first, and what is left.
First(s) == CHOOSE x \in s : TRUE
Rest(s) == s \ {First(s)}

\* The sets of at most n elements of S.
UpTo(S, n) == {s \in SUBSET S : Cardinality(s) <= n}

\* g[s] is the sum of w over s, for the sets in D.
Sums(g, D, w) ==
    g = [s \in D |-> IF s = {} THEN 0 ELSE w[First(s)] + g[Rest(s)]]

\* Without its first element a finite set is smaller by one.
LEMMA RestSmaller ==
    ASSUME NEW S, IsFiniteSet(S), NEW s \in SUBSET S, s # {}
    PROVE  /\ First(s) \in s /\ Rest(s) \in SUBSET S
           /\ Cardinality(s) \in Nat \ {0} /\ Cardinality(Rest(s)) = Cardinality(s) - 1
<1>1. First(s) \in s
  BY DEF First
<1>2. IsFiniteSet(s)
  BY FS_Subset
<1>3. Cardinality(Rest(s)) = Cardinality(s) - 1
  BY <1>1, <1>2, FS_RemoveElement DEF Rest
<1>4. Cardinality(s) \in Nat /\ Cardinality(s) # 0
  BY <1>2, FS_CardinalityType, FS_EmptySet
<1>. QED BY <1>1, <1>3, <1>4 DEF Rest

\* The sums over the sets of up to n elements exist.
LEMMA SumsExist ==
    ASSUME NEW S, IsFiniteSet(S), NEW w \in [S -> Nat], NEW n \in Nat
    PROVE  \E g \in [UpTo(S, n) -> Nat] : Sums(g, UpTo(S, n), w)
<1> DEFINE Bad == {k \in Nat : ~\E g \in [UpTo(S, k) -> Nat] : Sums(g, UpTo(S, k), w)}
<1>1. Bad \in SUBSET Nat
  OBVIOUS
<1>2. SUFFICES ASSUME Bad # {} PROVE FALSE
  OBVIOUS
<1>3. PICK k \in Bad : \A j \in Bad : k <= j
  BY <1>1, <1>2, LeastNumber
<1>4. CASE k = 0
  <2> DEFINE g == [s \in UpTo(S, 0) |-> 0]
  <2>1. \A s \in UpTo(S, 0) : s = {}
    <3>1. SUFFICES ASSUME NEW s \in SUBSET S, Cardinality(s) <= 0, s # {} PROVE FALSE
      BY DEF UpTo
    <3>. QED BY <3>1, RestSmaller
  <2>2. g \in [UpTo(S, 0) -> Nat]
    OBVIOUS
  <2>3. g = [s \in UpTo(S, 0) |-> IF s = {} THEN 0 ELSE w[First(s)] + g[Rest(s)]]
    BY <2>1
  <2>. QED BY <1>3, <1>4, <2>2, <2>3 DEF Sums
<1>5. CASE k # 0
  <2>1. k - 1 \in Nat /\ k - 1 \notin Bad
    BY <1>3, <1>5
  <2>2. PICK g \in [UpTo(S, k - 1) -> Nat] : Sums(g, UpTo(S, k - 1), w)
    BY <2>1
  <2> DEFINE h == [s \in UpTo(S, k) |-> IF s = {} THEN 0 ELSE w[First(s)] + g[Rest(s)]]
  <2>3. \A s \in UpTo(S, k) : s # {} => /\ First(s) \in S /\ Rest(s) \in UpTo(S, k - 1)
                                        /\ Rest(s) \in UpTo(S, k)
    BY <1>3, <2>1, RestSmaller DEF UpTo
  <2>4. h \in [UpTo(S, k) -> Nat]
    BY <2>3
  <2>5. \A s \in UpTo(S, k - 1) : s \in UpTo(S, k) /\ h[s] = g[s]
    <3>1. SUFFICES ASSUME NEW s \in UpTo(S, k - 1) PROVE s \in UpTo(S, k) /\ h[s] = g[s]
      OBVIOUS
    <3>2. s \in UpTo(S, k)
      <4>1. Cardinality(s) \in Nat
        BY FS_Subset, FS_CardinalityType DEF UpTo
      <4>. QED BY <1>3, <4>1 DEF UpTo
    <3>3. g[s] = IF s = {} THEN 0 ELSE w[First(s)] + g[Rest(s)]
      BY <2>2 DEF Sums
    <3>. QED BY <3>2, <3>3
  <2>6. h = [s \in UpTo(S, k) |-> IF s = {} THEN 0 ELSE w[First(s)] + h[Rest(s)]]
    BY <2>3, <2>5
  <2>7. Sums(h, UpTo(S, k), w)
    BY <2>6 DEF Sums
  <2>. QED BY <1>3, <2>4, <2>7
<1>. QED BY <1>4, <1>5

\* Sums of numbers are numbers.
LEMMA SumsNat ==
    ASSUME NEW S, IsFiniteSet(S), NEW w \in [S -> Nat], NEW g,
           Sums(g, SUBSET S, w)
    PROVE  g[S] \in Nat
<1> DEFINE Bad == {n \in Nat : \E s \in SUBSET S : Cardinality(s) = n /\ g[s] \notin Nat}
<1>1. SUFFICES ASSUME g[S] \notin Nat PROVE FALSE
  OBVIOUS
<1>2. Cardinality(S) \in Bad
  BY <1>1, FS_CardinalityType
<1>3. Bad \in SUBSET Nat
  OBVIOUS
<1>4. PICK n \in Bad : \A m \in Bad : n <= m
  BY <1>2, <1>3, LeastNumber
<1>5. PICK s \in SUBSET S : Cardinality(s) = n /\ g[s] \notin Nat
  BY <1>4
<1>6. g[s] = IF s = {} THEN 0 ELSE w[First(s)] + g[Rest(s)]
  BY DEF Sums
<1>7. s # {}
  BY <1>5, <1>6
<1>8. /\ First(s) \in S /\ Rest(s) \in SUBSET S /\ n \in Nat \ {0}
      /\ Cardinality(Rest(s)) = n - 1
  BY <1>5, <1>7, RestSmaller
<1>9. g[Rest(s)] \notin Nat
  BY <1>5, <1>6, <1>7, <1>8
<1>10. n - 1 \in Bad
  BY <1>8, <1>9
<1>. QED BY <1>4, <1>8, <1>10

\* Total adds the numbers of a finite collection.
LEMMA TotalNat ==
    ASSUME NEW S, IsFiniteSet(S), NEW w \in [S -> Nat]
    PROVE  Total(w) \in Nat
<1> DEFINE g == CHOOSE g : Sums(g, SUBSET S, w)
<1>1. \E h : Sums(h, SUBSET S, w)
  <2>1. UpTo(S, Cardinality(S)) = SUBSET S
    BY FS_Subset DEF UpTo
  <2>2. Cardinality(S) \in Nat
    BY FS_CardinalityType
  <2>3. \E h \in [UpTo(S, Cardinality(S)) -> Nat] :
           Sums(h, UpTo(S, Cardinality(S)), w)
    BY <2>2, SumsExist, Zenon
  <2>. QED BY <2>1, <2>3, Zenon
<1>2. Sums(g, SUBSET S, w)
  BY <1>1
<1>3. Total(w) = g[S]
  <2>1. DOMAIN w = S
    OBVIOUS
  <2>. QED BY <2>1 DEF Total, MapThenSumSet, MapThenFoldSet, Sums, First, Rest
<1>4. g[S] \in Nat
  <2>. HIDE DEF g
  <2>. QED BY <1>2, SumsNat
<1>. QED BY <1>3, <1>4


-----------------------------------------------------------------------------
(* The array that is cut. *)

\* A section and its rows.
LEMMA SectionParts ==
    ASSUME NEW d \in Seq(Section), NEW i \in DOMAIN d
    PROVE  /\ d[i] \in Section /\ d[i].time \in Nat /\ d[i].weight \in Nat
           /\ d[i].rows \in Seq(Row)
<1>1. d[i] \in Section
  OBVIOUS
<1>. QED BY <1>1 DEF Section

\* Rows have a weight.
LEMMA WeightNat ==
    ASSUME NEW rows \in Seq(Row)
    PROVE  Weight(rows) \in Nat
<1> DEFINE w == [i \in DOMAIN rows |-> rows[i].weight]
<1>1. IsFiniteSet(1..Len(rows)) /\ DOMAIN rows = 1..Len(rows)
  BY FS_Interval
<1>2. w \in [DOMAIN rows -> Nat]
  <2>1. \A i \in DOMAIN rows : rows[i] \in Row
    OBVIOUS
  <2>. QED BY <2>1 DEF Row
<1>. HIDE DEF w
<1>3. Total(w) \in Nat
  BY <1>1, <1>2, TotalNat
<1>. QED BY <1>3 DEF Weight, w

\* So have documents and each array of them.
LEMMA SizesNat ==
    ASSUME NEW d \in Seq(Section)
    PROVE  /\ SectionsSize(d) \in Nat /\ Size(d) \in Nat
           /\ \A p \in Paths(d) : ArraySize(d, p) \in Nat /\ Len(ArrayAt(d, p)) \in Nat
<1> DEFINE w == [i \in DOMAIN d |-> d[i].weight + Weight(d[i].rows)]
<1>1. IsFiniteSet(1..Len(d)) /\ DOMAIN d = 1..Len(d)
  BY FS_Interval
<1>2. w \in [DOMAIN d -> Nat]
  BY SectionParts, WeightNat
<1>3. Total(w) \in Nat
  <2>. HIDE DEF w
  <2>. QED BY <1>1, <1>2, TotalNat
<1>4. SectionsSize(d) \in Nat
  BY <1>3 DEF SectionsSize
<1>5. Size(d) \in Nat
  BY <1>4, ResponseLimitAssumption DEF Size
<1>6. ASSUME NEW p \in Paths(d)
      PROVE  ArraySize(d, p) \in Nat /\ Len(ArrayAt(d, p)) \in Nat
  <2>1. CASE p = 0
    BY <1>4, <2>1 DEF ArraySize, ArrayAt
  <2>2. CASE p # 0
    <3>1. p \in DOMAIN d
      BY <1>6, <2>2 DEF Paths
    <3>2. d[p].rows \in Seq(Row)
      BY <3>1, SectionParts
    <3>. QED BY <2>2, <3>2, WeightNat DEF ArraySize, ArrayAt
  <2>. QED BY <2>1, <2>2
<1>. QED BY <1>4, <1>5, <1>6

\* Among some of finitely many values there is a highest.
LEMMA HighestExists ==
    ASSUME NEW n \in Nat, NEW S \in SUBSET (0..n), S # {}, NEW f \in [0..n -> Nat]
    PROVE  \E p \in S : \A q \in S : f[q] <= f[p]
<1> DEFINE Top(p, k) == p <= k /\ \A q \in S : q <= k => f[q] <= f[p]
           Bad == {k \in 0..n : (\E q \in S : q <= k) /\ ~\E p \in S : Top(p, k)}
<1>0. \A q \in S : q \in Nat /\ f[q] \in Nat /\ q <= n
  OBVIOUS
<1>1. n \notin Bad
  <2>1. SUFFICES ASSUME Bad # {} PROVE FALSE
    OBVIOUS
  <2>2. Bad \in SUBSET Nat
    OBVIOUS
  <2>3. PICK k \in Bad : \A j \in Bad : k <= j
    <3>. HIDE DEF Bad
    <3>. QED BY <2>1, <2>2, LeastNumber
  <2>4. k \in 0..n /\ (\E q \in S : q <= k) /\ ~\E p \in S : Top(p, k)
    BY <2>3
  <2>5. CASE \A q \in S : q <= k => q = k
    <3>1. k \in S
      BY <2>4, <2>5
    <3>2. Top(k, k)
      BY <1>0, <2>4, <2>5, <3>1
    <3>. QED BY <2>4, <3>1, <3>2
  <2>6. ASSUME NEW r \in S, r <= k, r # k PROVE FALSE
    <3>1. k - 1 \in 0..n /\ r <= k - 1
      BY <1>0, <2>4, <2>6
    <3>2. k - 1 \notin Bad
      <4>1. k - 1 \in Bad => k <= k - 1
        <5>. HIDE DEF Bad
        <5>. QED BY <2>3
      <4>. QED BY <2>4, <4>1
    <3>3. PICK p \in S : Top(p, k - 1)
      BY <3>1, <3>2
    <3>4. k \in Nat
      BY <2>4
    <3>5. \A q \in S : q <= k => q = k \/ q <= k - 1
      BY <1>0, <3>4
    <3>6. /\ p <= k /\ f[p] \in Nat
          /\ \A q \in S : q <= k - 1 => f[q] <= f[p]
      BY <1>0, <3>3, <3>4
    <3>7. CASE k \in S /\ f[p] < f[k]
      <4>1. \A q \in S : q <= k => f[q] <= f[k]
        <5>1. SUFFICES ASSUME NEW q \in S, q <= k PROVE f[q] <= f[k]
          OBVIOUS
        <5>2. f[q] \in Nat /\ f[k] \in Nat
          BY <1>0, <3>7
        <5>3. q = k \/ f[q] <= f[p]
          BY <3>5, <3>6, <5>1
        <5>4. f[p] \in Nat /\ f[p] < f[k]
          BY <3>6, <3>7
        <5>5. CASE q = k
          <6>1. f[q] = f[k]
            BY <5>5
          <6>. QED BY <5>2, <6>1
        <5>6. CASE f[q] <= f[p]
          BY <5>2, <5>4, <5>6
        <5>. QED BY <5>3, <5>5, <5>6
      <4>2. Top(k, k)
        BY <3>4, <4>1
      <4>. QED BY <2>4, <3>7, <4>2
    <3>8. CASE ~(k \in S /\ f[p] < f[k])
      <4>1. \A q \in S : q <= k => f[q] <= f[p]
        BY <1>0, <3>5, <3>6, <3>8
      <4>2. Top(p, k)
        BY <3>6, <4>1
      <4>. QED BY <2>4, <4>2
    <3>. QED BY <3>7, <3>8
  <2>. QED BY <2>5, <2>6
<1>2. \E p \in S : Top(p, n)
  <2>1. n \in 0..n
    OBVIOUS
  <2>2. PICK q \in S : TRUE
    OBVIOUS
  <2>3. q <= n
    BY <1>0
  <2>. HIDE DEF Top
  <2>. QED BY <1>1, <2>1, <2>3
<1>3. PICK p \in S : Top(p, n)
  BY <1>2
<1>4. \A q \in S : f[q] <= f[p]
  BY <1>0, <1>3
<1>. QED BY <1>4

\* Some array is the longest, and the largest of its length; largest_array is
\* one of those that can be cut.
LEMMA LargestCanBeCut ==
    ASSUME NEW d \in Seq(Section), Candidates(d) # {}
    PROVE  LargestArray(d) \in Candidates(d)
<1> DEFINE n == Len(d)
           longest == {p \in Candidates(d) :
                          \A q \in Candidates(d) : Len(ArrayAt(d, q)) <= Len(ArrayAt(d, p))}
           best == {p \in Candidates(d) : \A q \in Candidates(d) : ~Longer(d, q, p)}
<1>1. n \in Nat /\ Candidates(d) \in SUBSET (0..n)
  BY DEF Candidates, Paths
<1>2. \A p \in 0..n : ArraySize(d, p) \in Nat /\ Len(ArrayAt(d, p)) \in Nat
  BY SizesNat DEF Paths
<1>3. longest # {}
  <2> DEFINE f == [p \in 0..n |-> Len(ArrayAt(d, p))]
  <2>1. f \in [0..n -> Nat]
    BY <1>2
  <2>2. \A p \in Candidates(d) : f[p] = Len(ArrayAt(d, p))
    BY <1>1
  <2>. HIDE DEF f, n
  <2>3. \E p \in Candidates(d) : \A q \in Candidates(d) : f[q] <= f[p]
    BY <1>1, <2>1, HighestExists
  <2>. QED BY <2>2, <2>3
<1>4. \E p \in longest : \A q \in longest : ArraySize(d, q) <= ArraySize(d, p)
  <2> DEFINE f == [p \in 0..n |-> ArraySize(d, p)]
  <2>1. f \in [0..n -> Nat]
    BY <1>2
  <2>2. longest \in SUBSET (0..n)
    BY <1>1
  <2>3. \A p \in longest : f[p] = ArraySize(d, p)
    BY <2>2
  <2>. HIDE DEF f, n, longest
  <2>4. \E p \in longest : \A q \in longest : f[q] <= f[p]
    BY <1>1, <1>3, <2>1, <2>2, HighestExists
  <2>. QED BY <2>3, <2>4
<1>5. best # {}
  <2>1. PICK p \in longest : \A q \in longest : ArraySize(d, q) <= ArraySize(d, p)
    BY <1>4
  <2>2. ASSUME NEW q \in Candidates(d), Longer(d, q, p) PROVE FALSE
    <3>1. q \in 0..n /\ p \in 0..n /\ p \in Candidates(d)
      BY <1>1
    <3>2. Len(ArrayAt(d, q)) <= Len(ArrayAt(d, p))
      OBVIOUS
    <3>3. Len(ArrayAt(d, q)) = Len(ArrayAt(d, p)) /\ ArraySize(d, q) > ArraySize(d, p)
      BY <1>2, <2>2, <3>1, <3>2 DEF Longer
    <3>4. q \in longest
      BY <3>3
    <3>5. ArraySize(d, q) <= ArraySize(d, p)
      <4>. HIDE DEF longest, best, n
      <4>. QED BY <2>1, <3>4
    <3>6. ArraySize(d, q) \in Nat /\ ArraySize(d, p) \in Nat
      BY <1>2, <3>1
    <3>. QED BY <3>3, <3>5, <3>6
  <2>. QED BY <2>2
<1>6. best \subseteq Candidates(d)
  OBVIOUS
<1>7. Max(best) \in best
  <2> DEFINE f == [p \in 0..n |-> p]
  <2>1. f \in [0..n -> Nat] /\ best \in SUBSET (0..n) /\ \A p \in best : f[p] = p
    BY <1>1
  <2>. HIDE DEF f, n, best
  <2>2. \E p \in best : \A q \in best : f[q] <= f[p]
    BY <1>1, <1>5, <2>1, HighestExists
  <2>3. \E p \in best : \A q \in best : p >= q
    BY <2>1, <2>2
  <2>. QED BY <2>3, Zenon DEF Max
<1>8. LargestArray(d) \in best
  <2>1. LargestArray(d) = IF 0 \in best THEN 0 ELSE Max(best)
    BY DEF LargestArray
  <2>. HIDE DEF best
  <2>. QED BY <1>7, <2>1
<1>. QED BY <1>6, <1>8

\* At least one element stays and at least one goes.
LEMMA KeepInside ==
    ASSUME NEW total \in Nat, total > 1, NEW size \in Nat, size > 0
    PROVE  Keep(total, size) \in 1..total - 1
<1> DEFINE a == total * Limit * 9
           b == size * 10
<1>1. a \in Nat /\ b \in Nat /\ b > 0
  BY ResponseLimitAssumption
<1>2. a \div b \in Int
  <2>. HIDE DEF a, b
  <2>. QED BY <1>1
<1>. HIDE DEF a, b
<1>3. Keep(total, size) =
         IF a \div b < 1 THEN 1 ELSE IF a \div b > total - 1 THEN total - 1 ELSE a \div b
  BY DEF Keep, a, b
<1>. QED BY <1>2, <1>3

-----------------------------------------------------------------------------
(* A cut. *)

\* The elements a cut leaves.
LEMMA KeptElements ==
    ASSUME NEW T, NEW items \in Seq(T), NEW keep \in 1..Len(items) - 1
    PROVE  /\ Kept(items, keep) \in Seq(T) /\ Len(Kept(items, keep)) = keep
           /\ DOMAIN Kept(items, keep) = 1..keep
           /\ KeepTail(items) => \A i \in 1..keep :
                 Kept(items, keep)[i] = items[(Len(items) - keep) + i]
           /\ ~KeepTail(items) => \A i \in 1..keep : Kept(items, keep)[i] = items[i]
<1>1. Len(items) \in Nat /\ keep \in Nat /\ keep >= 1 /\ keep <= Len(items) - 1
  OBVIOUS
<1> DEFINE off == Len(items) - keep
<1>2. off \in Nat /\ off + keep = Len(items)
  BY <1>1
<1>3. CASE KeepTail(items)
  <2>1. Kept(items, keep) = SubSeq(items, off + 1, Len(items))
    BY <1>3 DEF Kept
  <2>2. /\ SubSeq(items, off + 1, Len(items)) \in Seq(T)
        /\ Len(SubSeq(items, off + 1, Len(items))) = keep
        /\ \A i \in 1..keep : SubSeq(items, off + 1, Len(items))[i] = items[off + i]
    <3>. HIDE DEF off
    <3>. QED BY <1>1, <1>2
  <2>. HIDE DEF off
  <2>. QED BY <1>3, <2>1, <2>2 DEF off
<1>4. CASE ~KeepTail(items)
  <2>1. Kept(items, keep) = SubSeq(items, 1, keep)
    BY <1>4 DEF Kept
  <2>2. /\ SubSeq(items, 1, keep) \in Seq(T)
        /\ Len(SubSeq(items, 1, keep)) = keep
        /\ \A i \in 1..keep : SubSeq(items, 1, keep)[i] = items[i]
    BY <1>1
  <2>. QED BY <1>4, <2>1, <2>2
<1>. QED BY <1>3, <1>4

\* What is left of a cut of a cut is a cut.
LEMMA CutAgain ==
    ASSUME NEW T, \A x \in T : x.time \in Nat,
           NEW items \in Seq(T), NEW left \in Seq(T), CutOf(left, items),
           Len(left) > 1, NEW keep \in 1..Len(left) - 1
    PROVE  CutOf(Kept(left, keep), items)
<1> DEFINE kept == Kept(left, keep)
<1>0. /\ Len(left) \in Nat /\ Len(items) \in Nat /\ keep \in Nat /\ keep >= 1
      /\ keep < Len(left)
      /\ \A i \in 1..Len(items) : items[i].time \in Nat
      /\ \A i \in 1..Len(left) : left[i].time \in Nat
  OBVIOUS
<1>1. PICK skip \in 0..Len(items) - Len(left) :
         \A i \in DOMAIN left : left[i].time = items[skip + i].time
  BY DEF CutOf
<1>2. /\ Len(kept) = keep /\ DOMAIN kept = 1..keep
      /\ KeepTail(left) => \A i \in 1..keep : kept[i] = left[(Len(left) - keep) + i]
      /\ ~KeepTail(left) => \A i \in 1..keep : kept[i] = left[i]
  BY KeptElements
<1>. HIDE DEF kept
<1>3. \E s \in 0..Len(items) - Len(kept) :
         \A i \in DOMAIN kept : kept[i].time = items[s + i].time
  <2>1. CASE KeepTail(left)
    <3> DEFINE s == skip + (Len(left) - keep)
    <3>1. s \in 0..Len(items) - Len(kept)
      BY <1>0, <1>1, <1>2
    <3>2. ASSUME NEW i \in DOMAIN kept PROVE kept[i].time = items[s + i].time
      <4>1. i \in 1..keep /\ (Len(left) - keep) + i \in DOMAIN left
        BY <1>0, <1>2
      <4>2. kept[i].time = items[skip + ((Len(left) - keep) + i)].time
        BY <1>1, <1>2, <2>1, <4>1
      <4>3. skip + ((Len(left) - keep) + i) = s + i
        BY <1>0, <1>1, <4>1
      <4>. QED BY <4>2, <4>3
    <3>. HIDE DEF s
    <3>. QED BY <3>1, <3>2
  <2>2. CASE ~KeepTail(left)
    <3>1. skip \in 0..Len(items) - Len(kept)
      BY <1>0, <1>1, <1>2
    <3>2. ASSUME NEW i \in DOMAIN kept PROVE kept[i].time = items[skip + i].time
      <4>1. i \in 1..keep /\ i \in DOMAIN left
        BY <1>0, <1>2
      <4>. QED BY <1>1, <1>2, <2>2, <4>1
    <3>. QED BY <3>1, <3>2
  <2>. QED BY <2>1, <2>2
<1>4. NewestOf(kept, items)
  <2>1. SUFFICES ASSUME IsPastSeries(items)
                 PROVE  kept[keep].time = items[Len(items)].time
    BY <1>2 DEF NewestOf, Last
  <2>2. left[Len(left)].time = items[Len(items)].time
    BY <2>1 DEF CutOf, NewestOf, Last
  <2>3. CASE KeepTail(left)
    <3>1. keep \in 1..keep /\ (Len(left) - keep) + keep = Len(left)
      BY <1>0
    <3>. QED BY <1>2, <2>2, <2>3, <3>1
  <2>4. CASE ~KeepTail(left)
    \* Not past the oldest of what is left, all of it is of one time.
    <3>1. /\ items[1].time # 0 /\ items[Len(items)].time <= Now
          /\ \A i, j \in DOMAIN items : i < j => items[i].time <= items[j].time
      BY <2>1 DEF IsPastSeries, Last
    <3>2. /\ 1 \in DOMAIN left /\ keep \in DOMAIN left /\ Len(left) \in DOMAIN left
          /\ skip + 1 \in DOMAIN items /\ skip + keep \in DOMAIN items
          /\ skip + Len(left) \in DOMAIN items
          /\ 1 \in DOMAIN items /\ Len(items) \in DOMAIN items
      BY <1>0, <1>1
    <3>3. /\ left[1].time = items[skip + 1].time
          /\ left[keep].time = items[skip + keep].time
          /\ left[Len(left)].time = items[skip + Len(left)].time
      BY <1>1, <3>2
    <3>4. /\ items[1].time <= items[skip + 1].time
          /\ items[skip + 1].time <= items[skip + keep].time
          /\ items[skip + keep].time <= items[skip + Len(left)].time
      <4>1. \A i, j \in DOMAIN items : i <= j => items[i].time <= items[j].time
        BY <1>0, <3>1
      <4>2. 1 <= skip + 1 /\ skip + 1 <= skip + keep /\ skip + keep <= skip + Len(left)
        BY <1>0, <1>1
      <4>. QED BY <3>2, <4>1, <4>2
    <3>5. /\ left[1].time \in Nat /\ left[keep].time \in Nat
          /\ left[Len(left)].time \in Nat /\ items[1].time \in Nat
      BY <1>0, <3>2
    <3>6. left[1].time # 0
      BY <3>1, <3>3, <3>4, <3>5
    <3>7. left[1].time <= left[keep].time /\ left[keep].time <= left[Len(left)].time
      BY <3>3, <3>4
    <3>8. left[Len(left)].time # 0 /\ left[Len(left)].time <= Now
      BY <2>2, <3>1, <3>5, <3>6, <3>7
    <3>9. ~(left[1].time < left[Len(left)].time)
      BY <2>4, <3>6, <3>8 DEF KeepTail
    <3>10. left[keep].time = left[Len(left)].time
      BY <3>5, <3>7, <3>9
    <3>. QED BY <1>0, <1>2, <2>2, <2>4, <3>10
  <2>. QED BY <2>3, <2>4
<1>5. Len(kept) > 0
  BY <1>0, <1>2
<1>. QED BY <1>3, <1>4, <1>5 DEF CutOf, kept

-----------------------------------------------------------------------------
(* The notice. *)

\* What a cut does to the notice.
NotedWell(new, path, keep, total) ==
    /\ new \in Seq(Cut)
    /\ \E k \in DOMAIN new : new[k].path = path
    /\ \A k \in DOMAIN new :
          IF new[k].path # path THEN \E j \in DOMAIN cuts : cuts[j] = new[k]
          ELSE /\ new[k].kept = keep
               /\ \/ \E j \in DOMAIN cuts : cuts[j].path = path
                                            /\ cuts[j].total = new[k].total
                  \/ /\ \A j \in DOMAIN cuts : cuts[j].path # path
                     /\ new[k].total = total
    /\ \A j \in DOMAIN cuts : cuts[j].path # path => \E k \in DOMAIN new : new[k] = cuts[j]

\* It is just that.
LEMMA NotedFacts ==
    ASSUME cuts \in Seq(Cut), NEW path \in Nat, NEW keep \in Nat, NEW items,
           Len(items) \in Nat
    PROVE  NotedWell(Noted(path, keep, items), path, keep, Len(items))
<1> DEFINE new == Noted(path, keep, items)
<1>0. \A j \in DOMAIN cuts : cuts[j] \in Cut
  OBVIOUS
<1>1. CASE \E k \in DOMAIN cuts : cuts[k].path = path
  <2>1. new = [k \in DOMAIN cuts |->
                 IF cuts[k].path = path THEN [cuts[k] EXCEPT !.kept = keep]
                 ELSE cuts[k]]
    BY <1>1 DEF Noted
  <2>2. DOMAIN new = DOMAIN cuts /\ DOMAIN cuts = 1..Len(cuts) /\ Len(cuts) \in Nat
    BY <2>1
  <2>3. \A k \in DOMAIN cuts :
          /\ new[k] \in Cut /\ new[k].path = cuts[k].path
          /\ new[k].total = cuts[k].total
          /\ cuts[k].path = path => new[k].kept = keep
          /\ cuts[k].path # path => new[k] = cuts[k]
    BY <1>0, <2>1 DEF Cut
  <2>. HIDE DEF new
  <2>4. new \in Seq(Cut)
    <3>1. new \in [1..Len(cuts) -> Cut]
      BY <2>1, <2>2, <2>3
    <3>. QED BY <2>2, <3>1
  <2>. QED BY <1>1, <2>2, <2>3, <2>4 DEF new, NotedWell
<1>2. CASE ~\E k \in DOMAIN cuts : cuts[k].path = path
  <2> DEFINE cut == [path |-> path, kept |-> keep, total |-> Len(items),
                     latest |-> KeepTail(items)]
  <2>1. new = Append(cuts, cut)
    BY <1>2 DEF Noted
  <2>2. cut \in Cut
    <3>1. KeepTail(items) \in BOOLEAN
      BY DEF KeepTail
    <3>. QED BY <3>1 DEF Cut
  <2>3. cut.path = path /\ cut.kept = keep /\ cut.total = Len(items)
    OBVIOUS
  <2>. HIDE DEF cut, new
  <2>4. /\ new \in Seq(Cut) /\ Len(cuts) + 1 \in DOMAIN new
        /\ new[Len(cuts) + 1] = cut
        /\ \A k \in DOMAIN new : k = Len(cuts) + 1 \/ (k \in DOMAIN cuts /\ new[k] = cuts[k])
        /\ \A k \in DOMAIN cuts : k \in DOMAIN new /\ new[k] = cuts[k]
    BY <2>1, <2>2
  <2>. QED BY <1>2, <2>3, <2>4 DEF new, NotedWell
<1>. QED BY <1>1, <1>2

\* The array that is cut is in it then.
LEMMA NoticeMade ==
    ASSUME cuts \in Seq(Cut), NEW path \in Nat, NEW keep \in Nat,
           Noticed(path), UNCHANGED full,
           cuts' = Noted(path, keep, ArrayAt(doc, path)),
           Len(ArrayAt(doc, path)) \in Nat, Len(ArrayAt(full, path)) \in Nat,
           ArrayAt(doc, path)' = Kept(ArrayAt(doc, path), keep),
           Len(Kept(ArrayAt(doc, path), keep)) = keep,
           keep < Len(ArrayAt(doc, path))
    PROVE  Noticed(path)'
<1>0. NotedWell(cuts', path, keep, Len(ArrayAt(doc, path)))
  BY NotedFacts
<1>1. /\ Len(ArrayAt(doc, path)') = keep /\ ArrayAt(full, path)' = ArrayAt(full, path)
      /\ Len(ArrayAt(doc, path)) <= Len(ArrayAt(full, path))
  BY DEF Noticed, ArrayAt
<1>2. \A k \in DOMAIN cuts' : cuts'[k].path = path =>
         cuts'[k].kept = keep /\ cuts'[k].total = Len(ArrayAt(full, path))
  <2>1. SUFFICES ASSUME NEW k \in DOMAIN cuts', cuts'[k].path = path
                 PROVE  cuts'[k].kept = keep
                        /\ cuts'[k].total = Len(ArrayAt(full, path))
    OBVIOUS
  <2>2. /\ cuts'[k].kept = keep
        /\ \/ \E j \in DOMAIN cuts : cuts[j].path = path
                                     /\ cuts[j].total = cuts'[k].total
           \/ /\ \A j \in DOMAIN cuts : cuts[j].path # path
              /\ cuts'[k].total = Len(ArrayAt(doc, path))
    BY <1>0, <2>1 DEF NotedWell
  <2>3. CASE \E j \in DOMAIN cuts : cuts[j].path = path
                                    /\ cuts[j].total = cuts'[k].total
    BY <2>2, <2>3 DEF Noticed
  <2>4. CASE /\ \A j \in DOMAIN cuts : cuts[j].path # path
             /\ cuts'[k].total = Len(ArrayAt(doc, path))
    <3>1. ~(Len(ArrayAt(doc, path)) < Len(ArrayAt(full, path)))
      BY <2>4 DEF Noticed, InNotice
    <3>. QED BY <1>1, <2>2, <2>4, <3>1
  <2>. QED BY <2>2, <2>3, <2>4
<1>3. \E k \in DOMAIN cuts' : cuts'[k].path = path
  BY <1>0 DEF NotedWell
<1>. QED BY <1>1, <1>2, <1>3 DEF Noticed, InNotice

\* Another array stays as it was in it.
LEMMA NoticeStays ==
    ASSUME cuts \in Seq(Cut), NEW path \in Nat, NEW keep \in Nat, NEW other \in Nat,
           other # path, Noticed(other), UNCHANGED full,
           cuts' = Noted(path, keep, ArrayAt(doc, path)),
           Len(ArrayAt(doc, path)) \in Nat,
           Len(ArrayAt(doc, other)') = Len(ArrayAt(doc, other))
    PROVE  Noticed(other)'
<1>0. NotedWell(cuts', path, keep, Len(ArrayAt(doc, path)))
  BY NotedFacts
<1>1. ArrayAt(full, other)' = ArrayAt(full, other)
  BY DEF ArrayAt
<1>2. \A k \in DOMAIN cuts' : cuts'[k].path = other =>
         \E j \in DOMAIN cuts : cuts[j] = cuts'[k]
  BY <1>0 DEF NotedWell
<1>3. \A j \in DOMAIN cuts : cuts[j].path = other =>
         \E k \in DOMAIN cuts' : cuts'[k] = cuts[j]
  BY <1>0 DEF NotedWell
<1>4. Len(ArrayAt(full, other)') = Len(ArrayAt(full, other))
  BY <1>1
<1>5. InNotice(other)'
  <2>1. SUFFICES ASSUME Len(ArrayAt(doc, other)) < Len(ArrayAt(full, other))
                 PROVE  \E k \in DOMAIN cuts' :
                           /\ cuts'[k].path = other
                           /\ cuts'[k].kept = Len(ArrayAt(doc, other))
                           /\ cuts'[k].total = Len(ArrayAt(full, other))
    BY <1>4, Zenon DEF InNotice
  <2>2. PICK j \in DOMAIN cuts : /\ cuts[j].path = other
                                /\ cuts[j].kept = Len(ArrayAt(doc, other))
                                /\ cuts[j].total = Len(ArrayAt(full, other))
    BY <2>1, Zenon DEF Noticed, InNotice
  <2>3. PICK k \in DOMAIN cuts' : cuts'[k] = cuts[j]
    BY <1>3, <2>2, Zenon
  <2>. QED BY <2>2, <2>3, Zenon
<1>6. ASSUME NEW k \in DOMAIN cuts', cuts'[k].path = other
      PROVE  /\ cuts'[k].kept = Len(ArrayAt(doc, other))
             /\ cuts'[k].total = Len(ArrayAt(full, other))
  <2>1. PICK j \in DOMAIN cuts : cuts[j] = cuts'[k]
    BY <1>2, <1>6, Zenon
  <2>. QED BY <1>6, <2>1, Zenon DEF Noticed
<1>7. Len(ArrayAt(doc, other)) <= Len(ArrayAt(full, other))
  BY Zenon DEF Noticed
<1>8. /\ Len(ArrayAt(doc, other)') <= Len(ArrayAt(full, other)')
      /\ \A k \in DOMAIN cuts' : cuts'[k].path = other =>
            /\ cuts'[k].kept = Len(ArrayAt(doc, other)')
            /\ cuts'[k].total = Len(ArrayAt(full, other)')
  BY <1>4, <1>6, <1>7, Zenon
<1>. QED BY <1>5, <1>8, Zenon DEF Noticed

-----------------------------------------------------------------------------
(* Steps. *)

\* All of it is a cut.
LEMMA Uncut ==
    ASSUME NEW T, NEW items \in Seq(T)
    PROVE  CutOf(items, items)
<1>1. Len(items) \in Nat /\ 0 \in 0..Len(items) - Len(items)
  OBVIOUS
<1>2. \A i \in DOMAIN items : items[i].time = items[0 + i].time
  <2>1. \A i \in DOMAIN items : 0 + i = i
    OBVIOUS
  <2>. QED BY <2>1, Zenon
<1>. QED BY <1>1, <1>2 DEF CutOf, NewestOf

\* The start.
LEMMA InitHolds == Init => LimitInv
<1>. SUFFICES ASSUME Init PROVE LimitInv
  OBVIOUS
<1>1. doc = full /\ full \in Docs /\ full \in Seq(Section) /\ cuts = <<>> /\ done = FALSE
  BY ResponseLimitAssumption DEF Init
<1>2. TypeOK
  <2>1. cuts \in Seq(Cut)
    BY <1>1
  <2>2. done \in BOOLEAN
    BY <1>1
  <2>. QED BY <1>1, <2>1, <2>2, Zenon DEF TypeOK
<1>3. Len(full) \in Nat /\ \A i \in DOMAIN full : Len(full[i].rows) \in Nat
  <2>1. \A i \in DOMAIN full : full[i].rows \in Seq(Row)
    BY <1>1, SectionParts
  <2>. QED BY <1>1, <2>1
<1>4. CutOf(doc, full)
  BY <1>1, <1>3, Uncut
<1>5. SectionsCut
  <2>1. 0 \in 0..Len(full) - Len(doc)
    BY <1>1, <1>3
  <2>2. \A i \in DOMAIN doc : /\ 0 + i = i
                              /\ CutOf(doc[i].rows, full[i].rows)
    <3>1. \A i \in DOMAIN full : full[i].rows \in Seq(Row)
      BY <1>1, SectionParts
    <3>2. \A i \in DOMAIN full : CutOf(full[i].rows, full[i].rows)
      BY <3>1, Uncut
    <3>. QED BY <1>1, <3>2
  <2>. QED BY <1>1, <2>1, <2>2 DEF SectionsCut
<1>6. \A path \in Paths(doc) : Noticed(path)
  <2>1. SUFFICES ASSUME NEW path \in Paths(doc) PROVE Noticed(path)
    OBVIOUS
  <2>2. ArrayAt(doc, path) = ArrayAt(full, path)
    BY <1>1
  <2>3. Len(ArrayAt(doc, path)) \in Nat
    BY <1>1, SizesNat
  <2>. QED BY <1>1, <2>2, <2>3 DEF Noticed, InNotice
<1>7. 0 \in Paths(doc)
  BY <1>1, <1>3 DEF Paths
<1>. QED BY <1>1, <1>2, <1>4, <1>5, <1>6, <1>7 DEF LimitInv, AllNoticed, FitsOrBare

\* What is cut, and how much of it stays.
LEMMA CutFacts ==
    ASSUME LimitInv, CutLargest
    PROVE  \E path \in Paths(doc) : \E keep \in 1..Len(ArrayAt(doc, path)) - 1 :
              /\ path \in Nat /\ Len(ArrayAt(doc, path)) > 1
              /\ doc' = Put(doc, path, Kept(ArrayAt(doc, path), keep))
              /\ cuts' = Noted(path, keep, ArrayAt(doc, path))
              /\ UNCHANGED <<full, done>> /\ done = FALSE
<1> DEFINE path == LargestArray(doc)
           keep == Keep(Len(ArrayAt(doc, path)), Size(doc))
<1>1. /\ doc \in Seq(Section) /\ done \in BOOLEAN /\ ~done
      /\ Size(doc) > Limit /\ Candidates(doc) # {} /\ Limit \in Nat
  BY ResponseLimitAssumption DEF LimitInv, TypeOK, CutLargest
<1>2. path \in Candidates(doc)
  BY <1>1, LargestCanBeCut
<1>3. path \in Paths(doc) /\ Len(ArrayAt(doc, path)) > 1 /\ path \in Nat
  BY <1>2 DEF Candidates, Paths
<1>4. Len(ArrayAt(doc, path)) \in Nat /\ Size(doc) \in Nat
  <2>. HIDE DEF path
  <2>. QED BY <1>1, <1>3, SizesNat
<1>5. Size(doc) > 0
  BY <1>1, <1>4
<1>6. keep \in 1..Len(ArrayAt(doc, path)) - 1
  <2>. HIDE DEF path
  <2>. QED BY <1>3, <1>4, <1>5, KeepInside
<1>7. /\ doc' = Put(doc, path, Kept(ArrayAt(doc, path), keep))
      /\ cuts' = Noted(path, keep, ArrayAt(doc, path))
      /\ UNCHANGED <<full, done>>
  BY DEF CutLargest
<1>8. done = FALSE
  BY <1>1
<1>. HIDE DEF path, keep
<1>. QED BY <1>3, <1>6, <1>7, <1>8

\* The sections are cut.
LEMMA SectionsCutStep ==
    ASSUME LimitInv, NEW keep \in 1..Len(doc) - 1, Len(doc) > 1,
           doc' = Kept(doc, keep), cuts' = Noted(0, keep, doc),
           UNCHANGED <<full, done>>, done = FALSE
    PROVE  LimitInv'
<1>0. /\ doc \in Seq(Section) /\ full \in Seq(Section) /\ cuts \in Seq(Cut)
      /\ full \in Docs /\ done \in BOOLEAN
      /\ Len(doc) \in Nat /\ Len(full) \in Nat /\ keep \in Nat /\ keep >= 1
      /\ keep < Len(doc)
  BY ResponseLimitAssumption DEF LimitInv, TypeOK
<1>1. /\ doc' \in Seq(Section) /\ Len(doc') = keep /\ DOMAIN doc' = 1..keep
      /\ KeepTail(doc) => \A i \in 1..keep : doc'[i] = doc[(Len(doc) - keep) + i]
      /\ ~KeepTail(doc) => \A i \in 1..keep : doc'[i] = doc[i]
  BY <1>0, KeptElements
<1>2. TypeOK'
  <2>1. NotedWell(cuts', 0, keep, Len(doc))
    BY <1>0, NotedFacts
  <2>2. cuts' \in Seq(Cut)
    BY <2>1 DEF NotedWell
  <2>. QED BY <1>0, <1>1, <2>2, Zenon DEF TypeOK
<1>3. CutOf(doc, full)'
  <2>1. \A x \in Section : x.time \in Nat
    BY DEF Section
  <2>2. CutOf(Kept(doc, keep), full)
    BY <1>0, <2>1, CutAgain DEF LimitInv
  <2>3. CutOf(doc', full)
    BY <2>2
  <2>. QED BY <2>3 DEF CutOf, NewestOf, IsPastSeries
<1>4. PICK skip \in 0..Len(full) - Len(doc) :
         \A i \in DOMAIN doc : /\ doc[i].time = full[skip + i].time
                               /\ CutOf(doc[i].rows, full[skip + i].rows)
  BY DEF LimitInv, SectionsCut
<1>5. SectionsCut'
  <2>1. CASE KeepTail(doc)
    <3> DEFINE s == skip + (Len(doc) - keep)
    <3>1. s \in 0..Len(full) - Len(doc')
      BY <1>0, <1>1, <1>4
    <3>2. ASSUME NEW i \in DOMAIN doc'
          PROVE  /\ doc'[i].time = full[s + i].time
                 /\ CutOf(doc'[i].rows, full[s + i].rows)
      <4>1. i \in 1..keep /\ (Len(doc) - keep) + i \in DOMAIN doc
        BY <1>0, <1>1
      <4>2. skip + ((Len(doc) - keep) + i) = s + i
        BY <1>0, <1>4, <4>1
      <4>3. doc'[i] = doc[(Len(doc) - keep) + i]
        BY <1>1, <2>1, <4>1
      <4>. HIDE DEF s
      <4>. QED BY <1>4, <4>1, <4>2, <4>3
    <3>. HIDE DEF s
    <3>3. \E z \in 0..Len(full) - Len(doc') :
             \A i \in DOMAIN doc' : /\ doc'[i].time = full[z + i].time
                                    /\ CutOf(doc'[i].rows, full[z + i].rows)
      BY <3>1, <3>2
    <3>. QED BY <3>3 DEF SectionsCut
  <2>2. CASE ~KeepTail(doc)
    <3>1. skip \in 0..Len(full) - Len(doc')
      BY <1>0, <1>1, <1>4
    <3>2. ASSUME NEW i \in DOMAIN doc'
          PROVE  /\ doc'[i].time = full[skip + i].time
                 /\ CutOf(doc'[i].rows, full[skip + i].rows)
      <4>1. i \in 1..keep /\ i \in DOMAIN doc
        BY <1>0, <1>1
      <4>. QED BY <1>1, <1>4, <2>2, <4>1
    <3>3. \E z \in 0..Len(full) - Len(doc') :
             \A i \in DOMAIN doc' : /\ doc'[i].time = full[z + i].time
                                    /\ CutOf(doc'[i].rows, full[z + i].rows)
      BY <3>1, <3>2
    <3>. QED BY <3>3 DEF SectionsCut
  <2>. QED BY <2>1, <2>2
<1>6. AllNoticed'
  <2>1. ArrayAt(doc, 0) = doc /\ ArrayAt(doc, 0)' = doc' /\ ArrayAt(full, 0) = full
    BY DEF ArrayAt
  <2>2. Noticed(0)'
    BY <1>0, <1>1, <2>1, NoticeMade DEF LimitInv, AllNoticed
  <2>3. ASSUME SectionsStay, NEW path \in Paths(doc'), path # 0
        PROVE  Noticed(path)'
    <3>1. ~KeepTail(doc)
      <4>1. /\ 1 \in DOMAIN doc /\ Len(doc) \in DOMAIN doc
            /\ skip + 1 \in DOMAIN full /\ skip + Len(doc) \in DOMAIN full
            /\ skip + 1 < skip + Len(doc)
        BY <1>0, <1>4
      <4>2. /\ doc[1].time = full[skip + 1].time
            /\ doc[Len(doc)].time = full[skip + Len(doc)].time
        BY <1>4, <4>1
      <4>. QED BY <2>3, <4>1, <4>2 DEF SectionsStay, KeepTail
    <3>2. path \in 1..keep /\ path \in Paths(doc) /\ path \in Nat
      BY <1>0, <1>1, <2>3 DEF Paths
    <3>3. Noticed(path)
      BY <2>3, <3>2 DEF LimitInv, AllNoticed
    <3>4. doc'[path] = doc[path]
      BY <1>1, <3>1, <3>2
    <3>5. ArrayAt(doc, path)' = ArrayAt(doc, path)
      BY <2>3, <3>4 DEF ArrayAt
    <3>6. Len(ArrayAt(doc, path)') = Len(ArrayAt(doc, path))
      BY <3>5
    <3>. QED BY <1>0, <2>1, <2>3, <3>2, <3>3, <3>6, NoticeStays
  <2>4. ~(Len(doc') = Len(full))
    BY <1>0, <1>1, <1>4
  <2>5. SectionsStay' <=> SectionsStay
    BY DEF SectionsStay
  <2>6. Paths(doc)' = Paths(doc')
    BY DEF Paths
  <2>. QED BY <2>2, <2>3, <2>4, <2>5, <2>6 DEF AllNoticed
<1>7. FitsOrBare'
  BY DEF FitsOrBare
<1>. QED BY <1>2, <1>3, <1>5, <1>6, <1>7 DEF LimitInv

\* The rows of a section are cut.
LEMMA RowsCutStep ==
    ASSUME LimitInv, NEW path \in 1..Len(doc), NEW keep \in 1..Len(doc[path].rows) - 1,
           Len(doc[path].rows) > 1,
           doc' = [doc EXCEPT ![path].rows = Kept(doc[path].rows, keep)],
           cuts' = Noted(path, keep, doc[path].rows),
           UNCHANGED <<full, done>>, done = FALSE
    PROVE  LimitInv'
<1>0. /\ doc \in Seq(Section) /\ full \in Seq(Section) /\ cuts \in Seq(Cut)
      /\ full \in Docs /\ done \in BOOLEAN
      /\ Len(doc) \in Nat /\ Len(full) \in Nat /\ keep \in Nat /\ path \in Nat
      /\ path # 0 /\ path \in DOMAIN doc
  BY ResponseLimitAssumption DEF LimitInv, TypeOK
<1>1. /\ doc[path].rows \in Seq(Row) /\ doc[path] \in Section
      /\ Len(doc[path].rows) \in Nat
  BY <1>0, SectionParts
<1> DEFINE kept == Kept(doc[path].rows, keep)
<1>2. kept \in Seq(Row) /\ Len(kept) = keep /\ keep < Len(doc[path].rows)
  BY <1>1, KeptElements
<1>. HIDE DEF kept
<1>3. /\ Len(doc') = Len(doc) /\ DOMAIN doc' = DOMAIN doc
      /\ doc'[path] = [doc[path] EXCEPT !.rows = kept]
      /\ \A i \in DOMAIN doc : i # path => doc'[i] = doc[i]
  BY <1>0 DEF kept
<1>4. /\ doc'[path] \in Section /\ doc'[path].rows = kept
      /\ doc'[path].time = doc[path].time
  BY <1>1, <1>2, <1>3 DEF Section
<1>5. doc' \in Seq(Section)
  <2>1. \A i \in 1..Len(doc) : doc'[i] \in Section
    BY <1>0, <1>3, <1>4
  <2>2. doc' \in [1..Len(doc) -> Section]
    <3>1. doc \in [1..Len(doc) -> Section]
      BY <1>0
    <3>2. [doc[path] EXCEPT !.rows = kept] \in Section
      BY <1>3, <1>4
    <3>3. [doc EXCEPT ![path] = [doc[path] EXCEPT !.rows = kept]] \in [1..Len(doc) -> Section]
      BY <3>1, <3>2
    <3>4. doc' = [doc EXCEPT ![path] = [doc[path] EXCEPT !.rows = kept]]
      BY DEF kept
    <3>. QED BY <3>3, <3>4
  <2>. QED BY <1>0, <2>2
<1>6. TypeOK'
  <2>1. NotedWell(cuts', path, keep, Len(doc[path].rows))
    BY <1>0, <1>1, NotedFacts
  <2>2. cuts' \in Seq(Cut)
    BY <2>1 DEF NotedWell
  <2>. QED BY <1>0, <1>5, <2>2, Zenon DEF TypeOK
<1>7. \A i \in DOMAIN doc : doc'[i].time = doc[i].time
  BY <1>3, <1>4
<1>8. CutOf(doc, full)'
  <2>1. CutOf(doc, full)
    BY DEF LimitInv
  <2>2. PICK skip \in 0..Len(full) - Len(doc) :
           \A i \in DOMAIN doc : doc[i].time = full[skip + i].time
    BY <2>1 DEF CutOf
  <2>3. \E s \in 0..Len(full) - Len(doc') :
           \A i \in DOMAIN doc' : doc'[i].time = full[s + i].time
    BY <1>3, <1>7, <2>2
  <2>4. Len(doc) \in DOMAIN doc
    BY <1>0
  <2>5. NewestOf(doc', full)
    BY <1>3, <1>7, <2>1, <2>4 DEF CutOf, NewestOf, Last
  <2>6. CutOf(doc', full)
    BY <1>3, <2>1, <2>3, <2>5 DEF CutOf
  <2>. QED BY <2>6 DEF CutOf, NewestOf, IsPastSeries
<1>9. SectionsCut'
  <2>1. PICK skip \in 0..Len(full) - Len(doc) :
           \A i \in DOMAIN doc : /\ doc[i].time = full[skip + i].time
                                 /\ CutOf(doc[i].rows, full[skip + i].rows)
    BY DEF LimitInv, SectionsCut
  <2>2. CutOf(kept, full[skip + path].rows)
    <3>1. \A x \in Row : x.time \in Nat
      BY DEF Row
    <3>2. skip + path \in DOMAIN full
      BY <1>0, <2>1
    <3>3. full[skip + path].rows \in Seq(Row)
      BY <1>0, <3>2, SectionParts
    <3>4. CutOf(doc[path].rows, full[skip + path].rows)
      BY <1>0, <2>1
    <3>. QED BY <1>1, <3>1, <3>3, <3>4, CutAgain DEF kept
  <2>3. \A i \in DOMAIN doc' : /\ doc'[i].time = full[skip + i].time
                               /\ CutOf(doc'[i].rows, full[skip + i].rows)
    BY <1>3, <1>4, <1>7, <2>1, <2>2
  <2>4. \E z \in 0..Len(full) - Len(doc') :
           \A i \in DOMAIN doc' : /\ doc'[i].time = full[z + i].time
                                  /\ CutOf(doc'[i].rows, full[z + i].rows)
    BY <1>3, <2>1, <2>3
  <2>. QED BY <2>4 DEF SectionsCut
<1>10. AllNoticed'
  <2>1. /\ ArrayAt(doc, path) = doc[path].rows /\ ArrayAt(doc, path)' = kept
        /\ Paths(doc)' = Paths(doc) /\ path \in Paths(doc)
    BY <1>0, <1>3, <1>4 DEF ArrayAt, Paths
  <2>2. ASSUME NEW other \in Paths(doc), other # path, Noticed(other)
        PROVE  Noticed(other)'
    <3>1. other \in Nat
      BY <1>0 DEF Paths
    <3>2. CASE other = 0
      <4>1. Len(ArrayAt(doc, other)') = Len(ArrayAt(doc, other))
        BY <1>3, <3>2 DEF ArrayAt
      <4>. QED BY <1>0, <1>1, <2>1, <2>2, <3>1, <4>1, NoticeStays
    <3>3. CASE other # 0
      <4>1. other \in DOMAIN doc
        BY <1>0, <3>3 DEF Paths
      <4>2. ArrayAt(doc, other)' = ArrayAt(doc, other)
        BY <1>3, <2>2, <3>3, <4>1 DEF ArrayAt
      <4>3. Len(ArrayAt(doc, other)') = Len(ArrayAt(doc, other))
        BY <4>2
      <4>. QED BY <1>0, <1>1, <2>1, <2>2, <3>1, <4>3, NoticeStays
    <3>. QED BY <3>2, <3>3
  <2>3. Noticed(0)'
    <3>1. 0 \in Paths(doc) /\ Noticed(0)
      BY <1>0 DEF Paths, LimitInv, AllNoticed
    <3>. QED BY <1>0, <2>2, <3>1
  <2>4. ASSUME Len(doc) = Len(full) \/ SectionsStay
        PROVE  \A other \in Paths(doc) : Noticed(other)'
    <3>1. \A other \in Paths(doc) : Noticed(other)
      BY <2>4 DEF LimitInv, AllNoticed
    <3>2. Noticed(path)'
      <4>1. Len(ArrayAt(full, path)) \in Nat
        <5>1. path \in Paths(full)
          <6>1. Len(doc) <= Len(full)
            BY <1>0 DEF LimitInv, CutOf
          <6>. QED BY <1>0, <6>1 DEF Paths
        <5>. QED BY <1>0, <5>1, SizesNat
      <4>2. Noticed(path)
        BY <2>1, <3>1
      <4>. QED BY <1>0, <1>1, <1>2, <2>1, <4>1, <4>2, NoticeMade DEF kept
    <3>. QED BY <2>2, <3>1, <3>2
  <2>5. SectionsStay' <=> SectionsStay
    BY DEF SectionsStay
  <2>. QED BY <1>3, <2>1, <2>3, <2>4, <2>5 DEF AllNoticed
<1>11. FitsOrBare'
  BY DEF FitsOrBare
<1>. QED BY <1>6, <1>8, <1>9, <1>10, <1>11 DEF LimitInv

\* What stays as it is.
LEMMA DocumentStays ==
    ASSUME CutOf(doc, full), SectionsCut, AllNoticed, UNCHANGED <<full, doc, cuts>>
    PROVE  CutOf(doc, full)' /\ SectionsCut' /\ AllNoticed'
<1>1. CutOf(doc, full)'
  OBVIOUS
<1>2. SectionsCut'
  BY DEF SectionsCut
<1>3. SectionsStay' <=> SectionsStay
  BY DEF SectionsStay
<1>4. \A path : Noticed(path) => Noticed(path)'
  BY DEF Noticed, InNotice
<1>5. AllNoticed'
  BY <1>3, <1>4 DEF AllNoticed
<1>. QED BY <1>1, <1>2, <1>5

\* Every step keeps it.
LEMMA StepHolds == LimitInv /\ [Next]_vars => LimitInv'
<1>. SUFFICES ASSUME LimitInv, [Next]_vars PROVE LimitInv'
  OBVIOUS
<1>1. CASE UNCHANGED vars
  <2>1. UNCHANGED <<full, doc, cuts>> /\ done' = done
    BY <1>1 DEF vars
  <2>2. TypeOK' /\ FitsOrBare'
    BY <2>1 DEF LimitInv, TypeOK, FitsOrBare
  <2>. QED BY <2>1, <2>2, DocumentStays DEF LimitInv
<1>2. CASE CutLargest
  <2>1. PICK path \in Paths(doc) : \E keep \in 1..Len(ArrayAt(doc, path)) - 1 :
              /\ path \in Nat /\ Len(ArrayAt(doc, path)) > 1
              /\ doc' = Put(doc, path, Kept(ArrayAt(doc, path), keep))
              /\ cuts' = Noted(path, keep, ArrayAt(doc, path))
              /\ UNCHANGED <<full, done>> /\ done = FALSE
    BY <1>2, CutFacts
  <2>2. PICK keep \in 1..Len(ArrayAt(doc, path)) - 1 :
              /\ path \in Nat /\ Len(ArrayAt(doc, path)) > 1
              /\ doc' = Put(doc, path, Kept(ArrayAt(doc, path), keep))
              /\ cuts' = Noted(path, keep, ArrayAt(doc, path))
              /\ UNCHANGED <<full, done>> /\ done = FALSE
    BY <2>1
  <2>3. CASE path = 0
    BY <2>2, <2>3, SectionsCutStep DEF ArrayAt, Put
  <2>4. CASE path # 0
    <3>1. path \in 1..Len(doc)
      BY <2>4 DEF Paths
    <3>. QED BY <2>2, <2>4, <3>1, RowsCutStep DEF ArrayAt, Put
  <2>. QED BY <2>3, <2>4
<1>3. CASE Finish
  <2>1. /\ UNCHANGED <<full, doc, cuts>> /\ done' = TRUE /\ doc \in Seq(Section)
        /\ Size(doc) <= Limit \/ Candidates(doc) = {}
    BY <1>3 DEF Finish, LimitInv, TypeOK
  <2>2. FitsOrBare'
    <3>1. \A p \in Paths(doc) : Len(ArrayAt(doc, p)) \in Nat
      BY <2>1, SizesNat
    <3>2. Candidates(doc) = {} => \A p \in Paths(doc) : Len(ArrayAt(doc, p)) <= 1
      BY <3>1 DEF Candidates
    <3>. QED BY <2>1, <3>2 DEF FitsOrBare, Size, SectionsSize, Paths, ArrayAt
  <2>3. TypeOK'
    BY <2>1 DEF LimitInv, TypeOK
  <2>4. CutOf(doc, full)' /\ SectionsCut' /\ AllNoticed'
    BY <2>1, DocumentStays DEF LimitInv
  <2>. QED BY <2>2, <2>3, <2>4 DEF LimitInv
<1>. QED BY <1>1, <1>2, <1>3 DEF Next

\* What is left of a document, and what the notice says, through every cut.
THEOREM LimitInvariance == Spec => []LimitInv
<1>. QED BY InitHolds, StepHolds, PTL DEF Spec

\* A cut leaves a document, and a notice that can be read.
THEOREM TypeCorrect == Spec => []TypeOK
<1>1. LimitInv => TypeOK
  BY DEF LimitInv
<1>. QED BY LimitInvariance, <1>1, PTL

\* limit() gives up only on a document in which no array has two elements.
THEOREM EndsFitOrBare == Spec => []FitsOrBare
<1>1. LimitInv => FitsOrBare
  BY DEF LimitInv
<1>. QED BY LimitInvariance, <1>1, PTL

\* The newest entries of a past series survive any number of cuts of the series
\* and of what holds it (keep_tail_by_time).
THEOREM SeriesKeepNewest == Spec => []NewestKept
<1>1. LimitInv => NewestKept
  BY DEF LimitInv, CutOf, SectionsCut, NewestKept
<1>. QED BY LimitInvariance, <1>1, PTL

\* The notice names every array that was cut, with its two lengths.
THEOREM CutsAreNamed == Spec => []NoticeComplete
<1>1. LimitInv => NoticeComplete
  BY DEF LimitInv, AllNoticed, Noticed, NoticeComplete
<1>. QED BY LimitInvariance, <1>1, PTL

-----------------------------------------------------------------------------
(* That the loop gets on. *)

\* Fewer sections, or as many and one of them with fewer rows.
Shortened(new, old) ==
    \/ Len(new) < Len(old)
    \/ /\ Len(new) = Len(old)
       /\ \E i \in DOMAIN old :
             /\ Len(new[i].rows) < Len(old[i].rows)
             /\ \A j \in DOMAIN old : j # i => new[j] = old[j]

\* Every pass of the loop shortens the document, whatever the rounding of the
\* share does ("always make progress"), or is its last: there can only be as
\* many passes as there are elements.
THEOREM EveryPassShortens == Spec => [][~done /\ (done' \/ Shortened(doc', doc))]_vars
<1>1. LimitInv /\ [Next]_vars => [~done /\ (done' \/ Shortened(doc', doc))]_vars
  <2>. SUFFICES ASSUME LimitInv, Next PROVE ~done /\ (done' \/ Shortened(doc', doc))
    OBVIOUS
  <2>1. CASE Finish
    BY <2>1 DEF Finish
  <2>2. CASE CutLargest
    <3>1. PICK path \in Paths(doc) : \E keep \in 1..Len(ArrayAt(doc, path)) - 1 :
                /\ path \in Nat /\ Len(ArrayAt(doc, path)) > 1
                /\ doc' = Put(doc, path, Kept(ArrayAt(doc, path), keep))
                /\ cuts' = Noted(path, keep, ArrayAt(doc, path))
                /\ UNCHANGED <<full, done>> /\ done = FALSE
      BY <2>2, CutFacts
    <3>2. PICK keep \in 1..Len(ArrayAt(doc, path)) - 1 :
                doc' = Put(doc, path, Kept(ArrayAt(doc, path), keep))
      BY <3>1
    <3>3. doc \in Seq(Section) /\ Len(doc) \in Nat
      BY DEF LimitInv, TypeOK
    <3>4. CASE path = 0
      <4>1. doc' = Kept(doc, keep) /\ keep \in 1..Len(doc) - 1
        BY <3>2, <3>4 DEF Put, ArrayAt
      <4>2. Len(doc') = keep
        BY <3>3, <4>1, KeptElements
      <4>. QED BY <3>1, <3>3, <4>1, <4>2 DEF Shortened
    <3>5. CASE path # 0
      <4>1. path \in DOMAIN doc
        BY <3>3, <3>5 DEF Paths
      <4>2. /\ keep \in 1..Len(doc[path].rows) - 1
            /\ doc' = [doc EXCEPT ![path].rows = Kept(doc[path].rows, keep)]
        BY <3>2, <3>5 DEF Put, ArrayAt
      <4>3. doc[path] \in Section /\ doc[path].rows \in Seq(Row)
        BY <3>3, <4>1, SectionParts
      <4>4. Len(Kept(doc[path].rows, keep)) = keep
        BY <4>2, <4>3, KeptElements
      <4>5. /\ doc'[path].rows = Kept(doc[path].rows, keep)
            /\ Len(doc') = Len(doc)
            /\ \A j \in DOMAIN doc : j # path => doc'[j] = doc[j]
        BY <3>3, <4>1, <4>2, <4>3 DEF Section
      <4>6. Len(doc'[path].rows) < Len(doc[path].rows)
        BY <4>2, <4>3, <4>4, <4>5
      <4>. QED BY <3>1, <4>1, <4>5, <4>6 DEF Shortened
    <3>. QED BY <3>1, <3>4, <3>5
  <2>. QED BY <2>1, <2>2 DEF Next
<1>. QED BY <1>1, LimitInvariance, PTL DEF Spec

=============================================================================
