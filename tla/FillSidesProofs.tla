-------------------------- MODULE FillSidesProofs --------------------------
(***************************************************************************)
(* What FillSides promises, for any orders, page sizes and limits.  First  *)
(* of the sides themselves: nothing is assumed of the pages, so it holds   *)
(* whatever the account does while they are walked.  Then of the walks,    *)
(* which rests on what Matching computes.                                  *)
(***************************************************************************)
EXTENDS FillSides, SequenceTheorems, FiniteSetTheorems, WellFoundedInduction,
        TLAPS

Types ==
    /\ fills \subseteq Orders
    /\ sides \in [Orders -> Sides]
    /\ todo \subseteq fills /\ active \subseteq fills
    /\ pc \in {"page", "merge", "look", "done", "empty"}

\* A side that was found is that of its order.
FoundTrue == \A o \in DOMAIN found : found[o] \in {SideOf[o], "failed"}

\* No order is looked up before the walks are over, and none is left to be when
\* the call ends.
LookupsInTime ==
    /\ pc \in {"page", "merge"} => todo = {} /\ active = {} /\ found = NothingFound
    /\ pc = "done" => todo = {} /\ active = {}

Chosen == todo \cup active \cup DOMAIN found

\* Once look-ups start, every fill without a side is among them, or they are as
\* many as they may be.
LookupsReach ==
    pc \in {"look", "done"} =>
        \/ \A o \in fills : sides[o] = "none" => o \in Chosen
        \/ Cardinality(Chosen) = MaxLookups

IInv ==
    /\ Types /\ SidesTrue /\ FoundTrue /\ LookupsInTime /\ LookupsReach
    /\ EveryFillAccounted

-----------------------------------------------------------------------------

\* order_sides gives an order its own side or leaves it what it had.
LEMMA KnownTrue ==
    ASSUME Types, SidesTrue
    PROVE  /\ Known \in [Orders -> Sides]
           /\ \A o \in Orders : Known[o] \in {SideOf[o], "none"}
BY FillSidesAssumption DEF Types, SidesTrue, Known

\* n of the elements, or all of them.
LEMMA SomeIsAllOrMany ==
    ASSUME NEW S, NEW n, NEW T \in Some(n, S)
    PROVE  T \subseteq S /\ (T = S \/ Cardinality(T) = n)
BY DEF Some, kSubset

\* The look-ups that start reach every fill still without a side, or are as
\* many as they may be.
LEMMA LookupsStart ==
    ASSUME IInv, NEW known \in [Orders -> Sides],
           \A o \in Orders : known[o] \in {SideOf[o], "none"},
           pc \in {"page", "merge"},
           StartLookups(known),
           UNCHANGED <<fills, active, found>>
    PROVE  IInv'
<1>1. /\ active' = {} /\ found' = NothingFound /\ DOMAIN found' = {}
      /\ pc' = "look" /\ sides' = known /\ fills' = fills
      /\ todo' \subseteq Missing(known)
      /\ todo' = Missing(known) \/ Cardinality(todo') = MaxLookups
  BY SomeIsAllOrMany DEF IInv, LookupsInTime, StartLookups, NothingFound
<1>2. Types'
  BY <1>1 DEF IInv, Types, Missing
<1>3. SidesTrue' /\ FoundTrue' /\ LookupsInTime' /\ EveryFillAccounted'
  BY <1>1 DEF SidesTrue, FoundTrue, LookupsInTime, EveryFillAccounted
<1>4. LookupsReach'
  <2>1. Chosen' = todo'
    BY <1>1 DEF Chosen
  <2>. QED BY <1>1, <2>1 DEF LookupsReach, Missing
<1>. QED BY <1>2, <1>3, <1>4 DEF IInv

\* The walks.
LEMMA WalkSteps ==
    ASSUME IInv, Answer \/ FollowUp \/ Merge
    PROVE  IInv'
<1>1. CASE NextPage \/ LastPage \/ FirstWalkFails
  <2>1. /\ pc = "page" /\ pc' \in {"page", "merge", "empty"}
        /\ UNCHANGED <<fills, sides, todo, active, found>>
    BY <1>1 DEF NextPage, LastPage, FirstWalkFails, call, lookups
  <2>. QED BY <2>1 DEF IInv, Types, SidesTrue, FoundTrue, LookupsInTime,
              LookupsReach, EveryFillAccounted, Chosen, NothingFound
<1>2. CASE FollowUp
  <2>1. /\ pc = "merge" /\ pc' = "page" /\ sides' = Known
        /\ UNCHANGED <<fills, todo, active, found>>
    BY <1>2 DEF FollowUp, call, lookups
  <2>2. /\ Known \in [Orders -> Sides]
        /\ \A o \in Orders : Known[o] \in {SideOf[o], "none"}
    BY KnownTrue DEF IInv
  <2>. QED BY <2>1, <2>2 DEF IInv, Types, SidesTrue, FoundTrue, LookupsInTime,
              LookupsReach, EveryFillAccounted, Chosen, NothingFound
<1>3. CASE Merge
  <2>1. /\ Known \in [Orders -> Sides]
        /\ \A o \in Orders : Known[o] \in {SideOf[o], "none"}
    BY KnownTrue DEF IInv
  <2>. QED BY <1>3, <2>1, LookupsStart DEF Merge, call
<1>4. CASE FollowUpFails
  BY <1>4, LookupsStart DEF FollowUpFails, call, IInv, Types, SidesTrue
<1>. QED BY <1>1, <1>2, <1>3, <1>4 DEF Answer

\* The single look-ups.
LEMMA LookupSteps ==
    ASSUME IInv,
           \/ \E o \in Orders : Lookup(o)
           \/ \E o \in Orders, ok \in BOOLEAN : LookupEnds(o, ok)
           \/ Finish
    PROVE  IInv'
<1>1. ASSUME NEW o \in Orders, Lookup(o) PROVE IInv'
  <2>1. /\ pc = "look" /\ pc' = "look" /\ o \in todo
        /\ todo' = todo \ {o} /\ active' = active \cup {o}
        /\ UNCHANGED <<fills, sides, found>>
    BY <1>1 DEF Lookup, call
  <2>2. Chosen' = Chosen
    BY <2>1 DEF Chosen
  <2>. QED BY <2>1, <2>2 DEF IInv, Types, SidesTrue, FoundTrue, LookupsInTime,
              LookupsReach, EveryFillAccounted
<1>2. ASSUME NEW o \in Orders, NEW ok \in BOOLEAN, LookupEnds(o, ok) PROVE IInv'
  <2>1. /\ pc = "look" /\ pc' = "look" /\ o \in active
        /\ active' = active \ {o}
        /\ found' = [q \in DOMAIN found \cup {o} |->
                        IF q # o THEN found[q]
                        ELSE IF ok THEN SideOf[o] ELSE "failed"]
        /\ UNCHANGED <<fills, sides, todo>>
    BY <1>2 DEF LookupEnds, call
  <2>2. Chosen' = Chosen
    BY <2>1 DEF Chosen
  <2>3. FoundTrue'
    BY <2>1 DEF IInv, FoundTrue
  <2>. QED BY <2>1, <2>2, <2>3 DEF IInv, Types, SidesTrue, LookupsInTime,
              LookupsReach, EveryFillAccounted
<1>3. CASE Finish
  <2>1. /\ pc = "look" /\ pc' = "done" /\ todo = {} /\ active = {}
        /\ sides' = [o \in Orders |->
                        IF o \in DOMAIN found /\ found[o] \in {"Buy", "Sell"}
                        THEN found[o] ELSE sides[o]]
        /\ UNCHANGED <<fills, todo, active, found>>
    BY <1>3 DEF Finish, call, lookups
  <2>2. \A o \in Orders :
            /\ sides'[o] \in Sides
            /\ sides'[o] \in {SideOf[o], "none"}
            /\ sides'[o] = "none" =>
                  /\ sides[o] = "none"
                  /\ o \in DOMAIN found => found[o] \in {"none", "failed"}
    BY <2>1, FillSidesAssumption DEF IInv, Types, SidesTrue, FoundTrue, Sides
  <2>3. Chosen = DOMAIN found /\ Chosen' = Chosen
    BY <2>1 DEF Chosen
  <2>4. Types'
    BY <2>1, <2>2 DEF IInv, Types
  <2>5. LookupsReach'
    BY <2>1, <2>2, <2>3 DEF IInv, Types, LookupsReach
  <2>6. EveryFillAccounted'
    BY <2>1, <2>2, <2>3, <2>5 DEF IInv, Types, LookupsReach, EveryFillAccounted
  <2>. QED BY <2>1, <2>2, <2>4, <2>5, <2>6
           DEF IInv, SidesTrue, FoundTrue, LookupsInTime
<1>. QED BY <1>1, <1>2, <1>3

\* Every state of every behaviour satisfies IInv.
THEOREM Invariance == Spec => []IInv
<1>1. Init => IInv
  <2>. SUFFICES ASSUME Init PROVE IInv
    OBVIOUS
  <2>0. Range(Placed) \subseteq Orders
    BY FillSidesAssumption, ElementOfSeq DEF Range
  <2>1. Types /\ SidesTrue
    BY <2>0, FillSidesAssumption DEF Init, Types, SidesTrue, Unresolved, Sides, NothingFound
  <2>2. FoundTrue /\ LookupsInTime /\ EveryFillAccounted
    BY DEF Init, FoundTrue, LookupsInTime, EveryFillAccounted, NothingFound
  <2>3. LookupsReach
    BY DEF Init, LookupsReach, Chosen
  <2>. QED BY <2>1, <2>2, <2>3 DEF IInv
<1>2. IInv /\ [Next]_vars => IInv'
  <2>. SUFFICES ASSUME IInv, [Next]_vars PROVE IInv'
    OBVIOUS
  <2>1. CASE UNCHANGED vars \/ \E o \in Orders : Place(o)
    <3>1. UNCHANGED <<fills, pc, sides, todo, active, found>>
      BY <2>1 DEF vars, Place, call, lookups
    <3>2. Chosen' = Chosen /\ NothingFound' = NothingFound
      BY <3>1 DEF Chosen, NothingFound
    <3>. QED BY <3>1, <3>2 DEF IInv, Types, SidesTrue, FoundTrue,
                LookupsInTime, LookupsReach, EveryFillAccounted
  <2>. QED BY <2>1, WalkSteps, LookupSteps DEF Next, Step
<1>. QED BY <1>1, <1>2, PTL DEF Spec

\* A fill is never given the side of another order (order_sides,
\* resolve_fill_sides), in whatever order pages and look-ups are answered.
THEOREM NoWrongSide == Spec => []SidesTrue
BY Invariance, PTL DEF IInv

\* When the call ends, each fill has a side, or was looked up in vain, or there
\* were more of them than may be looked up (resolve_fill_sides).
THEOREM FillsAccounted == Spec => []EveryFillAccounted
BY Invariance, PTL DEF IInv

-----------------------------------------------------------------------------

\* A set of numbers that is not empty has a least one.
LEMMA LeastNumber ==
    ASSUME NEW T \in SUBSET Nat, T # {}
    PROVE  \E x \in T : \A y \in T : x <= y
<1>1. IsWellFoundedOn(OpToRel(<, Nat), Nat)
  BY NatLessThanWellFounded
<1>2. PICK x \in T : \A y \in T : <<y, x>> \notin OpToRel(<, Nat)
  BY <1>1, WFMin
<1>3. \A y \in T : ~(y < x)
  BY <1>2 DEF OpToRel
<1>. QED BY <1>3

\* The functions from a value to the next.
Steps(T, n) == [1..n -> [T -> T]]

\* f takes each value from the one before it.
Follows(f, T, base, n, step) ==
    /\ f \in [0..n -> T]
    /\ f[0] = base
    /\ \A k \in 1..n : f[k] = step[k][f[k - 1]]

\* There is such a function.
LEMMA StepwiseExists ==
    ASSUME NEW T, NEW base \in T, NEW n \in Nat, NEW step \in Steps(T, n)
    PROVE  \E f : Follows(f, T, base, n, step)
<1>. DEFINE Upto(m) ==
                \E f \in [0..m -> T] :
                    f[0] = base /\ \A k \in 1..m : f[k] = step[k][f[k - 1]]
            Bad == {m \in 0..n : ~Upto(m)}
<1>0. step \in [1..n -> [T -> T]]
  BY DEF Steps
<1>1. Upto(0)
  <2>. DEFINE g == [k \in 0..0 |-> base]
  <2>1. g \in [0..0 -> T] /\ g[0] = base
    OBVIOUS
  <2>2. \A k \in 1..0 : g[k] = step[k][g[k - 1]]
    OBVIOUS
  <2>. HIDE DEF g
  <2>. QED BY <2>1, <2>2
<1>2. ASSUME NEW m \in 1..n, Upto(m - 1) PROVE Upto(m)
  <2>1. PICK f \in [0..m - 1 -> T] :
            f[0] = base /\ \A k \in 1..m - 1 : f[k] = step[k][f[k - 1]]
    BY <1>2
  <2>. DEFINE g == [k \in 0..m |-> IF k = m THEN step[m][f[m - 1]] ELSE f[k]]
  <2>2. f[m - 1] \in T /\ step[m] \in [T -> T]
    BY <1>0
  <2>3. g \in [0..m -> T]
    BY <2>2
  <2>4. g[0] = base /\ \A k \in 1..m : g[k] = step[k][g[k - 1]]
    BY <2>1
  <2>. HIDE DEF g
  <2>. QED BY <2>3, <2>4
<1>3. ASSUME Bad # {} PROVE FALSE
  <2>. HIDE DEF Upto
  <2>1. Bad \in SUBSET Nat
    OBVIOUS
  <2>2. PICK m \in Bad : \A y \in Bad : m <= y
    BY <1>3, <2>1, LeastNumber
  <2>3. m \in 1..n /\ m - 1 \in 0..n /\ m - 1 \notin Bad
    BY <1>1, <2>2
  <2>. QED BY <1>2, <2>2, <2>3
<1>. HIDE DEF Upto
<1>4. Upto(n)
  BY <1>3
<1>. QED BY <1>4 DEF Upto, Follows

\* f and g start alike, and what they have alike stays alike.
StepAlike(f, g, n) ==
    f[0] = g[0] /\ \A k \in 1..n : f[k - 1] = g[k - 1] => f[k] = g[k]

\* Then they are alike throughout.
LEMMA StepwiseUnique ==
    ASSUME NEW n \in Nat, NEW f, NEW g, StepAlike(f, g, n)
    PROVE  \A k \in 0..n : f[k] = g[k]
<1>. DEFINE Bad == {k \in 0..n : f[k] # g[k]}
<1>1. ASSUME Bad # {} PROVE FALSE
  <2>0. Bad \in SUBSET Nat
    OBVIOUS
  <2>1. PICK k \in Bad : \A y \in Bad : k <= y
    BY <1>1, <2>0, LeastNumber
  <2>2. k # 0
    BY <2>1 DEF StepAlike
  <2>3. k \in 1..n /\ k - 1 \in 0..n /\ k - 1 \notin Bad
    BY <2>1, <2>2
  <2>. QED BY <2>1, <2>3 DEF StepAlike
<1>. QED BY <1>1

\* The order matches the filter.
Wanted(o, symbols) == symbols = {} \/ SymbolOf[o] \in symbols

\* What Matching is for the last k orders of b.
IsOfLast(f, b, symbols) ==
    /\ f \in [0..Len(b) -> Seq(Orders)]
    /\ f[0] = <<>>
    /\ \A k \in 1..Len(b) :
          f[k] = IF Wanted(b[Len(b) - k + 1], symbols)
                 THEN <<b[Len(b) - k + 1]>> \o f[k - 1]
                 ELSE f[k - 1]

\* Matching is the last value of such a function, and there is one.
LEMMA MatchingOfLast ==
    ASSUME NEW b \in Seq(Orders), NEW symbols
    PROVE  \E f : IsOfLast(f, b, symbols) /\ Matching(b, symbols) = f[Len(b)]
<1>. DEFINE n == Len(b)
            step == [k \in 1..n |-> [s \in Seq(Orders) |->
                        IF Wanted(b[n - k + 1], symbols)
                        THEN <<b[n - k + 1]>> \o s ELSE s]]
            Body(f) == [k \in 0..n |->
                           IF k = 0 THEN <<>>
                           ELSE LET o == b[n - k + 1]
                                IN  IF symbols = {} \/ SymbolOf[o] \in symbols
                                    THEN <<o>> \o f[k - 1] ELSE f[k - 1]]
<1>1. n \in Nat /\ <<>> \in Seq(Orders)
  BY LenProperties, EmptySeq
<1>2. ASSUME NEW k \in 1..n, NEW s \in Seq(Orders)
      PROVE  /\ b[n - k + 1] \in Orders
             /\ <<b[n - k + 1]>> \o s \in Seq(Orders)
  <2>1. n - k + 1 \in 1..n
    BY <1>1
  <2>2. b[n - k + 1] \in Orders
    BY <2>1, ElementOfSeq
  <2>3. <<b[n - k + 1]>> \in Seq(Orders)
    BY <2>2
  <2>. QED BY <2>2, <2>3, ConcatProperties
<1>3. step \in [1..n -> [Seq(Orders) -> Seq(Orders)]]
  BY <1>2
<1>4. PICK f \in [0..n -> Seq(Orders)] :
          f[0] = <<>> /\ \A k \in 1..n : f[k] = step[k][f[k - 1]]
  <2>1. n \in Nat /\ <<>> \in Seq(Orders) /\ step \in Steps(Seq(Orders), n)
    BY <1>1, <1>3 DEF Steps
  <2>. HIDE DEF n, step, Body
  <2>2. \E f : Follows(f, Seq(Orders), <<>>, n, step)
    BY <2>1, StepwiseExists
  <2>. QED BY <2>2 DEF Follows
<1>5. ASSUME NEW k \in 1..n
      PROVE  f[k] = IF Wanted(b[n - k + 1], symbols)
                    THEN <<b[n - k + 1]>> \o f[k - 1] ELSE f[k - 1]
  <2>1. f[k - 1] \in Seq(Orders)
    BY <1>1
  <2>2. f[k] = step[k][f[k - 1]]
    BY <1>4
  <2>. QED BY <2>1, <2>2
<1>6. \A h : /\ Body(h)[0] = <<>> /\ DOMAIN Body(h) = 0..n
             /\ \A k \in 1..n :
                   Body(h)[k] = IF Wanted(b[n - k + 1], symbols)
                                THEN <<b[n - k + 1]>> \o h[k - 1] ELSE h[k - 1]
  BY <1>1 DEF Wanted
<1>7. f = Body(f)
  <2>1. \A k \in 1..n : f[k] = Body(f)[k]
    BY <1>5, <1>6
  <2>2. f[0] = Body(f)[0]
    BY <1>4, <1>6
  <2>3. \A k \in 0..n : k = 0 \/ k \in 1..n
    BY <1>1
  <2>. HIDE DEF n, Body, step
  <2>4. \A k \in 0..n : f[k] = Body(f)[k]
    BY <2>1, <2>2, <2>3
  <2>. QED BY <2>4, <1>4, <1>6 DEF Body
<1>. DEFINE g == CHOOSE h : h = Body(h)
<1>8. g = Body(g)
  BY <1>7
<1>9. Matching(b, symbols) = g[n]
  BY DEF Matching
<1>10. g[n] = f[n]
  <2>. HIDE DEF g
  <2>0. n \in Nat
    BY <1>1
  <2>. HIDE DEF n, Body, step
  <2>2. f[0] = g[0]
    BY <1>4, <1>6, <1>8
  <2>3. \A k \in 1..n : f[k - 1] = g[k - 1] => f[k] = g[k]
    BY <1>5, <1>6, <1>8
  <2>4. StepAlike(f, g, n)
    BY <2>2, <2>3 DEF StepAlike
  <2>5. \A k \in 0..n : f[k] = g[k]
    BY <2>0, <2>4, StepwiseUnique
  <2>. QED BY <2>0, <2>5
<1>11. IsOfLast(f, b, symbols)
  BY <1>4, <1>5 DEF IsOfLast
<1>. QED BY <1>9, <1>10, <1>11

\* A new order comes first among those that match, or does not match.
LEMMA MatchingOfNew ==
    ASSUME NEW b \in Seq(Orders), NEW o \in Orders, NEW symbols
    PROVE  /\ Matching(b, symbols) \in Seq(Orders)
           /\ Matching(<<o>> \o b, symbols)
                 = IF Wanted(o, symbols) THEN <<o>> \o Matching(b, symbols)
                   ELSE Matching(b, symbols)
<1>. DEFINE c == <<o>> \o b
            n == Len(b)
<1>1. /\ n \in Nat /\ c \in Seq(Orders) /\ Len(c) = n + 1
      /\ c[1] = o
      /\ \A i \in 1..n : c[i + 1] = b[i]
  <2>1. <<o>> \in Seq(Orders) /\ Len(<<o>>) = 1 /\ <<o>>[1] = o
    OBVIOUS
  <2>. QED BY <2>1, ConcatProperties, LenProperties
<1>2. PICK f : IsOfLast(f, b, symbols) /\ Matching(b, symbols) = f[n]
  BY MatchingOfLast
<1>3. PICK g : IsOfLast(g, c, symbols) /\ Matching(c, symbols) = g[n + 1]
  BY <1>1, MatchingOfLast
<1>. HIDE DEF c
<1>. DEFINE h == [k \in 0..n |-> g[k]]
<1>4. f[n] = h[n]
  <2>2. f[0] = h[0]
    BY <1>1, <1>2, <1>3 DEF IsOfLast
  <2>3. ASSUME NEW k \in 1..n, f[k - 1] = h[k - 1] PROVE f[k] = h[k]
    <3>1. /\ k \in 1..n + 1 /\ n + 1 - k + 1 = (n - k + 1) + 1
          /\ n - k + 1 \in 1..n
          /\ h[k] = g[k] /\ h[k - 1] = g[k - 1]
      BY <1>1
    <3>2. c[n + 1 - k + 1] = b[n - k + 1]
      BY <1>1, <3>1
    <3>3. g[k] = IF Wanted(c[n + 1 - k + 1], symbols)
                 THEN <<c[n + 1 - k + 1]>> \o g[k - 1] ELSE g[k - 1]
      BY <1>1, <1>3, <3>1 DEF IsOfLast
    <3>4. f[k] = IF Wanted(b[n - k + 1], symbols)
                 THEN <<b[n - k + 1]>> \o f[k - 1] ELSE f[k - 1]
      BY <1>2 DEF IsOfLast
    <3>. QED BY <2>3, <3>1, <3>2, <3>3, <3>4
  <2>0. n \in Nat
    BY <1>1
  <2>. HIDE DEF h, n
  <2>4. StepAlike(f, h, n)
    BY <2>2, <2>3 DEF StepAlike
  <2>5. \A k \in 0..n : f[k] = h[k]
    BY <2>0, <2>4, StepwiseUnique
  <2>. QED BY <2>0, <2>5
<1>5. f[n] \in Seq(Orders) /\ h[n] = g[n]
  BY <1>1, <1>2 DEF IsOfLast
<1>6. g[n + 1] = IF Wanted(c[1], symbols) THEN <<c[1]>> \o g[n] ELSE g[n]
  <2>1. n + 1 \in 1..n + 1 /\ n + 1 - (n + 1) + 1 = 1 /\ n + 1 - 1 = n
    BY <1>1
  <2>2. g[n + 1] = IF Wanted(c[n + 1 - (n + 1) + 1], symbols)
                   THEN <<c[n + 1 - (n + 1) + 1]>> \o g[n + 1 - 1] ELSE g[n + 1 - 1]
    BY <1>1, <1>3, <2>1 DEF IsOfLast
  <2>. QED BY <2>1, <2>2
<1>. QED BY <1>1, <1>2, <1>3, <1>4, <1>5, <1>6 DEF c

\* What matches is in the book, and once if the book has it once.
LEMMA MatchingOnce ==
    ASSUME NEW b \in Seq(Orders), NEW symbols
    PROVE  /\ Matching(b, symbols) \in Seq(Orders)
           /\ Range(Matching(b, symbols)) \subseteq Range(b)
           /\ IsInjective(b) => IsInjective(Matching(b, symbols))
<1>. DEFINE n == Len(b)
<1>1. n \in Nat /\ DOMAIN b = 1..n
  BY LenProperties
<1>2. PICK f : IsOfLast(f, b, symbols) /\ Matching(b, symbols) = f[n]
  BY MatchingOfLast
<1>. HIDE DEF n
<1>. DEFINE From(k) == \A j \in 1..Len(f[k]) : \E i \in n - k + 1..n : f[k][j] = b[i]
            Once(k) == \A i, j \in 1..Len(f[k]) : f[k][i] = f[k][j] => i = j
            Good(k) == From(k) /\ (IsInjective(b) => Once(k))
            Bad == {k \in 0..n : ~Good(k)}
<1>3. ASSUME NEW k \in 0..n
      PROVE  /\ f[k] \in Seq(Orders) /\ Len(f[k]) \in Nat
             /\ DOMAIN f[k] = 1..Len(f[k])
  <2>1. f[k] \in Seq(Orders)
    BY <1>2 DEF IsOfLast, n
  <2>. QED BY <2>1, LenProperties
<1>4. Good(0)
  <2>1. Len(f[0]) = 0
    BY <1>2, EmptySeq DEF IsOfLast
  <2>. QED BY <2>1
<1>5. ASSUME NEW k \in 1..n, Good(k - 1) PROVE Good(k)
  <2>. DEFINE o == b[n - k + 1]
              last == f[k - 1]
  <2>1. /\ k - 1 \in 0..n /\ k \in 0..n
        /\ n - k + 1 \in 1..n /\ n - (k - 1) + 1 = n - k + 2
    BY <1>1
  <2>2. f[k] = IF Wanted(o, symbols) THEN <<o>> \o last ELSE last
    BY <1>2 DEF IsOfLast, n
  <2>3. \A j \in 1..Len(last) : \E i \in n - k + 2..n : last[j] = b[i]
    BY <1>5, <2>1
  <2>4. IsInjective(b) => Once(k - 1)
    BY <1>5
  <2>5. CASE ~Wanted(o, symbols)
    <3>1. f[k] = last
      BY <2>2, <2>5
    <3>. QED BY <2>1, <2>3, <2>4, <3>1, <1>1
  <2>6. CASE Wanted(o, symbols)
    <3>1. o \in Orders
      BY <2>1, ElementOfSeq DEF n
    <3>2. /\ <<o>> \in Seq(Orders) /\ Len(<<o>>) = 1 /\ <<o>>[1] = o
          /\ last \in Seq(Orders) /\ Len(last) \in Nat
      BY <3>1, <2>1, <1>3
    <3>3. /\ Len(f[k]) = Len(last) + 1
          /\ f[k][1] = o
          /\ \A j \in 2..Len(last) + 1 : f[k][j] = last[j - 1]
      <4>. HIDE DEF o, last
      <4>1. /\ Len(<<o>> \o last) = 1 + Len(last)
            /\ \A i \in 1..1 + Len(last) :
                  (<<o>> \o last)[i] = IF i <= 1 THEN <<o>>[i] ELSE last[i - 1]
        BY <3>2, ConcatProperties
      <4>. QED BY <4>1, <2>2, <2>6, <3>2
    <3>. HIDE DEF o, last
    <3>4. From(k)
      <4>1. ASSUME NEW j \in 1..Len(f[k])
            PROVE  \E i \in n - k + 1..n : f[k][j] = b[i]
        <5>1. CASE j = 1
          BY <5>1, <3>3, <2>1, <1>1 DEF o
        <5>2. CASE j # 1
          <6>1. j - 1 \in 1..Len(last) /\ f[k][j] = last[j - 1]
            BY <5>2, <3>2, <3>3
          <6>2. PICK i \in n - k + 2..n : last[j - 1] = b[i]
            BY <6>1, <2>3
          <6>. QED BY <6>1, <6>2, <1>1
        <5>. QED BY <5>1, <5>2
      <4>. QED BY <4>1
    <3>5. ASSUME IsInjective(b) PROVE Once(k)
      <4>1. \A j \in 1..Len(last) : last[j] # o
        <5>1. ASSUME NEW j \in 1..Len(last), last[j] = o PROVE FALSE
          <6>1. PICK i \in n - k + 2..n : last[j] = b[i]
            BY <2>3
          <6>2. i \in 1..n /\ i # n - k + 1 /\ b[i] = b[n - k + 1]
            BY <6>1, <5>1, <2>1, <1>1 DEF o
          <6>. QED BY <6>2, <2>1, <1>1, <3>5 DEF IsInjective
        <5>. QED BY <5>1
      <4>2. \A i, j \in 1..Len(last) : last[i] = last[j] => i = j
        BY <2>4, <3>5 DEF last
      <4>3. ASSUME NEW i \in 1..Len(f[k]), NEW j \in 1..Len(f[k]), f[k][i] = f[k][j]
            PROVE  i = j
        <5>1. i = 1 \/ (i - 1 \in 1..Len(last) /\ f[k][i] = last[i - 1])
          BY <3>2, <3>3
        <5>2. j = 1 \/ (j - 1 \in 1..Len(last) /\ f[k][j] = last[j - 1])
          BY <3>2, <3>3
        <5>. QED BY <4>1, <4>2, <4>3, <5>1, <5>2, <3>2, <3>3
      <4>. QED BY <4>3
    <3>. QED BY <3>4, <3>5
  <2>. QED BY <2>5, <2>6
<1>. HIDE DEF Good
<1>6. ASSUME Bad # {} PROVE FALSE
  <2>1. Bad \in SUBSET Nat
    OBVIOUS
  <2>2. PICK k \in Bad : \A y \in Bad : k <= y
    BY <1>6, <2>1, LeastNumber
  <2>3. k \in 1..n /\ k - 1 \in 0..n /\ k - 1 \notin Bad
    BY <1>1, <1>4, <2>2
  <2>. QED BY <1>5, <2>2, <2>3
<1>7. Good(n)
  BY <1>1, <1>6
<1>8. f[n] \in Seq(Orders) /\ DOMAIN f[n] = 1..Len(f[n])
  BY <1>1, <1>3
<1>9. \A j \in 1..Len(f[n]) : \E i \in 1..n : f[n][j] = b[i]
  BY <1>1, <1>7 DEF Good
<1>10. IsInjective(b) => Once(n)
  BY <1>7 DEF Good
<1>. HIDE DEF Once
<1>11. IsInjective(b) => IsInjective(f[n])
  BY <1>8, <1>10 DEF Once, IsInjective
<1>12. Range(f[n]) \subseteq Range(b)
  BY <1>1, <1>8, <1>9 DEF Range
<1>. QED BY <1>2, <1>8, <1>11, <1>12

-----------------------------------------------------------------------------
(* The walks. *)

\* The account's orders are in the book once.
BookOnce ==
    /\ book \in Seq(Orders) /\ opened \in Seq(Orders)
    /\ IsInjective(book)

\* The matching orders that were there when the walk began come last among
\* those that are there now.
Grown ==
    LET all == Matching(book, filter)
        old == Matching(opened, filter)
    IN  /\ Len(opened) <= Len(book)
        /\ Len(old) <= Len(all)
        /\ \A k \in 1..Len(old) : all[Len(all) - Len(old) + k] = old[k]

Start == (page - 1) * PageSize

\* Of them, those that are now on the pages already read were returned:
\* whatever is placed only pushes orders to later pages.
Covered ==
    LET all == Matching(book, filter)
        old == Matching(opened, filter)
    IN  pc = "page" =>
            \A k \in 1..Len(old) :
                k + (Len(all) - Len(old)) <= Start => old[k] \in Range(items)

\* The pages read so far were full.
PagesFull == pc = "page" => Len(items) = Start

\* Without trading the pages read are the head of what matches.
InStep ==
    LET all == Matching(book, filter)
    IN  pc = "page" /\ book = opened =>
            /\ Start <= Len(all)
            /\ \A k \in 1..Start : items[k] = all[k]

WalkInv ==
    /\ TypeOK /\ BookOnce /\ Grown /\ Covered /\ PagesFull /\ InStep
    /\ WalkComplete /\ RepeatsOnlyWhenTrading

\* What the invariant says of the book, without Matching's definition.
LEMMA BookFacts ==
    ASSUME WalkInv
    PROVE  /\ Matching(book, filter) \in Seq(Orders)
           /\ Matching(opened, filter) \in Seq(Orders)
           /\ Len(Matching(book, filter)) \in Nat
           /\ Len(Matching(opened, filter)) \in Nat
           /\ IsInjective(Matching(book, filter))
           /\ items \in Seq(Orders) /\ Len(items) \in Nat
           /\ page \in 1..MaxPages /\ Start \in Nat
           /\ PageSize \in Nat \ {0} /\ MaxPages \in Nat \ {0}
           /\ page * PageSize = Start + PageSize
           /\ (page + 1 - 1) * PageSize = Start + PageSize
           /\ (page + 1) * PageSize = Start + PageSize + PageSize
<1>1. BookOnce /\ page \in 1..MaxPages /\ items \in Seq(Orders)
  BY DEF WalkInv, TypeOK
<1>2. PageSize \in Nat \ {0} /\ MaxPages \in Nat \ {0}
  BY FillSidesAssumption
<1>3. /\ Matching(book, filter) \in Seq(Orders)
      /\ Matching(opened, filter) \in Seq(Orders)
      /\ IsInjective(Matching(book, filter))
  BY <1>1, MatchingOnce DEF BookOnce
<1>4. /\ Len(Matching(book, filter)) \in Nat
      /\ Len(Matching(opened, filter)) \in Nat
      /\ Len(items) \in Nat
  BY <1>1, <1>3, LenProperties
<1>5. /\ Start \in Nat
      /\ page * PageSize = Start + PageSize
      /\ (page + 1 - 1) * PageSize = Start + PageSize
      /\ (page + 1) * PageSize = Start + PageSize + PageSize
  BY <1>1, <1>2 DEF Start
<1>. QED BY <1>1, <1>2, <1>3, <1>4, <1>5

\* The page upstream answers.
LEMMA BatchFacts ==
    ASSUME WalkInv
    PROVE  LET all == Matching(book, filter)
           IN  /\ Batch \in Seq(Orders)
               /\ Len(Batch) \in 0..PageSize
               /\ Len(Batch) = PageSize => Start + PageSize <= Len(all)
               /\ Len(Batch) < PageSize => Len(all) < Start + PageSize
               /\ Start <= Len(all) /\ Len(Batch) < PageSize =>
                     Start + Len(Batch) = Len(all)
               /\ \A k \in 1..Len(Batch) : Batch[k] = all[Start + k]
               /\ \A k \in 1..Len(all) :
                     Start < k /\ k <= Start + PageSize => all[k] \in Range(Batch)
<1>. DEFINE all == Matching(book, filter)
            end == IF Start + PageSize > Len(all) THEN Len(all) ELSE Start + PageSize
<1>1. /\ all \in Seq(Orders) /\ Len(all) \in Nat
      /\ Start \in Nat /\ PageSize \in Nat \ {0}
  BY BookFacts
<1>2. Batch = SubSeq(all, Start + 1, end)
  BY DEF Batch, Start
<1>3. end \in Nat /\ end <= Len(all)
  BY <1>1
<1>4. \A i \in Start + 1..end : i \in 1..Len(all) /\ all[i] \in Orders
  BY <1>1, <1>3, ElementOfSeq
<1>5. /\ Batch \in Seq(Orders)
      /\ Len(Batch) = IF Start + 1 <= end THEN end - (Start + 1) + 1 ELSE 0
      /\ \A i \in 1..end - (Start + 1) + 1 : Batch[i] = all[Start + 1 + i - 1]
  <2>1. Start + 1 \in Int /\ end \in Int /\ \A i \in Start + 1..end : all[i] \in Orders
    BY <1>1, <1>3, <1>4
  <2>. HIDE DEF all, end
  <2>. QED BY <2>1, <1>2, SubSeqProperties
<1>6. DOMAIN Batch = 1..Len(Batch)
  BY <1>5, LenProperties
<1>7. \A k \in 1..Len(Batch) : Batch[k] = all[Start + k]
  <2>. HIDE DEF all
  <2>1. ASSUME NEW k \in 1..Len(Batch) PROVE Batch[k] = all[Start + k]
    <3>1. k \in 1..end - (Start + 1) + 1 /\ Start + 1 + k - 1 = Start + k
      BY <1>1, <1>3, <1>5
    <3>. QED BY <3>1, <1>5
  <2>. QED BY <2>1
<1>8. ASSUME NEW k \in 1..Len(all), Start < k, k <= Start + PageSize
      PROVE  all[k] \in Range(Batch)
  <2>1. k - Start \in 1..Len(Batch)
    BY <1>1, <1>5, <1>8
  <2>2. Batch[k - Start] = all[k]
    BY <1>1, <1>7, <2>1
  <2>. QED BY <2>1, <2>2, <1>6 DEF Range
<1>9. /\ Len(Batch) \in 0..PageSize
      /\ Len(Batch) = PageSize => Start + PageSize <= Len(all)
      /\ Len(Batch) < PageSize => Len(all) < Start + PageSize
      /\ Start <= Len(all) /\ Len(Batch) < PageSize => Start + Len(Batch) = Len(all)
  BY <1>1, <1>3, <1>5
<1>. QED BY <1>5, <1>7, <1>8, <1>9

\* ... and what is returned once it was read.
LEMMA ReadFacts ==
    ASSUME WalkInv, pc = "page"
    PROVE  LET all == Matching(book, filter)
               old == Matching(opened, filter)
           IN  /\ items \o Batch \in Seq(Orders)
               /\ Len(items \o Batch) = Len(items) + Len(Batch)
               /\ \A k \in 1..Len(old) :
                     k + (Len(all) - Len(old)) <= Start + PageSize =>
                         old[k] \in Range(items \o Batch)
               /\ book = opened =>
                     \A k \in 1..Len(items \o Batch) : (items \o Batch)[k] = all[k]
<1>. DEFINE all == Matching(book, filter)
            old == Matching(opened, filter)
            read == items \o Batch
<1>1. /\ items \in Seq(Orders) /\ Len(items) \in Nat /\ Start \in Nat
      /\ Len(all) \in Nat /\ Len(old) \in Nat /\ PageSize \in Nat
  BY BookFacts
<1>2. /\ Batch \in Seq(Orders) /\ Len(Batch) \in 0..PageSize
      /\ \A k \in 1..Len(Batch) : Batch[k] = all[Start + k]
      /\ \A k \in 1..Len(all) :
            Start < k /\ k <= Start + PageSize => all[k] \in Range(Batch)
  BY BatchFacts
<1>3. /\ Len(old) <= Len(all)
      /\ \A k \in 1..Len(old) : all[Len(all) - Len(old) + k] = old[k]
      /\ \A k \in 1..Len(old) :
            k + (Len(all) - Len(old)) <= Start => old[k] \in Range(items)
  BY DEF WalkInv, Grown, Covered
<1>4. /\ read \in Seq(Orders) /\ Len(read) = Len(items) + Len(Batch)
      /\ \A k \in 1..Len(items) + Len(Batch) :
            read[k] = IF k <= Len(items) THEN items[k] ELSE Batch[k - Len(items)]
  BY <1>1, <1>2, ConcatProperties
<1>5. Range(read) = Range(items) \cup Range(Batch)
  BY <1>1, <1>2, RangeConcatenation
<1>6. ASSUME NEW k \in 1..Len(old), k + (Len(all) - Len(old)) <= Start + PageSize
      PROVE  old[k] \in Range(read)
  <2>. HIDE DEF all, old, read
  <2>1. /\ Len(all) - Len(old) + k \in 1..Len(all)
        /\ old[k] = all[Len(all) - Len(old) + k]
    BY <1>1, <1>3
  <2>2. CASE k + (Len(all) - Len(old)) <= Start
    BY <2>2, <1>3, <1>5
  <2>3. CASE Start < Len(all) - Len(old) + k
    BY <2>1, <2>3, <1>1, <1>2, <1>5, <1>6
  <2>. QED BY <2>2, <2>3, <1>1
<1>7. ASSUME book = opened, NEW k \in 1..Len(read) PROVE read[k] = all[k]
  <2>1. Len(items) = Start /\ \A i \in 1..Start : items[i] = all[i]
    BY <1>7 DEF WalkInv, PagesFull, InStep
  <2>. HIDE DEF all, old, read
  <2>2. k \in 1..Len(items) + Len(Batch)
    BY <1>4
  <2>3. CASE k <= Len(items)
    <3>1. read[k] = items[k] /\ k \in 1..Start
      BY <2>1, <2>2, <2>3, <1>1, <1>2, <1>4
    <3>. QED BY <3>1, <2>1
  <2>4. CASE k > Len(items)
    <3>1. /\ read[k] = Batch[k - Start] /\ k - Start \in 1..Len(Batch)
          /\ Start + (k - Start) = k
      BY <2>1, <2>2, <2>4, <1>1, <1>2, <1>4
    <3>. QED BY <3>1, <1>2
  <2>. QED BY <2>2, <2>3, <2>4, <1>1
<1>. QED BY <1>4, <1>6, <1>7

\* An order that is placed comes before all others.
LEMMA PlaceStep ==
    ASSUME WalkInv, NEW o \in Orders, Place(o)
    PROVE  WalkInv'
<1>. DEFINE all == Matching(book, filter)
            old == Matching(opened, filter)
            grown == Matching(<<o>> \o book, filter)
<1>1. /\ book' = <<o>> \o book /\ o \notin Range(book) /\ book \in Seq(Orders)
      /\ opened \in Seq(Orders) /\ IsInjective(book)
      /\ UNCHANGED <<opened, fills, asked, filter, pc, walk, page, items,
                     truncated, sides, todo, active, found>>
  BY DEF Place, WalkInv, BookOnce, call, walking, lookups
<1>2. /\ <<o>> \in Seq(Orders) /\ Len(<<o>>) = 1 /\ <<o>>[1] = o
      /\ Len(book) \in Nat /\ DOMAIN book = 1..Len(book) /\ Len(opened) \in Nat
  BY <1>1, LenProperties
<1>3. /\ book' \in Seq(Orders) /\ Len(book') = 1 + Len(book)
      /\ DOMAIN book' = 1..Len(book')
      /\ \A k \in 1..1 + Len(book) :
            book'[k] = IF k = 1 THEN o ELSE book[k - 1]
  <2>1. /\ <<o>> \o book \in Seq(Orders) /\ Len(<<o>> \o book) = 1 + Len(book)
        /\ \A k \in 1..1 + Len(book) :
              (<<o>> \o book)[k] = IF k <= 1 THEN <<o>>[k] ELSE book[k - 1]
    BY <1>1, <1>2, ConcatProperties
  <2>2. DOMAIN (<<o>> \o book) = 1..Len(<<o>> \o book)
    BY <2>1, LenProperties
  <2>. QED BY <1>1, <1>2, <2>1, <2>2
<1>4. BookOnce'
  <2>1. \A k \in 1..Len(book) : book[k] # o
    BY <1>1, <1>2 DEF Range
  <2>2. ASSUME NEW i \in DOMAIN book', NEW j \in DOMAIN book', book'[i] = book'[j]
        PROVE  i = j
    <3>1. \A k \in DOMAIN book' :
             (k = 1 /\ book'[k] = o)
             \/ (k # 1 /\ k - 1 \in 1..Len(book) /\ book'[k] = book[k - 1])
      BY <1>2, <1>3
    <3>2. \A a, c \in 1..Len(book) : book[a] = book[c] => a = c
      BY <1>1, <1>2 DEF IsInjective
    <3>3. CASE i = 1
      BY <3>1, <3>3, <2>1, <2>2
    <3>4. CASE j = 1
      BY <3>1, <3>4, <2>1, <2>2
    <3>5. CASE i # 1 /\ j # 1
      <4>1. i - 1 = j - 1
        BY <3>1, <3>2, <3>5, <2>2
      <4>. QED BY <4>1, <1>2, <1>3
    <3>. QED BY <3>3, <3>4, <3>5
  <2>3. IsInjective(book')
    BY <2>2 DEF IsInjective
  <2>. QED BY <1>1, <1>3, <2>3 DEF BookOnce
<1>5. /\ all \in Seq(Orders) /\ old \in Seq(Orders)
      /\ Len(all) \in Nat /\ Len(old) \in Nat /\ Start \in Nat
  BY BookFacts
<1>6. \/ grown = all
      \/ /\ Len(grown) = Len(all) + 1
         /\ \A k \in 1..Len(all) : grown[k + 1] = all[k]
  <2>0. book \in Seq(Orders)
    BY <1>1
  <2>1. grown = all \/ grown = <<o>> \o all
    BY <2>0, MatchingOfNew
  <2>2. /\ Len(<<o>> \o all) = 1 + Len(all)
        /\ \A k \in 1..1 + Len(all) :
              (<<o>> \o all)[k] = IF k <= 1 THEN <<o>>[k] ELSE all[k - 1]
    <3>. HIDE DEF all
    <3>. QED BY <1>2, <1>5, ConcatProperties
  <2>3. \A k \in 1..Len(all) : (<<o>> \o all)[k + 1] = all[k]
    <3>. HIDE DEF all
    <3>. QED BY <1>5, <2>2
  <2>. HIDE DEF all, grown
  <2>. QED BY <1>5, <2>1, <2>2, <2>3
<1>7. /\ Matching(book, filter)' = grown /\ Matching(opened, filter)' = old
      /\ Start' = Start
  BY <1>1 DEF Start
<1>8. /\ Len(opened) <= Len(book)
      /\ Len(old) <= Len(all)
      /\ \A k \in 1..Len(old) : all[Len(all) - Len(old) + k] = old[k]
      /\ pc = "page" => \A k \in 1..Len(old) :
            k + (Len(all) - Len(old)) <= Start => old[k] \in Range(items)
  BY DEF WalkInv, Grown, Covered
<1>9. /\ Len(old) <= Len(grown)
      /\ Len(all) <= Len(grown)
      /\ Len(grown) \in Nat
      /\ \A k \in 1..Len(old) : grown[Len(grown) - Len(old) + k] = old[k]
  <2>. HIDE DEF all, old, grown
  <2>1. CASE grown = all
    BY <2>1, <1>5, <1>8
  <2>2. CASE grown # all
    <3>1. /\ Len(grown) = Len(all) + 1
          /\ \A k \in 1..Len(all) : grown[k + 1] = all[k]
      BY <2>2, <1>6
    <3>2. ASSUME NEW k \in 1..Len(old)
          PROVE  grown[Len(grown) - Len(old) + k] = old[k]
      <4>1. /\ Len(all) - Len(old) + k \in 1..Len(all)
            /\ Len(grown) - Len(old) + k = (Len(all) - Len(old) + k) + 1
        BY <3>1, <1>5, <1>8
      <4>. QED BY <4>1, <3>1, <1>8
    <3>. QED BY <3>1, <3>2, <1>5, <1>8
  <2>. QED BY <2>1, <2>2
<1>10. Grown'
  <2>. HIDE DEF all, old, grown
  <2>1. Len(opened)' <= Len(book)'
    BY <1>1, <1>2, <1>3, <1>8
  <2>. QED BY <2>1, <1>7, <1>9 DEF Grown
<1>11. Covered'
  <2>. HIDE DEF all, old, grown
  <2>. QED BY <1>1, <1>5, <1>7, <1>8, <1>9 DEF Covered
<1>12. book' # opened'
  BY <1>1, <1>2, <1>3, <1>8
<1>13. PagesFull' /\ InStep' /\ RepeatsOnlyWhenTrading'
  BY <1>1, <1>7, <1>12 DEF WalkInv, PagesFull, InStep, RepeatsOnlyWhenTrading
<1>14. WalkComplete'
  BY <1>1, <1>7 DEF WalkInv, WalkComplete
<1>15. TypeOK'
  BY <1>1, <1>3 DEF WalkInv, TypeOK
<1>. QED BY <1>4, <1>10, <1>11, <1>13, <1>14, <1>15 DEF WalkInv

\* A full page before the cap.
LEMMA NextPageStep ==
    ASSUME WalkInv, NextPage
    PROVE  WalkInv'
<1>. DEFINE all == Matching(book, filter)
            old == Matching(opened, filter)
            read == items \o Batch
<1>1. /\ pc = "page" /\ pc' = "page" /\ Len(Batch) = PageSize /\ page < MaxPages
      /\ items' = read /\ page' = page + 1
      /\ UNCHANGED <<book, opened, fills, asked, filter, walk, truncated, sides,
                     todo, active, found>>
  BY DEF NextPage, call, lookups
<1>2. /\ items \in Seq(Orders) /\ Len(items) \in Nat /\ Start \in Nat
      /\ Len(all) \in Nat /\ Len(old) \in Nat /\ PageSize \in Nat \ {0}
      /\ page \in 1..MaxPages /\ MaxPages \in Nat \ {0}
      /\ page * PageSize = Start + PageSize
      /\ (page + 1 - 1) * PageSize = Start + PageSize
      /\ (page + 1) * PageSize = Start + PageSize + PageSize
  BY BookFacts
<1>3. /\ read \in Seq(Orders)
      /\ Len(read) = Len(items) + Len(Batch)
      /\ \A k \in 1..Len(old) :
            k + (Len(all) - Len(old)) <= Start + PageSize => old[k] \in Range(read)
      /\ book = opened => \A k \in 1..Len(read) : read[k] = all[k]
  BY <1>1, ReadFacts
<1>4. Start + PageSize <= Len(all)
  BY <1>1, BatchFacts
<1>5. /\ Matching(book, filter)' = all /\ Matching(opened, filter)' = old
      /\ Start' = Start + PageSize
  BY <1>1, <1>2 DEF Start
<1>6. BookOnce' /\ Grown'
  <2>. HIDE DEF all, old
  <2>1. BookOnce /\ Grown
    BY DEF WalkInv
  <2>. QED BY <1>1, <1>5, <2>1 DEF BookOnce, Grown, all, old
<1>7. Covered'
  <2>. HIDE DEF all, old, read
  <2>. QED BY <1>1, <1>3, <1>5 DEF Covered
<1>8. PagesFull' /\ InStep'
  <2>1. Len(items) = Start
    BY <1>1 DEF WalkInv, PagesFull
  <2>. HIDE DEF all, old, read
  <2>. QED BY <1>1, <1>2, <1>3, <1>4, <1>5, <2>1 DEF PagesFull, InStep
<1>9. WalkComplete' /\ RepeatsOnlyWhenTrading'
  BY <1>1 DEF WalkComplete, RepeatsOnlyWhenTrading
<1>10. TypeOK'
  <2>1. Len(items) <= Start + PageSize
    BY <1>2 DEF WalkInv, TypeOK
  <2>2. page' \in 1..MaxPages /\ items' \in Seq(Orders)
        /\ Len(items') <= page' * PageSize
    <3>. HIDE DEF read
    <3>. QED BY <1>1, <1>2, <1>3, <2>1
  <2>. QED BY <1>1, <2>2 DEF WalkInv, TypeOK
<1>. QED BY <1>6, <1>7, <1>8, <1>9, <1>10 DEF WalkInv

\* The last page: short, or at the cap.
LEMMA LastPageStep ==
    ASSUME WalkInv, LastPage
    PROVE  WalkInv'
<1>. DEFINE all == Matching(book, filter)
            old == Matching(opened, filter)
            read == items \o Batch
<1>1. /\ pc = "page" /\ pc' = "merge"
      /\ items' = read /\ truncated' = (Len(Batch) = PageSize)
      /\ UNCHANGED <<book, opened, fills, asked, filter, walk, page, sides,
                     todo, active, found>>
  BY DEF LastPage, call, lookups
<1>2. /\ items \in Seq(Orders) /\ Len(items) \in Nat /\ Start \in Nat
      /\ Len(all) \in Nat /\ Len(old) \in Nat /\ PageSize \in Nat \ {0}
      /\ page \in 1..MaxPages
      /\ page * PageSize = Start + PageSize
      /\ old \in Seq(Orders) /\ all \in Seq(Orders)
      /\ IsInjective(all)
  BY BookFacts
<1>3. /\ read \in Seq(Orders)
      /\ Len(read) = Len(items) + Len(Batch)
      /\ \A k \in 1..Len(old) :
            k + (Len(all) - Len(old)) <= Start + PageSize => old[k] \in Range(read)
      /\ book = opened => \A k \in 1..Len(read) : read[k] = all[k]
  BY <1>1, ReadFacts
<1>4. /\ Len(Batch) \in 0..PageSize
      /\ Len(Batch) = PageSize => Start + PageSize <= Len(all)
      /\ Len(Batch) < PageSize => Len(all) < Start + PageSize
      /\ Start <= Len(all) /\ Len(Batch) < PageSize => Start + Len(Batch) = Len(all)
  BY BatchFacts
<1>5. /\ Matching(book, filter)' = all /\ Matching(opened, filter)' = old
      /\ Start' = Start
  BY <1>1 DEF Start
<1>6. BookOnce' /\ Grown'
  <2>. HIDE DEF all, old
  <2>1. BookOnce /\ Grown
    BY DEF WalkInv
  <2>. QED BY <1>1, <1>5, <2>1 DEF BookOnce, Grown, all, old
<1>7. Covered' /\ PagesFull' /\ InStep'
  BY <1>1 DEF Covered, PagesFull, InStep
<1>8. WalkComplete'
  <2>1. ASSUME Len(Batch) < PageSize PROVE Range(old) \subseteq Range(read)
    <3>1. DOMAIN old = 1..Len(old)
      BY <1>2, LenProperties
    <3>. HIDE DEF all, old, read
    <3>2. Len(old) <= Len(all)
      BY DEF WalkInv, Grown, all, old
    <3>3. \A k \in 1..Len(old) : old[k] \in Range(read)
      BY <1>2, <1>3, <1>4, <2>1, <3>2
    <3>. QED BY <3>1, <3>3 DEF Range
  <2>2. ~truncated' => Len(Batch) # PageSize
    BY <1>1, Zenon
  <2>. HIDE DEF all, old, read
  <2>3. Len(Batch) # PageSize => Len(Batch) < PageSize
    BY <1>2, <1>4
  <2>. QED BY <1>1, <1>5, <2>1, <2>2, <2>3 DEF WalkComplete
<1>9. RepeatsOnlyWhenTrading'
  <2>1. ASSUME book = opened PROVE IsInjective(read)
    <3>1. Len(items) = Start /\ Start <= Len(all)
      BY <1>1, <2>1 DEF WalkInv, PagesFull, InStep
    <3>2. DOMAIN read = 1..Len(read) /\ DOMAIN all = 1..Len(all)
      BY <1>2, <1>3, LenProperties
    <3>. HIDE DEF all, old, read
    <3>3. Len(read) <= Len(all)
      BY <1>2, <1>3, <1>4, <3>1
    <3>4. \A k \in 1..Len(read) : k \in 1..Len(all)
      BY <1>2, <1>3, <1>4, <3>3
    <3>5. \A k \in DOMAIN read : k \in DOMAIN all /\ read[k] = all[k]
      BY <1>3, <2>1, <3>2, <3>4
    <3>. QED BY <1>2, <3>5 DEF IsInjective
  <2>. HIDE DEF all, old, read
  <2>. QED BY <1>1, <2>1 DEF RepeatsOnlyWhenTrading
<1>10. TypeOK'
  <2>1. Len(items) = Start
    BY <1>1 DEF WalkInv, PagesFull
  <2>2. items' \in Seq(Orders) /\ Len(items') <= page' * PageSize'
    <3>. HIDE DEF read
    <3>. QED BY <1>1, <1>2, <1>3, <1>4, <2>1
  <2>3. truncated' \in BOOLEAN
    BY <1>1
  <2>. QED BY <1>1, <2>2, <2>3 DEF WalkInv, TypeOK
<1>. QED BY <1>6, <1>7, <1>8, <1>9, <1>10 DEF WalkInv

\* The follow-up begins with the book as it is then.
LEMMA FollowUpStep ==
    ASSUME WalkInv, IInv, FollowUp
    PROVE  WalkInv'
<1>. DEFINE all == Matching(book, filter')
<1>1. /\ pc = "merge" /\ pc' = "page" /\ opened' = book /\ items' = <<>>
      /\ walk' = 2 /\ page' = 1 /\ truncated' = FALSE /\ sides' = Known
      /\ filter' \in Some(MaxSymbols, {SymbolOf[o] : o \in Missing(Known)})
      /\ UNCHANGED <<book, fills, asked, todo, active, found>>
  BY DEF FollowUp, call, lookups
<1>2. BookOnce'
  BY <1>1 DEF WalkInv, BookOnce
<1>3. /\ all \in Seq(Orders) /\ Len(all) \in Nat /\ Len(book) \in Nat
      /\ MaxPages \in Nat \ {0} /\ PageSize \in Nat \ {0}
      /\ <<>> \in Seq(Orders) /\ Len(<<>>) = 0
  <2>1. book \in Seq(Orders)
    BY DEF WalkInv, BookOnce
  <2>2. all \in Seq(Orders)
    BY <2>1, MatchingOnce
  <2>. QED BY <2>1, <2>2, LenProperties, EmptySeq, FillSidesAssumption
<1>4. /\ Matching(book, filter)' = all /\ Matching(opened, filter)' = all
      /\ Start' = 0
  BY <1>1, <1>3 DEF Start
<1>5. Grown' /\ Covered' /\ PagesFull' /\ InStep'
  <2>1. \A k \in 1..Len(all) :
           /\ Len(all) - Len(all) + k = k
           /\ ~(k + (Len(all) - Len(all)) <= 0)
    BY <1>3
  <2>. HIDE DEF all
  <2>. QED BY <1>1, <1>3, <1>4, <2>1 DEF Grown, Covered, PagesFull, InStep
<1>6. WalkComplete' /\ RepeatsOnlyWhenTrading'
  BY <1>1 DEF WalkComplete, RepeatsOnlyWhenTrading
<1>7. TypeOK'
  <2>1. /\ Known \in [Orders -> Sides]
        /\ SymbolOf \in [Orders -> Symbols]
    BY KnownTrue, FillSidesAssumption DEF IInv
  <2>2. Missing(Known) \subseteq Orders
    BY DEF Missing, IInv, Types
  <2>3. filter' \subseteq Symbols
    BY <1>1, <2>1, <2>2, SomeIsAllOrMany
  <2>4. page' \in 1..MaxPages /\ items' \in Seq(Orders)
        /\ Len(items') <= page' * PageSize
    BY <1>1, <1>3
  <2>5. /\ pc' \in {"page", "merge", "look", "done", "empty"} /\ walk' \in 1..2
        /\ sides' \in [Orders -> Sides]
    BY <1>1, <2>1
  <2>7. truncated' \in BOOLEAN
    BY <1>1, Zenon
  <2>6. /\ UNCHANGED <<book, fills, asked, todo, active, found>>
        /\ opened' \in Seq(Orders)
    BY <1>1 DEF WalkInv, TypeOK
  <2>. HIDE DEF all
  <2>. QED BY <2>3, <2>4, <2>5, <2>6, <2>7 DEF WalkInv, TypeOK
<1>. QED BY <1>2, <1>5, <1>6, <1>7 DEF WalkInv

\* The walk over, its part of the invariant says no more.
LEMMA WalkOver ==
    ASSUME WalkInv, UNCHANGED <<book, opened, filter, page, items>>,
           pc' \notin {"page", "merge"}, TypeOK'
    PROVE  WalkInv'
<1>1. /\ Matching(book, filter)' = Matching(book, filter)
      /\ Matching(opened, filter)' = Matching(opened, filter)
  OBVIOUS
<1>2. BookOnce' /\ Grown'
  BY <1>1 DEF WalkInv, BookOnce, Grown
<1>3. Covered' /\ PagesFull' /\ InStep' /\ WalkComplete' /\ RepeatsOnlyWhenTrading'
  BY DEF Covered, PagesFull, InStep, WalkComplete, RepeatsOnlyWhenTrading
<1>. QED BY <1>2, <1>3 DEF WalkInv

\* No more look-ups start than may be made.
LEMMA LookupsBounded ==
    ASSUME IInv, NEW known \in [Orders -> Sides], pc \in {"page", "merge"},
           StartLookups(known)
    PROVE  /\ todo' \subseteq fills
           /\ Cardinality(todo' \cup active \cup DOMAIN found) <= MaxLookups
<1>1. /\ active = {} /\ DOMAIN found = {}
  BY DEF IInv, LookupsInTime, NothingFound
<1>2. Missing(known) \subseteq fills /\ fills \subseteq Orders
  BY DEF Missing, IInv, Types
<1>3. todo' \in Some(MaxLookups, Missing(known))
  BY DEF StartLookups
<1>4. IsFiniteSet(Missing(known)) /\ MaxLookups \in Nat
  BY <1>2, FS_Subset, FillSidesAssumption
<1>5. todo' \subseteq Missing(known) /\ Cardinality(todo') <= MaxLookups
  BY <1>3, <1>4, FS_CardinalityType DEF Some, kSubset
<1>. QED BY <1>1, <1>2, <1>5

\* Merge, and the two failures of a page.
LEMMA WalkEnds ==
    ASSUME WalkInv, IInv, Merge \/ FirstWalkFails \/ FollowUpFails
    PROVE  WalkInv'
<1>1. CASE FirstWalkFails
  <2>1. /\ pc' = "empty"
        /\ UNCHANGED <<book, opened, fills, asked, filter, walk, page, items,
                       truncated, sides, todo, active, found>>
    BY <1>1 DEF FirstWalkFails, call, walking, lookups
  <2>2. TypeOK'
    BY <2>1 DEF WalkInv, TypeOK
  <2>. QED BY <2>1, <2>2, WalkOver
<1>2. ASSUME NEW known \in [Orders -> Sides], pc \in {"page", "merge"},
             StartLookups(known),
             UNCHANGED <<book, call, walking, active, found>>
      PROVE  WalkInv'
  <2>1. /\ pc' = "look" /\ sides' = known
        /\ UNCHANGED <<book, opened, fills, asked, filter, walk, page, items,
                       truncated, active, found>>
    BY <1>2 DEF StartLookups, call, walking
  <2>2. /\ todo' \subseteq fills
        /\ Cardinality(todo' \cup active \cup DOMAIN found) <= MaxLookups
    BY <1>2, LookupsBounded
  <2>3. TypeOK'
    BY <1>2, <2>1, <2>2 DEF WalkInv, TypeOK
  <2>. QED BY <2>1, <2>3, WalkOver
<1>3. CASE Merge
  BY <1>2, <1>3, KnownTrue DEF Merge, IInv
<1>4. CASE FollowUpFails
  BY <1>2, <1>4 DEF FollowUpFails, IInv, Types
<1>. QED BY <1>1, <1>3, <1>4

\* One element more or less.
LEMMA OneMoreOneLess ==
    ASSUME NEW S, IsFiniteSet(S), NEW x
    PROVE  /\ Cardinality(S \cup {x}) \in 0..Cardinality(S) + 1
           /\ Cardinality(S \ {x}) \in 0..Cardinality(S)
<1>1. Cardinality(S) \in Nat
  BY FS_CardinalityType
<1>2. Cardinality(S \cup {x})
         = IF x \in S THEN Cardinality(S) ELSE Cardinality(S) + 1
  BY FS_AddElement, Zenon
<1>3. Cardinality(S \ {x})
         = IF x \in S THEN Cardinality(S) - 1 ELSE Cardinality(S)
  BY FS_RemoveElement, Zenon
<1>4. x \in S => Cardinality(S) # 0
  BY FS_EmptySet, Zenon
<1>5. Cardinality(S \cup {x}) \in 0..Cardinality(S) + 1
  BY <1>1, <1>2
<1>6. Cardinality(S \ {x}) \in 0..Cardinality(S)
  BY <1>1, <1>3, <1>4
<1>. QED BY <1>5, <1>6

\* The single look-ups, and the end of the call.
LEMMA WalkUntouched ==
    ASSUME WalkInv, IInv,
           \/ \E o \in Orders : Lookup(o)
           \/ \E o \in Orders, ok \in BOOLEAN : LookupEnds(o, ok)
           \/ Finish
    PROVE  WalkInv'
<1>0. /\ IsFiniteSet(active) /\ Concurrency \in Nat
      /\ Cardinality(active) \in Nat
      /\ active \subseteq fills /\ todo \subseteq fills /\ fills \subseteq Orders
      /\ Cardinality(active) <= Concurrency
      /\ Cardinality(todo \cup active \cup DOMAIN found) <= MaxLookups
      /\ found \in [DOMAIN found -> Sides \cup {"failed"}]
  <2>1. active \subseteq fills /\ fills \subseteq Orders
    BY DEF WalkInv, TypeOK
  <2>2. IsFiniteSet(active)
    BY <2>1, FS_Subset, FillSidesAssumption
  <2>. QED BY <2>1, <2>2, FS_CardinalityType, FillSidesAssumption DEF WalkInv, TypeOK
<1>1. ASSUME NEW o \in Orders, Lookup(o) PROVE WalkInv'
  <2>1. /\ pc' = "look" /\ o \in todo /\ Cardinality(active) < Concurrency
        /\ todo' = todo \ {o} /\ active' = active \cup {o}
        /\ UNCHANGED <<book, opened, fills, asked, filter, walk, page, items,
                       truncated, sides, found>>
    BY <1>1 DEF Lookup, call, walking
  <2>2. todo' \cup active' \cup DOMAIN found' = todo \cup active \cup DOMAIN found
    BY <2>1
  <2>3. Cardinality(active') <= Concurrency
    <3>1. Cardinality(active \cup {o}) \in 0..Cardinality(active) + 1
      BY <1>0, OneMoreOneLess, Zenon
    <3>2. Cardinality(active') = Cardinality(active \cup {o})
      BY <2>1, Zenon
    <3>. QED BY <1>0, <2>1, <3>1, <3>2
  <2>4. TypeOK'
    BY <1>0, <2>1, <2>2, <2>3 DEF WalkInv, TypeOK
  <2>. QED BY <2>1, <2>4, WalkOver
<1>2. ASSUME NEW o \in Orders, NEW ok \in BOOLEAN, LookupEnds(o, ok)
      PROVE  WalkInv'
  <2>1. /\ pc' = "look" /\ o \in active /\ active' = active \ {o}
        /\ found' = [q \in DOMAIN found \cup {o} |->
                        IF q # o THEN found[q]
                        ELSE IF ok THEN SideOf[o] ELSE "failed"]
        /\ UNCHANGED <<book, opened, fills, asked, filter, walk, page, items,
                       truncated, sides, todo>>
    BY <1>2 DEF LookupEnds, call, walking
  <2>2. todo' \cup active' \cup DOMAIN found' = todo \cup active \cup DOMAIN found
    BY <2>1
  <2>3. Cardinality(active') <= Concurrency
    <3>1. Cardinality(active \ {o}) \in 0..Cardinality(active)
      BY <1>0, OneMoreOneLess, Zenon
    <3>2. Cardinality(active') = Cardinality(active \ {o})
      BY <2>1, Zenon
    <3>. QED BY <1>0, <2>1, <3>1, <3>2
  <2>4. found' \in [DOMAIN found' -> Sides \cup {"failed"}]
    BY <1>0, <2>1, FillSidesAssumption
  <2>5. pc' \in {"page", "merge", "look", "done", "empty"} /\ active' \subseteq fills'
    BY <1>0, <2>1
  <2>6. TypeOK'
    BY <2>1, <2>2, <2>3, <2>4, <2>5 DEF WalkInv, TypeOK
  <2>. QED BY <2>1, <2>6, WalkOver
<1>3. CASE Finish
  <2>1. /\ pc' = "done"
        /\ UNCHANGED <<book, opened, fills, asked, filter, walk, page, items,
                       truncated, todo, active, found>>
    BY <1>3 DEF Finish, call, walking, lookups
  <2>2. sides' \in [Orders -> Sides]
    BY <1>3, LookupSteps DEF IInv, Types
  <2>3. TypeOK'
    BY <2>1, <2>2 DEF WalkInv, TypeOK
  <2>. QED BY <2>1, <2>3, WalkOver
<1>. QED BY <1>1, <1>2, <1>3

\* The walks keep WalkInv, whatever the account does.
THEOREM WalkInvariance == Spec => []WalkInv
<1>1. Init => WalkInv
  <2>. SUFFICES ASSUME Init PROVE WalkInv
    OBVIOUS
  <2>. DEFINE all == Matching(Placed, filter)
  <2>1. /\ book = Placed /\ opened = Placed /\ page = 1 /\ items = <<>>
        /\ truncated = FALSE /\ pc \in {"page", "look"} /\ walk = 1
        /\ sides = Unresolved /\ active = {} /\ found = NothingFound
        /\ filter = asked /\ asked \in {{}} \cup {{s} : s \in Symbols}
        /\ fills \subseteq Old \cup Range(Placed)
        /\ todo \subseteq fills /\ (todo = {} \/ Cardinality(todo) = 1)
    BY DEF Init
  <2>2. /\ Placed \in Seq(Orders) /\ IsInjective(Placed)
        /\ MaxPages \in Nat \ {0} /\ PageSize \in Nat \ {0}
        /\ MaxLookups \in Nat \ {0} /\ Concurrency \in Nat \ {0}
        /\ Old \subseteq Orders
        /\ <<>> \in Seq(Orders) /\ Len(<<>>) = 0
    BY FillSidesAssumption, EmptySeq
  <2>3. /\ all \in Seq(Orders) /\ Len(all) \in Nat /\ Len(Placed) \in Nat
    BY <2>2, MatchingOnce, LenProperties
  <2>4. BookOnce
    BY <2>1, <2>2 DEF BookOnce
  <2>5. /\ Matching(book, filter) = all /\ Matching(opened, filter) = all
        /\ Start = 0
    BY <2>1, <2>2 DEF Start
  <2>6. Grown /\ Covered /\ PagesFull /\ InStep
    <3>1. \A k \in 1..Len(all) :
             /\ Len(all) - Len(all) + k = k
             /\ ~(k + (Len(all) - Len(all)) <= 0)
      BY <2>3
    <3>. HIDE DEF all
    <3>. QED BY <2>1, <2>2, <2>3, <2>5, <3>1 DEF Grown, Covered, PagesFull, InStep
  <2>7. WalkComplete /\ RepeatsOnlyWhenTrading
    BY <2>1 DEF WalkComplete, RepeatsOnlyWhenTrading
  <2>8. TypeOK
    <3>1. Range(Placed) \subseteq Orders
      BY <2>2, RangeOfSeq
    <3>2. page \in 1..MaxPages /\ items \in Seq(Orders)
          /\ Len(items) <= page * PageSize
      BY <2>1, <2>2
    <3>3. sides \in [Orders -> Sides] /\ DOMAIN found = {}
          /\ found \in [DOMAIN found -> Sides \cup {"failed"}]
      BY <2>1 DEF Unresolved, Sides, NothingFound
    <3>4. Cardinality(active) <= Concurrency
      BY <2>1, <2>2, FS_EmptySet
    <3>5. Cardinality(todo \cup active \cup DOMAIN found) <= MaxLookups
      <4>1. todo \cup active \cup DOMAIN found = todo
        BY <2>1, <3>3
      <4>2. Cardinality(todo) \in 0..1
        BY <2>1, FS_EmptySet
      <4>3. Cardinality(todo) <= MaxLookups
        BY <4>2, <2>2
      <4>. QED BY <4>1, <4>3
    <3>6. fills \subseteq Orders /\ asked \subseteq Symbols /\ filter \subseteq Symbols
      BY <2>1, <2>2, <3>1
    <3>7. /\ pc \in {"page", "merge", "look", "done", "empty"} /\ walk \in 1..2
          /\ todo \subseteq fills /\ active \subseteq fills
          /\ book \in Seq(Orders) /\ opened \in Seq(Orders)
      BY <2>1, <2>2
    <3>8. truncated \in BOOLEAN
      BY <2>1, Zenon
    <3>. HIDE DEF all
    <3>. QED BY <3>2, <3>3, <3>4, <3>5, <3>6, <3>7, <3>8 DEF TypeOK
  <2>. QED BY <2>4, <2>6, <2>7, <2>8 DEF WalkInv
<1>2. WalkInv /\ IInv /\ [Next]_vars => WalkInv'
  <2>. SUFFICES ASSUME WalkInv, IInv, [Next]_vars PROVE WalkInv'
    OBVIOUS
  <2>1. CASE UNCHANGED vars
    <3>1. UNCHANGED <<book, opened, fills, asked, filter, pc, walk, page, items,
                      truncated, sides, todo, active, found>>
      BY <2>1 DEF vars
    <3>2. /\ Matching(book, filter)' = Matching(book, filter)
          /\ Matching(opened, filter)' = Matching(opened, filter)
          /\ Start' = Start
      BY <3>1 DEF Start
    <3>3. TypeOK' /\ BookOnce' /\ PagesFull' /\ RepeatsOnlyWhenTrading'
      BY <3>1, <3>2 DEF WalkInv, TypeOK, BookOnce, PagesFull, RepeatsOnlyWhenTrading
    <3>4. Grown' /\ Covered' /\ InStep' /\ WalkComplete'
      BY <3>1, <3>2 DEF WalkInv, Grown, Covered, InStep, WalkComplete
    <3>. QED BY <3>3, <3>4 DEF WalkInv
  <2>2. CASE \E o \in Orders : Place(o)
    BY <2>2, PlaceStep
  <2>3. CASE Answer
    BY <2>3, NextPageStep, LastPageStep, WalkEnds DEF Answer
  <2>4. CASE Step
    BY <2>4, FollowUpStep, WalkEnds, WalkUntouched DEF Step
  <2>5. CASE \E o \in Orders, ok \in BOOLEAN : LookupEnds(o, ok)
    BY <2>5, WalkUntouched
  <2>. QED BY <2>1, <2>2, <2>3, <2>4, <2>5 DEF Next
<1>. QED BY <1>1, <1>2, Invariance, PTL DEF Spec

\* Types, and the two limits on look-ups: US_SIDE_DETAIL_CONCURRENCY at a time
\* and US_SIDE_DETAIL_MAX_LOOKUPS in all (resolve_fill_sides).
THEOREM TypeCorrect == Spec => []TypeOK
BY WalkInvariance, PTL DEF WalkInv

\* A walk that does not report truncation misses no order that was there when
\* it began, however many are placed between two pages (collect_us_pages).
THEOREM WalkMissesNothing == Spec => []WalkComplete
BY WalkInvariance, PTL DEF WalkInv

\* Without trading no order is returned twice (collect_us_pages).
THEOREM NoRepeats == Spec => []RepeatsOnlyWhenTrading
BY WalkInvariance, PTL DEF WalkInv
=============================================================================
