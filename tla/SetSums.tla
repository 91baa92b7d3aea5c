------------------------------- MODULE SetSums -------------------------------
(***************************************************************************)
(* Lemmas about sums over a finite set.                                    *)
(*                                                                         *)
(* MapThenSumSet() is defined by recursion on the set.  What it returns is *)
(* shown without induction: the number of the units the terms are made of  *)
(* solves the recursive equation, and of two solutions, a smallest set on  *)
(* which they differ would not be one.                                     *)
(***************************************************************************)
EXTENDS Integers, FiniteSets, FiniteSetTheorems, WellFoundedInduction, TLAPS

\* The terms of a sum over W: naturals up to n.
Terms(W, n) == [W -> 0 .. n]

Any(S) == CHOOSE x \in S : TRUE

IsSum(W, f, g) ==
  g = [S \in SUBSET W |-> IF S = {} THEN 0 ELSE f[Any(S)] + g[S \ {Any(S)}]]

\* What MapThenSumSet(LAMBDA w : f[w], W) expands to.
SumOver(W, f) == (CHOOSE g : IsSum(W, f, g))[W]

Units(f, S, n) == {u \in S \X (1 .. n) : u[2] <= f[u[1]]}

-----------------------------------------------------------------------------

LEMMA LeastNumber ==
  ASSUME NEW S \in SUBSET Nat, S # {}
  PROVE  \E m \in S : \A k \in S : m <= k
<1> DEFINE R == OpToRel(<, Nat)
<1>1. IsWellFoundedOn(R, Nat)
  BY NatLessThanWellFounded, Zenon
<1>2. PICK m \in S : \A k \in S : ~(<<k, m>> \in R)
  BY <1>1, WFMin
<1>3. \A k \in S : ~(k < m)
  BY <1>2 DEF OpToRel
<1>4. QED
  BY <1>3

LEMMA InitialSegment == \A n \in Nat : IsFiniteSet(1 .. n) /\ Cardinality(1 .. n) = n
<1> SUFFICES ASSUME NEW n \in Nat
             PROVE  IsFiniteSet(1 .. n) /\ Cardinality(1 .. n) = n
  OBVIOUS
<1>1. IsFiniteSet(1 .. n) /\ Cardinality(1 .. n) = IF 1 > n THEN 0 ELSE n - 1 + 1
  BY FS_Interval
<1>2. QED
  BY <1>1

LEMMA UnitsFinite ==
  ASSUME NEW W, IsFiniteSet(W), NEW n \in Nat, NEW f, NEW S \in SUBSET W
  PROVE  IsFiniteSet(Units(f, S, n)) /\ Cardinality(Units(f, S, n)) \in Nat
<1>1. IsFiniteSet(S) /\ IsFiniteSet(1 .. n)
  BY FS_Subset, InitialSegment
<1>2. IsFiniteSet(S \X (1 .. n))
  BY <1>1, FS_Product
<1>3. QED
  BY <1>2, FS_Subset, FS_CardinalityType DEF Units

LEMMA UnitsOfOne ==
  ASSUME NEW W, IsFiniteSet(W), NEW n \in Nat, NEW f \in Terms(W, n),
         NEW S \in SUBSET W, NEW x \in S
  PROVE  Cardinality(Units(f, S, n)) = f[x] + Cardinality(Units(f, S \ {x}, n))
<1> DEFINE column == {x} \X (1 .. f[x])
           others == Units(f, S \ {x}, n)
<1>1. f[x] \in Nat /\ f[x] <= n
  BY DEF Terms
<1>2. IsFiniteSet(column) /\ Cardinality(column) = f[x]
  <2>1. IsFiniteSet({x}) /\ Cardinality({x}) = 1
    BY FS_Singleton
  <2>2. IsFiniteSet(1 .. f[x]) /\ Cardinality(1 .. f[x]) = f[x]
    BY <1>1, InitialSegment
  <2>3. IsFiniteSet(column) /\ Cardinality(column) = 1 * f[x]
    BY <2>1, <2>2, FS_Product, ZenonT(60)
  <2>4. f[x] = 1 * f[x]
    BY <1>1
  <2>5. QED
    BY <2>3, <2>4
<1>3. Units(f, S, n) = column \cup others /\ column \cap others = {}
  <2>1. column \subseteq Units(f, S, n)
    BY <1>1 DEF Units
  <2>2. \A u \in Units(f, S, n) : u \in column \/ u \in others
    BY <1>1 DEF Units
  <2>3. QED
    BY <2>1, <2>2 DEF Units
<1>4. IsFiniteSet(others) /\ Cardinality(others) \in Nat
  BY UnitsFinite
<1> HIDE DEF column, others
<1>5. Cardinality(column \cup others)
        = Cardinality(column) + Cardinality(others) - Cardinality(column \cap others)
  BY <1>2, <1>4, FS_Union
<1>6. Cardinality(column \cap others) = 0
  BY <1>3, FS_EmptySet
<1>7. QED
  BY <1>1, <1>2, <1>3, <1>4, <1>5, <1>6 DEF others

LEMMA SumExists ==
  ASSUME NEW W, IsFiniteSet(W), NEW n \in Nat, NEW f \in Terms(W, n)
  PROVE  IsSum(W, f, [S \in SUBSET W |-> Cardinality(Units(f, S, n))])
<1> DEFINE g == [S \in SUBSET W |-> Cardinality(Units(f, S, n))]
<1>1. ASSUME NEW S \in SUBSET W
      PROVE  g[S] = IF S = {} THEN 0 ELSE f[Any(S)] + g[S \ {Any(S)}]
  <2>1. CASE S = {}
    <3>1. Units(f, S, n) = {}
      BY <2>1 DEF Units
    <3>2. QED
      BY <2>1, <3>1, FS_EmptySet
  <2>2. CASE S # {}
    <3>1. Any(S) \in S
      BY <2>2 DEF Any
    <3>2. S \ {Any(S)} \in SUBSET W
      OBVIOUS
    <3>3. QED
      BY <2>2, <3>1, <3>2, UnitsOfOne
  <2>3. QED
    BY <2>1, <2>2
<1>2. QED
  BY <1>1 DEF IsSum

LEMMA SumUnique ==
  ASSUME NEW W, IsFiniteSet(W), NEW f, NEW g, NEW h, IsSum(W, f, g), IsSum(W, f, h)
  PROVE  g = h
<1> DEFINE Differ == {S \in SUBSET W : g[S] # h[S]}
<1>1. SUFFICES ASSUME Differ # {} PROVE FALSE
  BY DEF IsSum
<1>2. Differ \subseteq FiniteSubsetsOf(W)
  BY FS_FiniteSubsetsOfFinite
<1>3. PICK S \in Differ : \A T \in Differ : ~(<<T, S>> \in StrictSubsetOrdering(W))
  BY <1>1, <1>2, FS_StrictSubsetOrderingWellFounded, WFMin
<1>4. S # {}
  BY DEF IsSum
<1>5. Any(S) \in S
  BY <1>4 DEF Any
<1>6. S \ {Any(S)} \notin Differ
  <2>1. <<S \ {Any(S)}, S>> \in StrictSubsetOrdering(W)
    <3>1. S \ {Any(S)} \in SUBSET W /\ S \in SUBSET W /\ S \ {Any(S)} # S
      BY <1>5
    <3>2. QED
      BY <3>1 DEF StrictSubsetOrdering
  <2>2. QED
    BY <1>3, <2>1
<1>7. g[S \ {Any(S)}] = h[S \ {Any(S)}]
  BY <1>6
<1>8. g[S] = h[S]
  BY <1>4, <1>7 DEF IsSum
<1>9. QED
  BY <1>8

LEMMA SumIsUnits ==
  ASSUME NEW W, IsFiniteSet(W), NEW n \in Nat, NEW f \in Terms(W, n)
  PROVE  SumOver(W, f) = Cardinality(Units(f, W, n)) /\ SumOver(W, f) \in Nat
<1> DEFINE g0 == [S \in SUBSET W |-> Cardinality(Units(f, S, n))]
<1>1. IsSum(W, f, g0)
  BY SumExists
<1>2. (CHOOSE g : IsSum(W, f, g)) = g0
  BY <1>1, SumUnique
<1>3. SumOver(W, f) = Cardinality(Units(f, W, n))
  BY <1>2 DEF SumOver
<1>4. Cardinality(Units(f, W, n)) \in Nat
  BY UnitsFinite
<1>5. QED
  BY <1>3, <1>4

-----------------------------------------------------------------------------

LEMMA TermWithinSum ==
  ASSUME NEW W, IsFiniteSet(W), NEW n \in Nat, NEW f \in Terms(W, n), NEW x \in W
  PROVE  f[x] \in Nat /\ SumOver(W, f) \in Nat /\ f[x] <= SumOver(W, f)
<1>1. f[x] \in Nat
  BY DEF Terms
<1>2. /\ Cardinality(Units(f, W, n)) = f[x] + Cardinality(Units(f, W \ {x}, n))
      /\ Cardinality(Units(f, W \ {x}, n)) \in Nat
  BY UnitsOfOne, UnitsFinite
<1>3. SumOver(W, f) = f[x] + Cardinality(Units(f, W \ {x}, n))
  BY <1>2, SumIsUnits
<1>4. QED
  BY <1>1, <1>2, <1>3

\* Two sums that differ in one term.
LEMMA SumChange ==
  ASSUME NEW W, IsFiniteSet(W), NEW n \in Nat,
         NEW f \in Terms(W, n), NEW g \in Terms(W, n), NEW x \in W,
         \A y \in W \ {x} : g[y] = f[y]
  PROVE  SumOver(W, g) = SumOver(W, f) - f[x] + g[x]
<1> DEFINE others == Cardinality(Units(f, W \ {x}, n))
<1>1. f[x] \in Nat /\ g[x] \in Nat
  BY DEF Terms
<1>2. Units(g, W \ {x}, n) = Units(f, W \ {x}, n)
  BY DEF Units
<1>3. /\ SumOver(W, f) = f[x] + others
      /\ SumOver(W, g) = g[x] + others
      /\ others \in Nat
  BY <1>2, SumIsUnits, UnitsOfOne, UnitsFinite
<1> HIDE DEF others
<1>4. QED
  BY <1>1, <1>3

LEMMA SumOfZeros ==
  ASSUME NEW W, IsFiniteSet(W), NEW f, f = [x \in W |-> 0]
  PROVE  SumOver(W, f) = 0
<1>1. f \in Terms(W, 0)
  BY DEF Terms
<1>2. Units(f, W, 0) = {}
  BY DEF Units
<1>3. QED
  BY <1>1, <1>2, SumIsUnits, FS_EmptySet, SMTT(30)
=============================================================================
