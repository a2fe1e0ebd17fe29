----------------------------- MODULE LeastNumber -----------------------------
(***************************************************************************)
(* The least-number principle for sets, from which every argument by       *)
(* induction over numbers or over the length of a sequence is made: the    *)
(* theorems of NaturalsInduction are about operators and cannot be         *)
(* instantiated by the provers at hand.                                    *)
(***************************************************************************)
EXTENDS Integers, FiniteSetTheorems, TLAPS

\* A set of natural numbers that is not empty has a least element.
LEMMA Least ==
    ASSUME NEW S \in SUBSET Nat, S # {}
    PROVE  \E m \in S : \A k \in S : m <= k
<1>1. PICK n \in S : TRUE OBVIOUS
<1> DEFINE T == {1 .. m : m \in {i \in S : i <= n}}
<1>2. T \subseteq FiniteSubsetsOf(1 .. n) /\ T # {}
  <2>1. IsFiniteSet(1 .. n) BY FS_Interval
  <2>2. T \subseteq SUBSET (1 .. n) BY SMT
  <2>3. QED BY <1>1, <2>1, <2>2, FS_Subset DEF FiniteSubsetsOf
<1>3. \E x \in T : \A y \in T : ~ (<<y, x>> \in StrictSubsetOrdering(1 .. n))
  <2> HIDE DEF T
  <2>1. IsWellFoundedOn(StrictSubsetOrdering(1 .. n), FiniteSubsetsOf(1 .. n))
    BY FS_StrictSubsetOrderingWellFounded, Zenon
  <2>2. QED BY <1>2, <2>1, WFMin, Zenon
<1>4. PICK m \in S : m <= n /\ \A y \in T : ~ (<<y, 1 .. m>> \in StrictSubsetOrdering(1 .. n))
  BY <1>3
<1>5. ASSUME NEW k \in S, k < m PROVE FALSE
  <2>1. 1 .. k \in T BY <1>4, <1>5
  <2>2. 1 .. k # 1 .. m BY <1>5, SMT
  <2>3. <<1 .. k, 1 .. m>> \in StrictSubsetOrdering(1 .. n)
    BY <1>4, <1>5, <2>2 DEF StrictSubsetOrdering
  <2>4. QED BY <1>4, <2>1, <2>3
<1>6. QED BY <1>5

\* A set of natural numbers that is bounded and not empty has a greatest element.
LEMMA Greatest ==
    ASSUME NEW n \in Nat, NEW S \in SUBSET (0 .. n), S # {}
    PROVE  \E m \in S : \A k \in S : k <= m
<1> DEFINE T == {n - k : k \in S}
<1>1. T \in SUBSET Nat /\ T # {}
  <2>1. \A k \in S : n - k \in Nat BY SMT
  <2>2. QED BY <2>1, Zenon
<1>2. PICK m \in T : \A k \in T : m <= k
  <2> HIDE DEF T
  <2>1. QED BY <1>1, Least
<1>3. PICK j \in S : m = n - j BY <1>2
<1>4. \A k \in S : k <= j BY <1>2, <1>3
<1>5. QED BY <1>4
==============================================================================
