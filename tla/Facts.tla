-------------------------------- MODULE Facts --------------------------------
(***************************************************************************)
(* Facts about numbers that the proofs about several modules use.          *)
(*                                                                         *)
(* NatInduction of the library takes an operator as a parameter, which no  *)
(* backend can instantiate.  Here the property is a set, and the argument  *)
(* goes through the least number outside of it.                            *)
(***************************************************************************)
EXTENDS Integers, FiniteSets, TLAPS, FiniteSetTheorems, WellFoundedInduction

\* A set of numbers has a least element.  Of the sets S \cap 1..k with k in S, take one
\* that is minimal in the strict subset ordering: SMT cannot use the ordering of Nat,
\* as < is no set.
LEMMA LeastExists ==
  ASSUME NEW n \in Nat, NEW S \in SUBSET (1..n), S # {}
  PROVE  \E k \in S : \A j \in S : k <= j
<1> DEFINE T == {S \cap (1..k) : k \in S}
<1>1. IsFiniteSet(1..n)
  BY FS_Interval
<1>2. FiniteSubsetsOf(1..n) = SUBSET (1..n)
  BY <1>1, FS_FiniteSubsetsOfFinite
<1>3. IsWellFoundedOn(StrictSubsetOrdering(1..n), SUBSET (1..n))
  BY <1>2, FS_StrictSubsetOrderingWellFounded
<1>4. T \subseteq SUBSET (1..n) /\ T # {}
  OBVIOUS
<1>5. PICK X \in T : \A Y \in T : ~ (<<Y, X>> \in StrictSubsetOrdering(1..n))
  <2> HIDE DEF T
  <2> QED BY <1>3, <1>4, WFMin
<1>6. PICK k \in S : X = S \cap (1..k)
  OBVIOUS
<1>7. ASSUME NEW j \in S PROVE k <= j
  <2> DEFINE Y == S \cap (1..j)
  <2>1. SUFFICES ASSUME j < k PROVE FALSE
    OBVIOUS
  <2>2. Y \in T /\ Y \subseteq X /\ k \in X /\ k \notin Y
    BY <1>6, <2>1
  <2>3. <<Y, X>> \in StrictSubsetOrdering(1..n)
    BY <1>4, <2>2 DEF StrictSubsetOrdering
  <2> QED BY <1>5, <2>2, <2>3
<1> QED BY <1>7

\* Induction up to n, for the numbers in S.
LEMMA Induction ==
  ASSUME NEW n \in Nat, NEW S, 0 \in S, \A i \in 1..n : i - 1 \in S => i \in S
  PROVE  n \in S
<1> SUFFICES ASSUME (1..n) \ S # {} PROVE FALSE
  OBVIOUS
<1>1. PICK k \in (1..n) \ S : \A j \in (1..n) \ S : k <= j
  BY LeastExists
<1> QED BY <1>1

=============================================================================
