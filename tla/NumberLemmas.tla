---------------------------- MODULE NumberLemmas ----------------------------
(***************************************************************************)
(* Facts about numbers that the proofs of several components need.         *)
(***************************************************************************)
EXTENDS Integers, FiniteSetsExt, FiniteSetTheorems, WellFoundedInduction, TLAPS

NatLess == {p \in Nat \X Nat : p[1] < p[2]}

LEMMA NatLessWellFounded == IsWellFoundedOn(NatLess, Nat)
<1>1. OpToRel(<, Nat) = NatLess
  BY DEF OpToRel, NatLess
<1> QED
  BY <1>1, NatLessThanWellFounded

\* A non-empty set of numbers has a least element, and Min returns it.
LEMMA MinIsMember ==
  ASSUME NEW S \in SUBSET Nat, S # {}
  PROVE  Min(S) \in S /\ \A y \in S : Min(S) <= y
<1>1. PICK x \in S : \A y \in S : ~ (<<y, x>> \in NatLess)
  BY NatLessWellFounded, WFMin
<1>2. ASSUME NEW y \in S PROVE x <= y
  <2>1. ~ (<<y, x>> \in NatLess) /\ x \in Nat /\ y \in Nat
    BY <1>1
  <2>2. <<y, x>> \in Nat \X Nat /\ <<y, x>>[1] = y /\ <<y, x>>[2] = x
    BY <2>1
  <2>3. ~ (y < x)
    BY <2>1, <2>2, Zenon DEF NatLess
  <2> QED
    BY <2>1, <2>3
<1> QED
  BY <1>2 DEF Min

\* A finite, non-empty set of numbers has a greatest element, and Max returns it.
LEMMA MaxIsMember ==
  ASSUME NEW S \in SUBSET Nat, S # {}, IsFiniteSet(S)
  PROVE  Max(S) \in S /\ \A y \in S : y <= Max(S)
<1> DEFINE Above(x) == {y \in S : x < y}
           Cuts == {Above(x) : x \in S}
<1>1. IsWellFoundedOn(StrictSubsetOrdering(S), SUBSET S)
  BY FS_StrictSubsetOrderingWellFounded, FS_FiniteSubsetsOfFinite
<1>2. Cuts \subseteq SUBSET S /\ Cuts # {}
  OBVIOUS
<1>3. PICK c \in Cuts : \A d \in Cuts : ~ (<<d, c>> \in StrictSubsetOrdering(S))
  <2> HIDE DEF Cuts
  <2> QED
    BY <1>1, <1>2, WFMin
<1>4. PICK x \in S : c = Above(x)
  BY <1>3
<1>5. ASSUME NEW y \in S PROVE y <= x
  <2>1. x \in Nat /\ y \in Nat
    OBVIOUS
  <2>2. SUFFICES ASSUME x < y PROVE FALSE
    BY <2>1
  <2>3. ASSUME NEW z \in S, y < z PROVE x < z
    <3>1. z \in Nat
      OBVIOUS
    <3> QED
      BY <2>1, <2>2, <2>3, <3>1
  <2>4. y \in Above(x) /\ y \notin Above(y)
    BY <2>1, <2>2
  <2>5. Above(y) \in Cuts /\ Above(x) \in SUBSET S /\ Above(y) \in SUBSET S
    OBVIOUS
  <2>6. Above(y) \subseteq Above(x)
    BY <2>3
  <2> HIDE DEF Above, Cuts
  <2>7. <<Above(y), Above(x)>> \in StrictSubsetOrdering(S)
    BY <2>4, <2>5, <2>6 DEF StrictSubsetOrdering
  <2> QED
    BY <1>3, <1>4, <2>5, <2>7
<1>6. \A y \in S : x >= y
  BY <1>5
<1>7. Max(S) \in S /\ \A y \in S : Max(S) >= y
  BY <1>6 DEF Max
<1> QED
  BY <1>7
=============================================================================
