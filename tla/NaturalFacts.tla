------------------------------ MODULE NaturalFacts ------------------------------
(***************************************************************************)
(* Facts about sets of natural numbers on which the proofs about mount     *)
(* tables (MountsProofs) and about command lines (LaunchProofs) rest: a    *)
(* set of them that is not empty has a least element, and a greatest one   *)
(* if it is bounded.  They stand in for induction, whose theorems in the   *)
(* library take an operator as a parameter.                                *)
(***************************************************************************)
EXTENDS FiniteSetTheorems, TLAPS

\* A set of natural numbers that is not empty has a least element: the sets
\* 0..x, ordered by inclusion, have a minimal one.
LEMMA LeastNatural ==
  ASSUME NEW T \in SUBSET Nat, T # {}
  PROVE  \E x \in T : \A y \in T : x <= y
<1> DEFINE Up == {0..x : x \in T}
           R == StrictSubsetOrdering(Nat)
<1>1. IsWellFoundedOn(R, FiniteSubsetsOf(Nat))
  BY FS_StrictSubsetOrderingWellFounded
<1>2. Up \subseteq FiniteSubsetsOf(Nat)
  <2>1. ASSUME NEW x \in T PROVE IsFiniteSet(0..x)
    BY FS_Interval
  <2> QED BY <2>1 DEF FiniteSubsetsOf
<1>3. Up # {}
  OBVIOUS
<1> HIDE DEF R
<1> HIDE DEF Up
<1>4. \E u \in Up : \A v \in Up : ~ (<<v, u>> \in R)
  BY <1>1, <1>2, <1>3, WFMin
<1>5. PICK x \in T : \A v \in Up : ~ (<<v, 0..x>> \in R)
  BY <1>4 DEF Up
<1>6. ASSUME NEW y \in T PROVE x <= y
  <2>1. ~(<<0..y, 0..x>> \in R)
    BY <1>5 DEF Up
  <2>2. x \in Nat /\ y \in Nat
    OBVIOUS
  <2>3. ASSUME y < x PROVE <<0..y, 0..x>> \in R
    <3>1. 0..y \subseteq 0..x /\ 0..x \subseteq Nat
      BY <2>2, <2>3
    <3>2. x \in 0..x /\ x \notin 0..y
      BY <2>2, <2>3
    <3> QED BY <3>1, <3>2 DEF R, StrictSubsetOrdering
  <2> QED BY <2>1, <2>2, <2>3
<1> QED BY <1>6

\* A bounded one has a greatest element: n - x is least where x is greatest.
LEMMA GreatestNatural ==
  ASSUME NEW n \in Nat, NEW T \in SUBSET (0..n), T # {}
  PROVE  \E x \in T : \A y \in T : y <= x
<1> DEFINE D == {n - x : x \in T}
<1>1. D \in SUBSET Nat /\ D # {}
  <2>1. ASSUME NEW x \in T PROVE n - x \in Nat
    <3>1. x \in 0..n
      OBVIOUS
    <3> QED BY <3>1
  <2> QED BY <2>1
<1> HIDE DEF D
<1>2. PICK d \in D : \A e \in D : d <= e
  BY <1>1, LeastNatural
<1>3. PICK x \in T : d = n - x
  BY DEF D
<1>4. ASSUME NEW y \in T PROVE y <= x
  <2>1. n - y \in D
    BY DEF D
  <2>2. x \in 0..n /\ y \in 0..n
    OBVIOUS
  <2> QED BY <1>2, <1>3, <2>1, <2>2
<1> QED BY <1>4

\* Induction, with the set of the numbers for which something holds.
LEMMA NaturalInduction ==
  ASSUME NEW T, 0 \in T, \A n \in Nat : n \in T => n + 1 \in T
  PROVE  Nat \subseteq T
<1> DEFINE Rest == Nat \ T
<1> SUFFICES ASSUME Rest # {} PROVE FALSE
  OBVIOUS
<1>1. PICK x \in Rest : \A y \in Rest : x <= y
  BY LeastNatural
<1>2. x \in Nat /\ x # 0
  OBVIOUS
<1>3. x - 1 \in Nat /\ x - 1 \in T
  <2>1. x - 1 \in Nat /\ ~(x <= x - 1)
    BY <1>2
  <2> QED BY <1>1, <2>1
<1>4. x \in T
  <2>1. (x - 1) + 1 = x
    BY <1>2
  <2> QED BY <1>3, <2>1
<1> QED BY <1>4
================================================================================
