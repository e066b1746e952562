------------------------------- MODULE Minimal -------------------------------
(***************************************************************************)
(* Minimal elements, from which the proofs of the components take their     *)
(* inductions: what holds for all natural numbers or finite sets is proved  *)
(* of a least counterexample.                                               *)
(***************************************************************************)
EXTENDS Integers, FiniteSets, TLAPS, WellFoundedInduction, FiniteSetTheorems

\* A set of natural numbers has a least element.
LEMMA LeastNatural ==
  ASSUME NEW T \in SUBSET Nat, T # {}
  PROVE  \E n \in T : \A m \in T : n <= m
<1> DEFINE R == {ss \in Nat \X Nat : ss[1] < ss[2]}
<1>1. IsWellFoundedOn(R, Nat)
  BY NatLessThanWellFounded DEF OpToRel
<1>2. \A m, n \in Nat : <<m, n>> \in R <=> m < n
  OBVIOUS
<1> HIDE DEF R
<1>3. \E n \in T : \A m \in T : ~(<<m, n>> \in R)
  BY <1>1, WFMin
<1>4. \A m, n \in T : ~(<<m, n>> \in R) => n <= m
  BY <1>2
<1> QED
  BY <1>3, <1>4

\* A strict order: no element before itself.
Orders(R, S) ==
  /\ \A x \in S : <<x, x>> \notin R
  /\ \A x, y, z \in S : <<x, y>> \in R /\ <<y, z>> \in R => <<x, z>> \in R

\* A finite set has an element with none before it.
LEMMA MinimalElement ==
  ASSUME NEW S, IsFiniteSet(S), S # {}, NEW R, Orders(R, S)
  PROVE  \E x \in S : \A y \in S : <<y, x>> \notin R
<1> DEFINE HasMinimal(X) == \E x \in X : \A y \in X : <<y, x>> \notin R
           T == {Cardinality(X) : X \in {Y \in SUBSET S : Y # {} /\ ~HasMinimal(Y)}}
<1>1. ASSUME NEW X \in SUBSET S
      PROVE  IsFiniteSet(X) /\ Cardinality(X) \in Nat
  BY FS_Subset, FS_CardinalityType
<1>2. T \in SUBSET Nat
  BY <1>1
<1>3. ASSUME T # {} PROVE FALSE
  <2>1. PICK n \in T : \A m \in T : n <= m
    <3> HIDE DEF T
    <3> QED BY <1>2, <1>3, LeastNatural
  <2>2. PICK X \in SUBSET S : X # {} /\ ~HasMinimal(X) /\ n = Cardinality(X)
    OBVIOUS
  <2>3. PICK x \in X : TRUE
    BY <2>2
  <2> DEFINE Rest == X \ {x}
  <2>4. Rest \in SUBSET S /\ Cardinality(Rest) = n - 1 /\ n \in Nat
    BY <1>1, <2>2, <2>3, FS_RemoveElement
  <2>5. CASE Rest = {}
    <3>1. \A y \in X : y = x
      BY <2>5
    <3>2. <<x, x>> \notin R
      BY <2>3 DEF Orders
    <3> QED
      BY <2>2, <2>3, <3>1, <3>2
  <2>6. CASE Rest # {}
    <3>1. HasMinimal(Rest)
      <4>1. Cardinality(Rest) \notin T
        BY <2>1, <2>4
      <4> QED
        BY <2>4, <2>6, <4>1
    <3>2. PICK z \in Rest : \A y \in Rest : <<y, z>> \notin R
      BY <3>1
    <3>3. CASE <<x, z>> \in R
      <4>1. ASSUME NEW y \in X, <<y, x>> \in R PROVE FALSE
        <5>1. y # x
          BY <2>3, <4>1 DEF Orders
        <5>2. <<y, z>> \in R
          BY <2>3, <3>2, <3>3, <4>1 DEF Orders
        <5> QED
          BY <3>2, <4>1, <5>1, <5>2
      <4> QED
        BY <2>2, <2>3, <4>1
    <3>4. CASE <<x, z>> \notin R
      <4>1. \A y \in X : <<y, z>> \notin R
        BY <3>2, <3>4
      <4> QED
        BY <2>2, <3>2, <4>1
    <3> QED
      BY <3>3, <3>4
  <2> QED
    BY <2>5, <2>6
<1>4. HasMinimal(S)
  <2>1. Cardinality(S) \notin T
    BY <1>3
  <2> QED
    BY <2>1
<1> QED
  BY <1>4
=============================================================================
