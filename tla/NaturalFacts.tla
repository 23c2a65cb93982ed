----------------------------- MODULE NaturalFacts -----------------------------
(***************************************************************************)
(* Facts about natural numbers that the proofs of several components rest  *)
(* on.  Least and greatest members let a proof take a minimal              *)
(* counterexample where it would otherwise need induction.                 *)
(***************************************************************************)
EXTENDS Integers, FiniteSetTheorems, TLAPS

LEMMA LeastNatural ==
    ASSUME NEW S \in SUBSET Nat, S # {}
    PROVE  \E x \in S : \A y \in S : x <= y
<1> DEFINE R == OpToRel(<, Nat)
<1>1. IsWellFoundedOn(R, Nat)  BY NatLessThanWellFounded, Zenon
<1>2. \A a, b \in Nat : a < b => <<a, b>> \in R  BY DEF OpToRel
<1> HIDE DEF R
<1>3. PICK x \in S : \A y \in S : ~(<<y, x>> \in R)  BY <1>1, WFMin
<1>4. \A y \in S : ~(y < x)  BY <1>2, <1>3
<1> QED  BY <1>4

LEMMA GreatestNatural ==
    ASSUME NEW S \in SUBSET Nat, S # {}, NEW bound \in Nat, \A x \in S : x <= bound
    PROVE  \E x \in S : \A y \in S : y <= x
<1> DEFINE Above == {n \in Nat : \A y \in S : y <= n}
<1>1. bound \in Above  OBVIOUS
<1>2. PICK m \in Above : \A n \in Above : m <= n  BY <1>1, LeastNatural
<1>3. PICK z : z \in S  OBVIOUS
<1>4. m \in S
  <2> SUFFICES ASSUME m \notin S  PROVE FALSE
    OBVIOUS
  <2>1. \A y \in S : y < m /\ y <= m - 1  BY <1>2
  <2>2. m - 1 \in Nat  BY <1>2, <1>3, <2>1
  <2>3. m - 1 \in Above  BY <2>1, <2>2
  <2> QED  BY <1>2, <2>3
<1> QED  BY <1>2, <1>4

(***************************************************************************)
(* Division rounds down, by less than the divisor.                         *)
(***************************************************************************)
LEMMA DivisionBounds ==
    ASSUME NEW a \in Nat, NEW b \in Nat \ {0}
    PROVE  /\ a \div b \in Nat
           /\ (a \div b) * b <= a
           /\ a < (a \div b) * b + b
OBVIOUS
===============================================================================
