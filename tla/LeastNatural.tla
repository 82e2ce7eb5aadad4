---------------------------- MODULE LeastNatural ----------------------------
(***************************************************************************)
(* Induction for the proofs of this project.  The induction rules of the   *)
(* library take an operator as a parameter; this one takes a set: what     *)
(* holds of every natural number has no least exception.                   *)
(***************************************************************************)
EXTENDS Integers, WellFoundedInduction, TLAPS

\* A non-empty set of naturals has a least element: the loop over a list (the
\* documents of an ingestion, the steps of a backoff schedule) has a first one
\* of every kind it has.
LEMMA Least ==
    ASSUME NEW T \in SUBSET Nat, T # {}
    PROVE  \E x \in T : \A y \in T : x <= y
<1> DEFINE R == OpToRel(<, Nat)
<1>1. IsWellFoundedOn(R, Nat)
    BY NatLessThanWellFounded, Zenon
<1>2. \A x, y \in Nat : y < x => <<y, x>> \in R
    BY DEF OpToRel
<1> HIDE DEF R
<1>3. PICK x \in T : \A y \in T : ~(<<y, x>> \in R)
    BY <1>1, WFMin
<1>4. \A y \in T : ~(y < x)
    BY <1>2, <1>3
<1>5. \A y \in T : y \in Nat /\ x \in Nat
    OBVIOUS
<1>6. \A y \in T : x <= y
    BY <1>4, <1>5
<1> QED
    BY <1>6

\* A set of naturals that has 0, and with every number the next, has them all.
LEMMA Induction ==
    ASSUME NEW G \in SUBSET Nat, 0 \in G, \A n \in G : n + 1 \in G
    PROVE  G = Nat
<1> SUFFICES ASSUME Nat \ G # {} PROVE FALSE
    OBVIOUS
<1>1. PICK x \in Nat \ G : \A y \in Nat \ G : x <= y
    BY Least
<1>2. x # 0 /\ x - 1 \in Nat /\ ~(x <= x - 1)
    BY <1>1
<1>3. x - 1 \in G
    BY <1>1, <1>2
<1>4. (x - 1) + 1 \in G
    BY <1>3
<1>5. (x - 1) + 1 = x
    BY <1>1
<1> QED BY <1>1, <1>4, <1>5
===============================================================================
