---------------------------- MODULE MinTheorems ----------------------------
(***************************************************************************)
(* What the loops that scan an array from 0 and stop at the first hit      *)
(* return, and induction on how far a loop has come.  Min of FiniteSetsExt *)
(* is a CHOOSE; that it is the least element rests on the                  *)
(* well-foundedness of the natural numbers.                                *)
(***************************************************************************)
EXTENDS Integers, FiniteSetsExt, WellFoundedInduction, TLAPS

\* A scan that keeps its smallest hit returns one: Min of a nonempty set of
\* naturals is its least element.
LEMMA MinIsLeast ==
  ASSUME NEW S \in SUBSET Nat, S # {}
  PROVE  Min(S) \in S /\ \A y \in S : Min(S) <= y
<1> DEFINE R == {p \in Nat \X Nat : p[1] < p[2]}
<1>1. IsWellFoundedOn(R, Nat)
  BY NatLessThanWellFounded, Zenon DEF OpToRel
<1>2. PICK x \in S : \A y \in S : ~ (<<y, x>> \in R)
  <2> HIDE DEF R
  <2> QED BY <1>1, WFMin
<1>3. \A p, q \in Nat : p < q => <<p, q>> \in R
  OBVIOUS
<1> HIDE DEF R
<1>4. \A y \in S : ~ (y < x)
  BY <1>2, <1>3
<1>5. \A y \in S : x <= y
  BY <1>4
<1> QED BY <1>5 DEF Min

\* Induction on the natural numbers, for a set of them instead of a predicate: a
\* set with 0 and the successors of its members is all of Nat.
LEMMA NatBySuccessor ==
  ASSUME NEW T \in SUBSET Nat, 0 \in T, \A n \in T : n + 1 \in T
  PROVE  T = Nat
<1> SUFFICES ASSUME Nat \ T # {} PROVE FALSE
  OBVIOUS
<1> DEFINE m == Min(Nat \ T)
<1>1. m \in Nat \ T /\ \A y \in Nat \ T : m <= y
  BY MinIsLeast
<1> HIDE DEF m
<1>2. m # 0 /\ m - 1 \in Nat
  BY <1>1
<1>3. m - 1 \in T
  BY <1>1, <1>2
<1> QED BY <1>1, <1>2, <1>3
=============================================================================
