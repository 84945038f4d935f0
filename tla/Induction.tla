----------------------------- MODULE Induction -----------------------------
(***************************************************************************)
(* Induction over the natural numbers for a set of them.  A predicate is   *)
(* given as the set of the numbers it holds of, so that the recursive      *)
(* functions of the models can be reasoned about one at a time.            *)
(***************************************************************************)
EXTENDS Integers, WellFoundedInduction, TLAPS

\* A set of natural numbers that is not empty has a least element.
LEMMA LeastNumber ==
    ASSUME NEW T, T \subseteq Nat, T # {}
    PROVE  \E x \in T : \A y \in T : x <= y
  <1> DEFINE R == OpToRel(<, Nat)
  <1>1. IsWellFoundedOn(R, Nat)
    BY NatLessThanWellFounded
  <1>2. \A a, b \in Nat : a < b => <<a, b>> \in R
    BY DEF OpToRel
  <1> HIDE DEF R
  <1>3. PICK x \in T : \A y \in T : <<y, x>> \notin R
    BY <1>1, WFMin
  <1>4. ASSUME NEW y \in T PROVE x <= y
    <2>1. x \in Nat /\ y \in Nat
      OBVIOUS
    <2>2. ~(y < x)
      BY <1>2, <1>3, <2>1
    <2> QED BY <2>1, <2>2
  <1> QED BY <1>4

\* What holds of zero and is handed on holds of every natural number.
LEMMA SetInduction ==
    ASSUME NEW T, 0 \in T, \A n \in Nat : n \in T => n + 1 \in T
    PROVE  \A n \in Nat : n \in T
  <1> SUFFICES ASSUME NEW m \in Nat, m \notin T PROVE FALSE
    OBVIOUS
  <1> DEFINE U == Nat \ T
  <1>1. PICK x \in U : \A y \in U : x <= y
    <2>1. m \in U /\ U \subseteq Nat
      OBVIOUS
    <2> HIDE DEF U
    <2> QED BY <2>1, LeastNumber
  <1>2. x # 0 /\ x - 1 \in Nat /\ x - 1 \notin U
    BY <1>1
  <1> QED BY <1>1, <1>2

\* The same up to a last number.
LEMMA BoundedInduction ==
    ASSUME NEW T, NEW last \in Nat, 0 \in T,
           \A n \in 0..(last - 1) : n \in T => n + 1 \in T
    PROVE  \A n \in 0..last : n \in T
  <1> DEFINE U == {n \in Nat : n <= last => n \in T}
  <1>1. 0 \in U
    OBVIOUS
  <1>2. ASSUME NEW n \in Nat, n \in U PROVE n + 1 \in U
    BY <1>2
  <1>3. \A n \in Nat : n \in U
    <2> HIDE DEF U
    <2> QED BY <1>1, <1>2, SetInduction
  <1> QED BY <1>3

=============================================================================
