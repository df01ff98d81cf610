------------------------------- MODULE Induction -------------------------------
(***************************************************************************)
(* Induction for the proofs about data.  The library states it for an      *)
(* operator parameter; here it is stated for a set, in the form that the   *)
(* proofs about sequences use.                                             *)
(***************************************************************************)
EXTENDS Naturals, WellFoundedInduction, TLAPS

LEMMA NatOrder == IsWellFoundedOn({ss \in Nat \X Nat : ss[1] < ss[2]}, Nat)
  BY NatLessThanWellFounded DEF OpToRel

\* A set of naturals that is not empty has a least element.
LEMMA LeastNat ==
    ASSUME NEW T, T \subseteq Nat, T # {}
    PROVE  \E m \in T : \A k \in T : m <= k
  <1>. DEFINE R == {ss \in Nat \X Nat : ss[1] < ss[2]}
  <1>1. IsWellFoundedOn(R, Nat)
    BY NatOrder
  <1>2. \A x, y \in Nat : <<x, y>> \in R <=> x < y
    OBVIOUS
  <1>. HIDE DEF R
  <1>3. PICK m \in T : \A k \in T : ~(<<k, m>> \in R)
    BY <1>1, WFMin
  <1>4. \A k \in T : ~(k < m)
    BY <1>2, <1>3
  <1>. QED BY <1>4

\* A set that has 0, and n + 1 with n, has every natural.
LEMMA NatSet ==
    ASSUME NEW S, 0 \in S, \A n \in Nat : n \in S => n + 1 \in S
    PROVE  \A n \in Nat : n \in S
  <1>. SUFFICES ASSUME NEW n \in Nat, n \notin S PROVE FALSE
    OBVIOUS
  <1>. DEFINE T == {k \in Nat : k \notin S}
  <1>1. PICK m \in T : \A k \in T : m <= k
    <2>1. n \in T
      OBVIOUS
    <2>. HIDE DEF T
    <2>2. T \subseteq Nat /\ T # {}
      BY <2>1 DEF T
    <2>. QED BY <2>2, LeastNat
  <1>2. m \in Nat /\ m # 0 /\ m - 1 \in Nat /\ m - 1 \notin T
    BY <1>1
  <1>3. m - 1 \in S /\ (m - 1) + 1 = m
    BY <1>2
  <1>. QED BY <1>1, <1>2, <1>3

\* What is passed on from each number to the next holds up to n.
LEMMA NatUpTo ==
    ASSUME NEW n \in Nat, NEW S, 0 \in S,
           \A i \in Nat : i < n /\ i \in S => i + 1 \in S
    PROVE  \A i \in 0 .. n : i \in S
  <1>. DEFINE U == {i \in Nat : i <= n => i \in S}
  <1>1. 0 \in U
    OBVIOUS
  <1>2. \A i \in Nat : i \in U => i + 1 \in U
    OBVIOUS
  <1>. HIDE DEF U
  <1>3. \A i \in Nat : i \in U
    BY <1>1, <1>2, NatSet
  <1>. QED BY <1>3 DEF U
=============================================================================
