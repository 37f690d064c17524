--------------------------- MODULE NaturalLemmas ----------------------------
(* What the proofs about time need to know of the natural numbers. *)
EXTENDS Naturals, WellFoundedInduction, TLAPS

\* A non-empty set of naturals has a smallest element.
LEMMA SmallestExists ==
  ASSUME NEW S \in SUBSET Nat, S # {}
  PROVE  \E n \in S : \A k \in S : n <= k
  <1>1. \E n \in S : \A k \in S : <<k, n>> \notin OpToRel(<, Nat)
    BY NatLessThanWellFounded, WFMin
  <1>2. \A k, n \in Nat : <<k, n>> \notin OpToRel(<, Nat) => n <= k
    BY DEF OpToRel
  <1> QED BY <1>1, <1>2
=============================================================================
