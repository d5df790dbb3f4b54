----------------------------- MODULE MCCheckout -----------------------------
(* Finite instances of Checkout. *)
EXTENDS Checkout, TLC

CONSTANTS p1, p2, a1, a2, t1, r1, r2

SameTerms == [p \in Payment |-> t1]

Symmetry == Permutations(Payment) \union Permutations(Payer)
              \union Permutations(Request)
=============================================================================
