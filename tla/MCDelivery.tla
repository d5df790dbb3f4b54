----------------------------- MODULE MCDelivery -----------------------------
(* Finite instances of Delivery. *)
EXTENDS Delivery, TLC

CONSTANTS p1, p2, h1, h2, b1, c1, d1, d2

OneChain == [p \in Payment |-> c1]

Symmetry == Permutations(Dispatcher) \union Permutations(Hash)
              \union Permutations(Payment)
=============================================================================
