--------------------------- MODULE MCVerification ---------------------------
(* Finite instances of Verification. *)
EXTENDS Verification, TLC

CONSTANTS p1, p2, h1, h2, b1, b2, c1

\* Every payment on one chain: what another chain settled never matters.
OneChain == [p \in Payment |-> c1]

\* Payments of one chain are interchangeable, and so are hashes and blocks.
Symmetry == Permutations(Payment) \union Permutations(Hash) \union Permutations(Block)
=============================================================================
