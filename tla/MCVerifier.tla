----------------------------- MODULE MCVerifier -----------------------------
(* Finite instances of Verifier. *)
EXTENDS Verifier, TLC

CONSTANTS payer, receiver, s1, s2

Symmetry == Permutations(Salt) \union Permutations(Account)
=============================================================================
