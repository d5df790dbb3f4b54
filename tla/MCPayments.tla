----------------------------- MODULE MCPayments -----------------------------
(* Finite instances of CreationForm, and of Payments with it. *)
EXTENDS CreationForm, TLC

CONSTANTS k1, k2, f1, f2, f3, q1, q2

Symmetry == Permutations(Key) \union Permutations(Fingerprint \ Malformed)
              \union Permutations(Request)
=============================================================================
