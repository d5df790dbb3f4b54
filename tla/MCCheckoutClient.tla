-------------------------- MODULE MCCheckoutClient --------------------------
(* Finite instances of CheckoutClient. *)
EXTENDS CheckoutClient, TLC

CONSTANTS t1, t2, h1, h2, f1

\* Tabs and transfers are interchangeable.
Symmetry == Permutations(Tab) \union Permutations(Hash)
=============================================================================
