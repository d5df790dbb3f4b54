-------------------------- MODULE MCMerchantEvents --------------------------
(* Finite instances of MerchantEvents. *)
EXTENDS MerchantEvents, TLC

CONSTANTS c1, c2, m1, m2

\* A dashboard of each merchant.
OneEach == (c1 :> m1) @@ (c2 :> m2)

\* One dashboard of m1.
Alone == c1 :> m1
=============================================================================
