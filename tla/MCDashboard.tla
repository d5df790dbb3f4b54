---------------------------- MODULE MCDashboard -----------------------------
(* Finite instances of Dashboard. *)
EXTENDS Dashboard

CONSTANTS p1, p2

ListOrder == <<p1, p2>>
=============================================================================
