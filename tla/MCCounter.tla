------------------------------- MODULE MCCounter -------------------------------
(* Small instances of Counter. *)
EXTENDS Counter, TLC

CONSTANTS c1, c2, c3

Swaps == Permutations(Clients)
=============================================================================
