----------------------------- MODULE MCIpBlock -----------------------------
(* Small instances of IpBlock. *)
EXTENDS IpBlock, TLC

CONSTANTS u1, u2, c1, a1, a2, e1, e2, e3
Symmetric == Permutations(Entries)
=============================================================================
