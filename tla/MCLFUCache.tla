----------------------------- MODULE MCLFUCache -----------------------------
(* The cache with room for three of four keys. *)
EXTENDS LFUCache

CONSTANTS k1, k2, k3, k4, v1, v2

FourKeys == {k1, k2, k3, k4}
TwoValues == {v1, v2}
=============================================================================
