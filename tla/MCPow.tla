------------------------------- MODULE MCPow -------------------------------
(***************************************************************************)
(* Two parents, two epochs, a cache of one dataset, and an arbitrary but   *)
(* fixed mixing function.                                                  *)
(***************************************************************************)
EXTENDS Pow

CONSTANTS w1, w2, v1

MCMix(d, pre, nonce) ==
    (5 * d[1] + 3 * d[2] + 7 * nonce + 2 * pre.number + pre.difficulty + pre.parent) % (MaxU64 + 1)
=============================================================================
