----------------------------- MODULE MCRestart -----------------------------
(***************************************************************************)
(* Restart on the block trees of MCChain.                                  *)
(***************************************************************************)
EXTENDS Restart, MCChain

=============================================================================
