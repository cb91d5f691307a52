------------------------------ MODULE MCSync ------------------------------
(***************************************************************************)
(* Three branches from genesis: a1, a2 is tall, and a2 is rejected; b1 is  *)
(* short and heavy, and b2 extends it; m1 is what this node mines.         *)
(***************************************************************************)
EXTENDS Sync, TLC

CONSTANTS g, a1, a2, b1, b2, m1, watchdog

MCParent == g :> g @@ a1 :> g @@ a2 :> a1 @@ b1 :> g @@ b2 :> b1 @@ m1 :> g
MCHeight == g :> 0 @@ a1 :> 1 @@ a2 :> 2 @@ b1 :> 1 @@ b2 :> 2 @@ m1 :> 1
MCWork == g :> 1 @@ a1 :> 2 @@ a2 :> 5 @@ b1 :> 4 @@ b2 :> 6 @@ m1 :> 2
MCTips == 1 :> {a1, a2} @@ 2 :> {b1}
MCTipsGrow == 1 :> {b1, b2} @@ 2 :> {}
=============================================================================
