------------------------------ MODULE MCNode ------------------------------
(***************************************************************************)
(* Two branches from genesis that spend the same account nonce: a1, a2     *)
(* confirm t1 and t2, b1 confirms t3 in t1's place, b2 is empty but heavy  *)
(* enough to win from a2.  The miner can find a2 itself.                   *)
(***************************************************************************)
EXTENDS Node

CONSTANTS g, a1, a2, b1, b2, none, t1, t2, t3, watchdog

ParentOf == a1 :> g @@ a2 :> a1 @@ b1 :> g @@ b2 :> b1

RECURSIVE Path(_)
Path(b) == IF b = g THEN <<g>> ELSE Append(Path(ParentOf[b]), b)

MCParent == [b \in Block \ {g} |-> ParentOf[b]]
MCDepth == [b \in Block |-> Len(Path(b)) - 1]
MCLineage == [b \in Block |-> [i \in 0..MCDepth[b] |-> Path(b)[i + 1]]]
MCWork == [b \in Block |-> IF b = b2 THEN 2 ELSE 1]
MCTotal == [b \in Block |-> MCDepth[b] + MCWork[b]]
MCTxs == [b \in Block |-> CASE b = a1 -> {t1} [] b = a2 -> {t2} [] b = b1 -> {t3}
                            [] OTHER -> {}]
MCReadyAt == [b \in Block |-> 0]

MCSender == [t \in Tx |-> 1]
MCNonce == [t \in Tx |-> IF t = t2 THEN 1 ELSE 0]
MCTip == [t \in Tx |-> IF t = t3 THEN 2 ELSE 1]
=============================================================================
