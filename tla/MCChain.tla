------------------------------ MODULE MCChain ------------------------------
(***************************************************************************)
(* Block trees for ChainState, all cut out of one tree by the choice of    *)
(* Block: two branches from genesis that overtake each other, a fork       *)
(* inside the second one, and a block beside them for a bad one.           *)
(***************************************************************************)
EXTENDS ChainState

CONSTANTS g, a1, a2, a3, b1, b2, b3, c2, x1, none, t1, t2

ParentOf ==
    a1 :> g @@ a2 :> a1 @@ a3 :> a2 @@
    b1 :> g @@ b2 :> b1 @@ b3 :> b2 @@ c2 :> b1 @@ x1 :> g

RECURSIVE Path(_)
Path(b) == IF b = g THEN <<g>> ELSE Append(Path(ParentOf[b]), b)

MCParent == [b \in Block \ {g} |-> ParentOf[b]]
MCDepth == [b \in Block |-> Len(Path(b)) - 1]
MCLineage == [b \in Block |-> [i \in 0..MCDepth[b] |-> Path(b)[i + 1]]]

\* Every difficulty at the floor, so that branches of one length tie; or heavier
\* and heavier blocks on the two branches in turn, so that the tip swings between
\* them and a shorter chain wins.
FlatWork == [b \in Block |-> 1]
HeavyWork == [b \in Block |-> CASE b \in {b1, a2} -> 2 [] b = b2 -> 3 [] OTHER -> 1]
WorkOn(weight, b) ==
    LET p == Path(b) IN FoldLeft(LAMBDA sum, x : sum + weight[x], 0, p)
FlatTotal == [b \in Block |-> WorkOn(FlatWork, b)]
HeavyTotal == [b \in Block |-> WorkOn(HeavyWork, b)]

\* t1 is mined on both branches, t2 on the first one only.
MCTxs == [b \in Block |-> CASE b = a1 -> {t1, t2} [] b = b2 -> {t1} [] OTHER -> {}]

\* a2 is ahead of the clock at first.
MCReadyAt == [b \in Block |-> IF b = a2 THEN 1 ELSE 0]

\* A header that numbers its block two above its parent.
SkippingNumber == [MCDepth EXCEPT ![a1] = 2]
=============================================================================
