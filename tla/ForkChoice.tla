----------------------------- MODULE ForkChoice -----------------------------
(***************************************************************************)
(* What chain selection promises, without lanes, orphans, indexes or       *)
(* storage formats: a node learns valid blocks one at a time, each after   *)
(* its parent, and its tip is the end of the chain of most work, the first *)
(* one learned among equals.  A write that fails costs one such move of    *)
(* the tip at most.                                                        *)
(***************************************************************************)
EXTENDS Naturals

CONSTANTS Block, Genesis, Parent, TotalWork

VARIABLES known, tip, failed

Init == known = {Genesis} /\ tip = Genesis /\ failed = 0

Learn(b) ==
    /\ b \notin known /\ Parent[b] \in known
    /\ known' = known \cup {b}
    /\ tip' = IF TotalWork[b] > TotalWork[tip] THEN b ELSE tip
    /\ failed' \in {failed, failed + 1}

\* A heavier block is learned, but the switch to it could not be stored.
Shelve(b) ==
    /\ b \notin known /\ Parent[b] \in known
    /\ TotalWork[b] > TotalWork[tip]
    /\ known' = known \cup {b}
    /\ failed' = failed + 1
    /\ UNCHANGED tip

\* A block that could not be stored at all is not learned.
Lose == failed' = failed + 1 /\ UNCHANGED <<known, tip>>

Next == Lose \/ \E b \in Block \ {Genesis} : Learn(b) \/ Shelve(b)

Spec == Init /\ [][Next]_<<known, tip, failed>>
=============================================================================
