-------------------------- MODULE ChainStateProofs --------------------------
(***************************************************************************)
(* Theorems about ChainState for every block tree and every value of the   *)
(* bounds.  The hypothesis WellNumbered (a header numbers its block one    *)
(* above its parent) is explicit where it is needed: apply_block does not  *)
(* check it.  So is Fresh = FALSE: recorded work is exact only when        *)
(* genesis was loaded back from disk; the first start records none for it, *)
(* and the run ChainFreshWork shows the result.                            *)
(***************************************************************************)
EXTENDS ChainState, TLAPS, NaturalsInduction, WellFoundedInduction, SequenceTheorems,
        FiniteSetTheorems

(***************************************************************************)
(* Every non-empty set of naturals has a least element: induction in a     *)
(* form that needs no predicate parameter.                                 *)
(***************************************************************************)
LEMMA NatMin ==
    ASSUME NEW T, T \subseteq Nat, T # {}
    PROVE  \E m \in T : \A n \in T : m <= n
<1>1. \E m \in T : \A n \in T : ~(<<n, m>> \in OpToRel(<, Nat))
    BY NatLessThanWellFounded, WFMin, Zenon
<1>2. PICK m \in T : \A n \in T : ~(<<n, m>> \in OpToRel(<, Nat))
    BY <1>1
<1>3. ASSUME NEW n \in T PROVE m <= n
    <2>1. ~(<<n, m>> \in OpToRel(<, Nat))
        BY <1>2
    <2>2. ~(n < m)
        BY <2>1, SMT DEF OpToRel
    <2> QED BY <2>2
<1> QED BY <1>2, <1>3

-----------------------------------------------------------------------------
\* Folds.

(***************************************************************************)
(* A loop over 1..n that starts at x0 and applies g[i] in round i has a    *)
(* trace, and only one: what a recursive function needs to be well         *)
(* defined, with the loop body as a function in place of an operator.      *)
(***************************************************************************)
Loop(n, X, x0, g) == n \in Nat /\ x0 \in X /\ g \in [1..n -> [X -> X]]

Trace(f, n, X, x0, g) ==
    f \in [0..n -> X] /\ f[0] = x0 /\ \A i \in 1..n : f[i] = g[i][f[i - 1]]

LEMMA LoopTrace ==
    ASSUME NEW n, NEW X, NEW x0, NEW g, Loop(n, X, x0, g)
    PROVE  \E f : Trace(f, n, X, x0, g)
<1>0. n \in Nat /\ x0 \in X /\ g \in [1..n -> [X -> X]]
    BY DEF Loop
<1> DEFINE Upto(k, f) == f \in [0..k -> X] /\ f[0] = x0 /\ \A i \in 1..k : f[i] = g[i][f[i - 1]]
           Bad == {k \in 0..n : ~\E f : Upto(k, f)}
<1>1. ASSUME Bad # {} PROVE FALSE
    <2>0. Bad \subseteq Nat
        BY <1>0
    <2>1. PICK m \in Bad : \A k \in Bad : m <= k
        <3> HIDE DEF Bad
        <3> QED BY <1>1, <2>0, NatMin
    <2>2. m # 0
        <3>1. Upto(0, [i \in 0..0 |-> x0])
            BY <1>0
        <3> QED BY <3>1
    <2>3. m - 1 \in 0..n /\ m - 1 \notin Bad /\ m \in 1..n
        BY <1>0, <2>1, <2>2
    <2>4. PICK f : Upto(m - 1, f)
        BY <2>3
    <2> DEFINE h == [i \in 0..m |-> IF i = m THEN g[m][f[m - 1]] ELSE f[i]]
    <2>5. Upto(m, h)
        <3>1. g[m][f[m - 1]] \in X
            BY <1>0, <2>3, <2>4
        <3>2. h \in [0..m -> X]
            BY <1>0, <2>3, <2>4, <3>1
        <3>3. h[0] = x0
            BY <1>0, <2>3, <2>4
        <3>4. ASSUME NEW i \in 1..m PROVE h[i] = g[i][h[i - 1]]
            BY <1>0, <2>3, <2>4
        <3> HIDE DEF h
        <3> QED BY <3>2, <3>3, <3>4
    <2> QED BY <2>5, <2>1
<1>2. \E f : Upto(n, f)
    <2>1. n \notin Bad
        <3> HIDE DEF Bad
        <3> QED BY <1>1
    <2>2. n \in 0..n
        BY <1>0
    <2> HIDE DEF Upto
    <2> QED BY <1>0, <2>1, <2>2
<1> QED BY <1>2 DEF Trace

LEMMA LoopUnique ==
    ASSUME NEW n \in Nat, NEW f, NEW h, h[0] = f[0],
           \A i \in 1..n : h[i - 1] = f[i - 1] => h[i] = f[i]
    PROVE  \A i \in 0..n : h[i] = f[i]
<1> DEFINE Bad == {k \in 0..n : h[k] # f[k]}
<1>1. ASSUME Bad # {} PROVE FALSE
    <2>0. Bad \subseteq Nat
        OBVIOUS
    <2>1. PICK m \in Bad : \A k \in Bad : m <= k
        <3> HIDE DEF Bad
        <3> QED BY <1>1, <2>0, NatMin
    <2>2. m # 0
        BY <2>1
    <2>3. m \in 1..n /\ m - 1 \in 0..n /\ m - 1 \notin Bad
        BY <2>1, <2>2
    <2> QED BY <2>1, <2>3
<1> QED BY <1>1

-----------------------------------------------------------------------------
\* Block trees.

(***************************************************************************)
(* The assumptions on the tree, instantiated at one block.                 *)
(***************************************************************************)
LEMMA DepthFacts ==
    ASSUME NEW b \in Block
    PROVE  /\ Depth[b] \in Nat
           /\ \A i \in 0..Depth[b] : Lineage[b][i] \in Block
           /\ Lineage[b][Depth[b]] = b
           /\ Number[b] \in Nat /\ Number[b] \in Heights
           /\ Work[b] \in Nat /\ Work[b] >= 1 /\ TotalWork[b] \in Nat
<1>1. /\ Depth[b] \in Nat
      /\ \A i \in 0..Depth[b] : Lineage[b][i] \in Block
      /\ Lineage[b][Depth[b]] = b
    BY LineageAssumption DEF LineageAssumption
<1>2. Number[b] \in Nat /\ Work[b] \in Nat /\ Work[b] >= 1
    BY BlockAssumption DEF BlockAssumption
<1>3. Number[b] \in Heights
    BY DEF Heights
<1>4. TotalWork[b] \in Nat
    BY TotalWorkAssumption DEF TotalWorkAssumption
<1> QED
    BY <1>1, <1>2, <1>3, <1>4

(***************************************************************************)
(* A block above genesis is one deeper than its parent, shares its lineage *)
(* and adds its own work: the assumptions on the block tree, at one block. *)
(***************************************************************************)
LEMMA ParentFacts ==
    ASSUME NEW b \in Block, b # Genesis
    PROVE  /\ Parent[b] \in Block
           /\ Depth[Parent[b]] \in Nat
           /\ Depth[b] = Depth[Parent[b]] + 1
           /\ \A i \in 0..Depth[Parent[b]] : Lineage[b][i] = Lineage[Parent[b]][i]
           /\ TotalWork[b] = TotalWork[Parent[b]] + Work[b]
BY LineageAssumption, BlockAssumption, TotalWorkAssumption
   DEF LineageAssumption, BlockAssumption, TotalWorkAssumption

(***************************************************************************)
(* Genesis is a block of depth and number 0, and NoBlock is none.          *)
(***************************************************************************)
LEMMA GenesisFacts ==
    Genesis \in Block /\ Depth[Genesis] = 0 /\ NoBlock \notin Block /\ Number[Genesis] = 0
BY LineageAssumption, BlockAssumption DEF LineageAssumption, BlockAssumption

(***************************************************************************)
(* The ancestor of x at depth i has depth i, and x's lineage up to i is    *)
(* that ancestor's own.                                                    *)
(***************************************************************************)
LEMMA LineagePrefix ==
    \A x \in Block : \A i \in 0..Depth[x] :
        /\ Lineage[x][i] \in Block
        /\ Depth[Lineage[x][i]] = i
        /\ \A k \in 0..i : Lineage[Lineage[x][i]][k] = Lineage[x][k]
<1> DEFINE Fine(x, i) == /\ Depth[Lineage[x][i]] = i
                         /\ \A k \in 0..i : Lineage[Lineage[x][i]][k] = Lineage[x][k]
           Bad(x) == \E i \in 0..Depth[x] : ~Fine(x, i)
           T == {Depth[x] : x \in {y \in Block : Bad(y)}}
<1>1. ASSUME T # {} PROVE FALSE
    <2>0. T \subseteq Nat
        BY DepthFacts
    <2>1. PICK n \in T : \A m \in T : n <= m
        BY <1>1, <2>0, NatMin
    <2>2. PICK x \in Block : Depth[x] = n /\ Bad(x)
        BY <2>1
    <2>3. PICK i \in 0..Depth[x] : ~Fine(x, i)
        BY <2>2
    <2>4. Depth[x] \in Nat /\ Lineage[x][Depth[x]] = x
        BY DepthFacts
    <2>5. i # Depth[x]
        BY <2>3, <2>4
    <2>6. x # Genesis
        BY <2>3, <2>4, <2>5, GenesisFacts
    <2>7. /\ Parent[x] \in Block /\ Depth[Parent[x]] \in Nat
          /\ Depth[x] = Depth[Parent[x]] + 1
          /\ \A k \in 0..Depth[Parent[x]] : Lineage[x][k] = Lineage[Parent[x]][k]
        BY <2>6, ParentFacts
    <2>8. i \in 0..Depth[Parent[x]]
        BY <2>5, <2>7
    <2>9. ~Bad(Parent[x])
        <3>1. ASSUME Bad(Parent[x]) PROVE FALSE
            <4>1. Depth[Parent[x]] \in T
                BY <3>1, <2>7
            <4> QED BY <4>1, <2>1, <2>2, <2>7
        <3> QED BY <3>1
    <2>10. Fine(Parent[x], i)
        BY <2>8, <2>9
    <2>11. Lineage[x][i] = Lineage[Parent[x]][i]
        BY <2>7, <2>8
    <2>12. \A k \in 0..i : k \in 0..Depth[Parent[x]] /\ Lineage[x][k] = Lineage[Parent[x]][k]
        BY <2>7, <2>8
    <2> QED BY <2>3, <2>10, <2>11, <2>12
<1>2. ASSUME NEW x \in Block, NEW i \in 0..Depth[x] PROVE Fine(x, i)
    <2>1. ASSUME ~Fine(x, i) PROVE FALSE
        <3>1. Bad(x)
            BY <2>1
        <3>2. Depth[x] \in T
            BY <3>1
        <3> QED BY <3>2, <1>1
    <2> QED BY <2>1
<1> QED BY <1>2, DepthFacts

(***************************************************************************)
(* Consecutive entries of a lineage are parent and child.                  *)
(***************************************************************************)
LEMMA LineageParent ==
    ASSUME NEW x \in Block, NEW i \in 1..Depth[x]
    PROVE  /\ Lineage[x][i] \in Block \ {Genesis}
           /\ Parent[Lineage[x][i]] = Lineage[x][i - 1]
<1>1. Depth[x] \in Nat
    BY DepthFacts
<1>2. PICK y \in Block : y = Lineage[x][i]
    BY DepthFacts
<1>3. Depth[y] = i /\ \A k \in 0..i : Lineage[y][k] = Lineage[x][k]
    BY LineagePrefix, <1>1, <1>2
<1>4. y # Genesis
    BY <1>3, GenesisFacts
<1>5. /\ Parent[y] \in Block /\ Depth[Parent[y]] \in Nat /\ Depth[Parent[y]] = i - 1
      /\ \A k \in 0..Depth[Parent[y]] : Lineage[y][k] = Lineage[Parent[y]][k]
    BY <1>3, <1>4, ParentFacts
<1>6. Lineage[Parent[y]][i - 1] = Parent[y]
    BY <1>5, DepthFacts
<1> QED BY <1>1, <1>2, <1>3, <1>4, <1>5, <1>6

(***************************************************************************)
(* Work grows along a lineage.                                             *)
(***************************************************************************)
LEMMA WorkGrows ==
    \A x \in Block : \A i \in 0..Depth[x] :
        /\ TotalWork[Lineage[x][i]] <= TotalWork[x]
        /\ i < Depth[x] => TotalWork[Lineage[x][i]] < TotalWork[x]
<1> DEFINE Fine(x, i) == /\ TotalWork[Lineage[x][i]] <= TotalWork[x]
                         /\ i < Depth[x] => TotalWork[Lineage[x][i]] < TotalWork[x]
           Bad(x) == \E i \in 0..Depth[x] : ~Fine(x, i)
           T == {Depth[x] : x \in {y \in Block : Bad(y)}}
<1>1. ASSUME T # {} PROVE FALSE
    <2>0. T \subseteq Nat
        BY DepthFacts
    <2>1. PICK n \in T : \A m \in T : n <= m
        BY <1>1, <2>0, NatMin
    <2>2. PICK x \in Block : Depth[x] = n /\ Bad(x)
        BY <2>1
    <2>3. PICK i \in 0..Depth[x] : ~Fine(x, i)
        BY <2>2
    <2>4. Depth[x] \in Nat /\ Lineage[x][Depth[x]] = x /\ TotalWork[x] \in Nat
        BY DepthFacts
    <2>5. i # Depth[x]
        BY <2>3, <2>4
    <2>6. x # Genesis
        BY <2>3, <2>4, <2>5, GenesisFacts
    <2>7. /\ Parent[x] \in Block /\ Depth[Parent[x]] \in Nat
          /\ Depth[x] = Depth[Parent[x]] + 1
          /\ \A k \in 0..Depth[Parent[x]] : Lineage[x][k] = Lineage[Parent[x]][k]
          /\ TotalWork[x] = TotalWork[Parent[x]] + Work[x]
        BY <2>6, ParentFacts
    <2>8. i \in 0..Depth[Parent[x]]
        BY <2>5, <2>7
    <2>9. ~Bad(Parent[x])
        <3>1. ASSUME Bad(Parent[x]) PROVE FALSE
            <4>1. Depth[Parent[x]] \in T
                BY <3>1, <2>7
            <4> QED BY <4>1, <2>1, <2>2, <2>7
        <3> QED BY <3>1
    <2>10. TotalWork[Lineage[Parent[x]][i]] <= TotalWork[Parent[x]]
        BY <2>8, <2>9
    <2>11. Lineage[x][i] = Lineage[Parent[x]][i] /\ Lineage[x][i] \in Block
        BY <2>7, <2>8, DepthFacts
    <2>12. /\ TotalWork[Lineage[x][i]] \in Nat /\ TotalWork[Parent[x]] \in Nat
           /\ Work[x] \in Nat /\ Work[x] >= 1
        BY <2>7, <2>11, DepthFacts
    <2>13. TotalWork[Lineage[x][i]] < TotalWork[x]
        BY <2>4, <2>7, <2>10, <2>11, <2>12
    <2> QED BY <2>3, <2>4, <2>12, <2>13
<1>2. ASSUME NEW x \in Block, NEW i \in 0..Depth[x] PROVE Fine(x, i)
    <2>1. ASSUME ~Fine(x, i) PROVE FALSE
        <3>1. Bad(x)
            BY <2>1
        <3>2. Depth[x] \in T
            BY <3>1
        <3> QED BY <3>2, <1>1
    <2> QED BY <2>1
<1> QED BY <1>2

-----------------------------------------------------------------------------
\* Sequences.

(***************************************************************************)
(* RemoveAt drops one entry and keeps the others.                          *)
(***************************************************************************)
LEMMA RemoveAtFacts ==
    ASSUME NEW S, NEW s \in Seq(S), NEW i \in DOMAIN s
    PROVE  /\ RemoveAt(s, i) \in Seq(S)
           /\ Len(RemoveAt(s, i)) = Len(s) - 1
           /\ \A j \in DOMAIN RemoveAt(s, i) : \E k \in DOMAIN s : RemoveAt(s, i)[j] = s[k]
<1>1. i \in 1..Len(s) /\ Len(s) \in Nat /\ DOMAIN s = 1..Len(s) /\ i \in Nat
    OBVIOUS
<1>2. PICK l : l = SubSeq(s, 1, i - 1)
    OBVIOUS
<1>3. PICK r : r = SubSeq(s, i + 1, Len(s))
    OBVIOUS
<1>4. /\ l \in Seq(S) /\ Len(l) = i - 1
      /\ \A j \in 1..(i - 1) : l[j] = s[j]
    BY <1>1, <1>2
<1>5. /\ r \in Seq(S) /\ Len(r) = Len(s) - i
      /\ \A j \in 1..(Len(s) - i) : r[j] = s[i + j]
    BY <1>1, <1>3
<1>6. PICK c : c = l \o r
    OBVIOUS
<1>7. /\ c \in Seq(S) /\ Len(c) = Len(l) + Len(r)
      /\ \A j \in 1..(Len(l) + Len(r)) : c[j] = IF j <= Len(l) THEN l[j] ELSE r[j - Len(l)]
    BY <1>4, <1>5, <1>6, ConcatProperties
<1>8. Len(l) + Len(r) = Len(s) - 1
    BY <1>1, <1>4, <1>5
<1>9. Len(c) = Len(s) - 1 /\ DOMAIN c = 1..(Len(s) - 1)
    BY <1>7, <1>8
<1>10. ASSUME NEW j \in 1..(Len(s) - 1) PROVE \E k \in 1..Len(s) : c[j] = s[k]
    <2>1. c[j] = IF j <= i - 1 THEN l[j] ELSE r[j - (i - 1)]
        BY <1>4, <1>7, <1>8
    <2>2. CASE j <= i - 1
        <3>1. c[j] = s[j]
            BY <1>1, <1>4, <2>1, <2>2
        <3> QED BY <3>1, <1>1
    <2>3. CASE ~(j <= i - 1)
        <3>1. j - (i - 1) \in 1..(Len(s) - i) /\ i + (j - (i - 1)) = j + 1 /\ j + 1 \in 1..Len(s)
            BY <1>1, <2>3
        <3>2. c[j] = s[j + 1]
            BY <3>1, <2>1, <2>3, <1>5
        <3> QED BY <3>1, <3>2
    <2> QED BY <2>2, <2>3
<1>11. RemoveAt(s, i) = c
    BY <1>2, <1>3, <1>6 DEF RemoveAt
<1> QED BY <1>1, <1>7, <1>9, <1>10, <1>11

(***************************************************************************)
(* What process_orphans leaves to apply is a sequence of blocks.           *)
(***************************************************************************)
LEMMA PromotedType ==
    ASSUME NEW q \in Seq(Orphan), NEW w \in Seq(Block), w # <<>>
    PROVE  [i \in DOMAIN q |-> q[i].blk] \o Tail(w) \in Seq(Block)
<1> DEFINE p == [i \in 1..Len(q) |-> q[i].blk]
<1>1. Len(q) \in Nat /\ DOMAIN q = 1..Len(q)
    OBVIOUS
<1>a. \A i \in 1..Len(q) : q[i] \in Orphan
    BY <1>1
<1>2. \A i \in 1..Len(q) : q[i].blk \in Block
    BY <1>a DEF Orphan
<1>3. p \in [1..Len(q) -> Block]
    BY <1>2
<1>4. p \in Seq(Block)
    BY <1>1, <1>3
<1>5. Tail(w) \in Seq(Block)
    OBVIOUS
<1> HIDE DEF p
<1>6. p \o Tail(w) \in Seq(Block)
    BY <1>4, <1>5, ConcatProperties
<1> QED BY <1>1, <1>6 DEF p

(***************************************************************************)
(* The orphan pool after add_orphan: every entry was there before or is    *)
(* the new one, under its parent's key.                                    *)
(***************************************************************************)
LEMMA AddOrphanFacts ==
    ASSUME NEW b \in Block, b # Genesis, now \in Nat,
           orphan_pool \in [Block -> Seq(Orphan)], add_orphan(b)
    PROVE  /\ orphan_pool' \in [Block -> Seq(Orphan)]
           /\ \A p \in Block : \A i \in DOMAIN orphan_pool'[p] :
                 \/ \E k \in DOMAIN orphan_pool[p] : orphan_pool'[p][i] = orphan_pool[p][k]
                 \/ p = Parent[b] /\ orphan_pool'[p][i].blk = b
<1>1. PICK pool \in prune_old_orphans(orphan_pool) :
        orphan_pool' = [pool EXCEPT ![Parent[b]] = Append(@, [blk |-> b, at |-> now])]
    BY DEF add_orphan
<1>2. /\ pool \in [Block -> Seq(Orphan)]
      /\ \A p \in Block : \A i \in DOMAIN pool[p] :
            \E k \in DOMAIN orphan_pool[p] : pool[p][i] = orphan_pool[p][k]
    <2>1. CASE pool = orphan_pool
        BY <2>1
    <2>2. ASSUME NEW e \in Oldest(orphan_pool),
                 pool = [orphan_pool EXCEPT ![e[1]] = RemoveAt(@, e[2])]
          PROVE  <1>2
        <3>1. e[1] \in Block /\ e[2] \in DOMAIN orphan_pool[e[1]]
            BY <2>2 DEF Oldest, Pooled
        <3>2. orphan_pool[e[1]] \in Seq(Orphan)
            BY <3>1
        <3> DEFINE s == RemoveAt(orphan_pool[e[1]], e[2])
        <3>3. /\ s \in Seq(Orphan)
              /\ \A j \in DOMAIN s : \E k \in DOMAIN orphan_pool[e[1]] : s[j] = orphan_pool[e[1]][k]
            BY <3>1, <3>2, RemoveAtFacts
        <3>4. pool = [orphan_pool EXCEPT ![e[1]] = s]
            BY <2>2
        <3> HIDE DEF s
        <3> QED BY <3>1, <3>3, <3>4
    <2> QED BY <2>1, <2>2 DEF prune_old_orphans
<1>3. Parent[b] \in Block
    BY ParentFacts
<1>4. [blk |-> b, at |-> now] \in Orphan
    BY DEF Orphan
<1> QED BY <1>1, <1>2, <1>3, <1>4

-----------------------------------------------------------------------------
\* The structural invariant.

(***************************************************************************)
(* The inductive invariant.  None of its parts is preserved alone: a       *)
(* reorganisation cuts the Vec at canon_index of the common ancestor,      *)
(* which is inside the Vec only by CanonicalPath, meets no gap only by     *)
(* SideBranches, and leaves no stale height on disk only because the       *)
(* heights on disk were those of the Vec.                                  *)
(***************************************************************************)
ChainInv == TypeOK /\ CanonicalPath /\ SideBranches /\ LedgerAtTip /\ StoreMatchesMemory

(***************************************************************************)
(* The part of it that the others rest on, and that holds also while       *)
(* startup has the chain back and not yet the account state and the        *)
(* records: the types, recorded work apart, the canonical Vec with its     *)
(* index, and the side branches.                                           *)
(***************************************************************************)
Typed ==
    /\ top \in Nat
    /\ blocks \in [0..top -> Block]
    /\ canon_index \in [Block -> Nat \cup {NoHeight}]
    /\ side_blocks \subseteq Block
    /\ seen_blocks \subseteq Block
    /\ orphan_pool \in [Block -> Seq(Orphan)]
    /\ ledger \in Block
    /\ pending_reorg_recovery \subseteq ReorgRecovery
    /\ db_blocks \subseteq Block
    /\ db_height \in [Heights -> Hash]
    /\ db_tip \in [height : Nat, hash : Block]
    /\ db_snap \in [Heights -> Snapshot]
    /\ work \in Seq(Block)
    /\ result \in Outcome \cup {"idle", "pending"}
    /\ now \in Nat
    /\ faults \in Nat

WorkTyped == cumulative_work \in [Block -> Nat]

Chained == Typed /\ CanonicalPath /\ SideBranches

LEMMA ChainInvParts ==
    /\ ChainInv <=> Chained /\ WorkTyped /\ LedgerAtTip /\ StoreMatchesMemory
    /\ ChainInv' <=> Chained' /\ WorkTyped' /\ LedgerAtTip' /\ StoreMatchesMemory'
BY Zenon DEF ChainInv, Chained, TypeOK, Typed, WorkTyped

(***************************************************************************)
(* What the invariant says about the canonical Vec, unfolded: its entries  *)
(* are blocks, each at its own depth, and canon_index inverts it.          *)
(***************************************************************************)
LEMMA TipFacts ==
    ASSUME Chained
    PROVE  /\ tip_hash = blocks[top] /\ tip_hash \in Block
           /\ top = Depth[tip_hash] /\ top \in Nat
           /\ \A i \in 0..top : /\ blocks[i] \in Block
                               /\ blocks[i] = Lineage[tip_hash][i]
                               /\ canon_index[blocks[i]] = i
                               /\ Depth[blocks[i]] = i
           /\ \A x \in Canon : /\ x \in Block /\ canon_index[x] \in 0..top
                              /\ blocks[canon_index[x]] = x
           /\ \A i \in 0..top : blocks[i] \in Canon
           /\ tip_hash \in Canon /\ Genesis \in Canon /\ blocks[0] = Genesis
           /\ Known \subseteq Block
<1>1. top \in Nat /\ tip_hash = blocks[top] /\ tip_hash \in Block
    BY DEF Chained, Typed, tip_hash
<1>2. \A i \in 0..top : /\ blocks[i] \in Block
                       /\ blocks[i] = Lineage[tip_hash][i] /\ canon_index[blocks[i]] = i
    BY <1>1 DEF Chained, Typed, CanonicalPath
<1>3. top = Depth[tip_hash]
    BY DEF Chained, CanonicalPath
<1>4. \A i \in 0..top : Depth[blocks[i]] = i
    BY <1>1, <1>2, <1>3, LineagePrefix
<1>5. \A x \in Canon : x \in Block /\ canon_index[x] \in 0..top /\ blocks[canon_index[x]] = x
    BY <1>1 DEF Chained, Typed, CanonicalPath, Canon, NoHeight
<1>6. \A i \in 0..top : blocks[i] \in Canon
    BY <1>2 DEF Canon, NoHeight
<1>7. blocks[0] = Genesis
    <2>1. blocks[0] \in Block /\ Depth[blocks[0]] = 0
        BY <1>1, <1>2, <1>4
    <2>2. ASSUME blocks[0] # Genesis PROVE FALSE
        BY <2>1, <2>2, ParentFacts
    <2> QED BY <2>2
<1>8. tip_hash \in Canon /\ Genesis \in Canon
    BY <1>1, <1>6, <1>7
<1>9. Known \subseteq Block
    BY DEF Known, Canon, Chained, Typed
<1> QED BY <1>1, <1>2, <1>3, <1>4, <1>5, <1>6, <1>7, <1>8, <1>9

(***************************************************************************)
(* A block that passes the duplicate filter is not known yet.              *)
(***************************************************************************)
LEMMA NewBlockUnknown ==
    ASSUME Chained, NEW b \in Block, WellFormed(b), b # Genesis
    PROVE  b \notin Known /\ b \notin Canon /\ b \notin side_blocks
BY DEF Chained, SideBranches, WellFormed, Known

(***************************************************************************)
(* The head of work is a block, and popping it leaves blocks.              *)
(***************************************************************************)
LEMMA WorkFacts ==
    ASSUME Typed, NEW b, Applying(b)
    PROVE  b \in Block /\ work # <<>> /\ Tail(work) \in Seq(Block)
BY HeadTailProperties DEF Typed, Applying

(***************************************************************************)
(* The chain of one block that startup leaves satisfies the invariant,     *)
(* fresh or loaded back.                                                   *)
(***************************************************************************)
LEMMA InitChainInv ==
    ASSUME WellNumbered, Init PROVE ChainInv
<1> USE BlockAssumption, LineageAssumption, BoundAssumption, TotalWorkAssumption
    DEF Init, BlockAssumption, LineageAssumption, BoundAssumption, TotalWorkAssumption
<1>1. TypeOK
    BY DEF TypeOK, NoHeight, NoSnapshot, Snapshot, Hash, Heights, Orphan, ReorgRecovery, Outcome
<1>2. CanonicalPath
    BY DEF CanonicalPath, tip_hash, Canon, NoHeight
<1>3. SideBranches
    BY DEF SideBranches, Known, Canon, NoHeight
<1>4. LedgerAtTip /\ StoreMatchesMemory
    BY DEF LedgerAtTip, StoreMatchesMemory, tip_hash, Known, Canon, NoHeight, Heights
<1> QED BY <1>1, <1>2, <1>3, <1>4 DEF ChainInv

(***************************************************************************)
(* Steps that leave the chain and the indexes alone.                       *)
(***************************************************************************)
LEMMA ChainUntouched ==
    ASSUME Chained, Typed', UNCHANGED <<blocks, top, canon_index, side_blocks, seen_blocks>>
    PROVE  Chained' /\ tip_hash' = tip_hash /\ Canon' = Canon /\ Known' = Known
<1>1. tip_hash' = tip_hash /\ Canon' = Canon /\ Known' = Known
    BY DEF tip_hash, Canon, Known
<1> QED BY <1>1 DEF Chained, CanonicalPath, SideBranches

(***************************************************************************)
(* Rejections, orphans, the caller's two ends of a call and the clock      *)
(* leave the chain and the records alone.                                  *)
(***************************************************************************)
Quiet ==
    \/ \E b \in Block : Reject(b) \/ RejectUnpersisted(b) \/ StoreOrphan(b) \/ Submit(b)
    \/ Return \/ Tick \/ UNCHANGED vars

LEMMA QuietFrame ==
    ASSUME Quiet
    PROVE  UNCHANGED <<blocks, top, canon_index, side_blocks, seen_blocks, cumulative_work,
                       ledger, db_blocks, db_height, db_tip, db_snap>>
BY DEF Quiet, Reject, RejectUnpersisted, StoreOrphan, Submit, Return, Tick, vars, memVars, dbVars

LEMMA QuietTyped ==
    ASSUME Typed, Quiet PROVE Typed'
<1>0. UNCHANGED <<blocks, top, canon_index, side_blocks, seen_blocks, ledger, dbVars>>
    BY QuietFrame DEF dbVars
<1> DEFINE Rest == /\ orphan_pool' \in [Block -> Seq(Orphan)]
                   /\ pending_reorg_recovery' \subseteq ReorgRecovery
                   /\ work' \in Seq(Block)
                   /\ result' \in Outcome \cup {"idle", "pending"}
                   /\ now' \in Nat /\ faults' \in Nat
<1> SUFFICES Rest
    BY <1>0 DEF Typed, dbVars
<1>1. ASSUME NEW b \in Block, Reject(b) PROVE Rest
    BY <1>1, WorkFacts DEF Reject, Typed, Answer, Outcome, memVars
<1>2. ASSUME NEW b \in Block, RejectUnpersisted(b) PROVE Rest
    <2>a. faults' \in Nat
        BY <1>2 DEF RejectUnpersisted, Typed
    <2>b. /\ result' \in Outcome \cup {"idle", "pending"} /\ work' \in Seq(Block)
          /\ UNCHANGED <<memVars, now>>
        BY <1>2, WorkFacts DEF RejectUnpersisted, Typed, Answer, Outcome
    <2> QED BY <2>a, <2>b DEF Typed, memVars
<1>3. ASSUME NEW b \in Block, StoreOrphan(b) PROVE Rest
    <2>1. orphan_pool' \in [Block -> Seq(Orphan)]
        BY <1>3, AddOrphanFacts, GenesisFacts DEF StoreOrphan, Typed
    <2> QED BY <1>3, <2>1, WorkFacts DEF StoreOrphan, Typed, Answer, Outcome
<1>4. ASSUME NEW b \in Block, Submit(b) PROVE Rest
    BY <1>4 DEF Submit, Typed, memVars
<1>5. CASE Return
    BY <1>5 DEF Return, Typed
<1>6. CASE Tick
    BY <1>6 DEF Tick, Typed, memVars
<1>7. CASE UNCHANGED vars
    BY <1>7 DEF Typed, vars, memVars
<1> QED BY <1>1, <1>2, <1>3, <1>4, <1>5, <1>6, <1>7 DEF Quiet

LEMMA QuietChained ==
    ASSUME Chained, Quiet
    PROVE  Chained' /\ tip_hash' = tip_hash /\ Canon' = Canon /\ Known' = Known
BY QuietTyped, QuietFrame, ChainUntouched DEF Chained

(***************************************************************************)
(* So they keep the invariant.                                             *)
(***************************************************************************)
LEMMA QuietSteps ==
    ASSUME ChainInv, Quiet PROVE ChainInv'
<1>1. Chained /\ WorkTyped /\ LedgerAtTip /\ StoreMatchesMemory
    BY ChainInvParts
<1>2. Chained' /\ tip_hash' = tip_hash /\ Canon' = Canon /\ Known' = Known
    BY <1>1, QuietChained
<1>3. WorkTyped' /\ LedgerAtTip' /\ StoreMatchesMemory'
    BY <1>1, <1>2, QuietFrame DEF WorkTyped, LedgerAtTip, StoreMatchesMemory
<1> QED BY <1>2, <1>3, ChainInvParts

(***************************************************************************)
(* What holds of a block that reached the end of stage 6.                  *)
(***************************************************************************)
LEMMA AcceptedBlock ==
    ASSUME Chained, NEW b \in Block, WellFormed(b), ParentKnown(b)
    PROVE  /\ b # Genesis /\ Parent[b] \in Known /\ Parent[b] \in Block
           /\ b \notin Known /\ b \notin Canon /\ b \notin side_blocks
BY NewBlockUnknown, GenesisFacts, ParentFacts DEF ParentKnown

(***************************************************************************)
(* Promoting the orphans of b leaves a pool and a list of blocks to apply. *)
(***************************************************************************)
LEMMA ProcessOrphansType ==
    ASSUME Typed, NEW b \in Block, work # <<>>, process_orphans(b)
    PROVE  orphan_pool' \in [Block -> Seq(Orphan)] /\ work' \in Seq(Block)
<1>1. orphan_pool[b] \in Seq(Orphan) /\ work \in Seq(Block)
    BY DEF Typed
<1>2. work' \in Seq(Block)
    BY <1>1, PromotedType DEF process_orphans
<1>3. << >> \in Seq(Orphan)
    OBVIOUS
<1>4. orphan_pool' \in [Block -> Seq(Orphan)]
    BY <1>3 DEF process_orphans, Typed
<1> QED BY <1>2, <1>4

(***************************************************************************)
(* LANE-B without a reorganisation keeps the invariant.                    *)
(***************************************************************************)
LEMMA SideChained ==
    ASSUME Chained, NEW b \in Block, StoreSide(b)
    PROVE  /\ Chained' /\ tip_hash' = tip_hash /\ Known' = Known \cup {b}
           /\ db_blocks' = db_blocks \cup {b}
           /\ UNCHANGED <<blocks, top, ledger, db_height, db_tip, db_snap, now>>
<1> USE DEF Chained
<1>1. /\ b # Genesis /\ Parent[b] \in Known /\ Parent[b] \in Block
      /\ b \notin Known /\ b \notin Canon
    BY AcceptedBlock DEF StoreSide, OnSideBranch
<1>2. work # <<>>
    BY WorkFacts DEF StoreSide, OnSideBranch
<1>3. orphan_pool' \in [Block -> Seq(Orphan)] /\ work' \in Seq(Block)
    BY <1>2, ProcessOrphansType DEF StoreSide
<1>6. faults' \in Nat
    BY DEF StoreSide, Typed
<1>7. /\ result' \in Outcome \cup {"idle", "pending"}
      /\ db_blocks' = db_blocks \cup {b}
      /\ seen_blocks' = seen_blocks \cup {b}
      /\ side_blocks' = side_blocks \cup {b}
      /\ UNCHANGED <<blocks, top, canon_index, ledger, pending_reorg_recovery,
                     db_height, db_tip, db_snap, now>>
    BY DEF StoreSide, Typed, Answer, Outcome, store_block
<1>8. Typed'
    BY <1>3, <1>6, <1>7 DEF Typed
<1>9. tip_hash' = tip_hash /\ Canon' = Canon /\ Known' = Known \cup {b}
    BY <1>7 DEF tip_hash, Canon, Known
<1>10. CanonicalPath'
    BY <1>7, <1>9 DEF CanonicalPath
<1>11. SideBranches'
    BY <1>1, <1>7, <1>9 DEF SideBranches
<1> QED BY <1>7, <1>8, <1>9, <1>10, <1>11

LEMMA CandidateTyped ==
    ASSUME Chained, WorkTyped, NEW b \in Block, WellFormed(b), ParentKnown(b)
    PROVE  candidate_cw(b) \in Nat
<1>1. cumulative_work[Parent[b]] \in Nat
    BY AcceptedBlock DEF WorkTyped
<1>2. Work[b] \in Nat
    BY DepthFacts
<1> QED BY <1>1, <1>2 DEF candidate_cw

LEMMA StoreSideStep ==
    ASSUME ChainInv, NEW b \in Block, StoreSide(b)
    PROVE  ChainInv' /\ tip_hash' = tip_hash /\ Known' = Known \cup {b}
<1>1. Chained /\ WorkTyped /\ LedgerAtTip /\ StoreMatchesMemory
    BY ChainInvParts
<1>2. /\ Chained' /\ tip_hash' = tip_hash /\ Known' = Known \cup {b}
      /\ db_blocks' = db_blocks \cup {b}
      /\ UNCHANGED <<blocks, top, ledger, db_height, db_tip>>
    BY <1>1, SideChained
<1>3. candidate_cw(b) \in Nat
    BY <1>1, CandidateTyped DEF StoreSide, OnSideBranch
<1>4. WorkTyped'
    BY <1>1, <1>3 DEF StoreSide, WorkTyped
<1>5. LedgerAtTip' /\ StoreMatchesMemory'
    BY <1>1, <1>2 DEF LedgerAtTip, StoreMatchesMemory
<1> QED BY <1>2, <1>4, <1>5, ChainInvParts

(***************************************************************************)
(* Saving a snapshot, torn or whole, keeps its type.                       *)
(***************************************************************************)
LEMMA SnapshotType ==
    ASSUME Typed, NEW b \in Block, maybe_save_snapshot(b)
    PROVE  db_snap' \in [Heights -> Snapshot] /\ faults' \in Nat
<1>1. CASE UNCHANGED <<db_snap, faults>>
    BY <1>1 DEF Typed
<1>2. ASSUME NEW n \in 0..4,
             faults' = IF n < 4 THEN faults + 1 ELSE faults,
             db_snap' = [db_snap EXCEPT ![Number[b]] = SnapshotParts(@, b, n)]
      PROVE  db_snap' \in [Heights -> Snapshot] /\ faults' \in Nat
    <2>1. Number[b] \in Heights
        BY DepthFacts
    <2>2. db_snap[Number[b]] \in Snapshot
        BY <2>1 DEF Typed
    <2>3. SnapshotParts(db_snap[Number[b]], b, n) \in Snapshot
        BY <2>2 DEF SnapshotParts, Snapshot, Hash
    <2>4. db_snap' \in [Heights -> Snapshot]
        BY <1>2, <2>1, <2>3 DEF Typed
    <2> QED BY <1>2, <2>4 DEF Typed
<1> QED BY <1>1, <1>2 DEF maybe_save_snapshot

(***************************************************************************)
(* LANE-A keeps the invariant: the block's lineage is the old chain with   *)
(* the block on top.                                                       *)
(***************************************************************************)
LEMMA ExtendChained ==
    ASSUME WellNumbered, Chained, NEW b \in Block, ExtendCanonical(b)
    PROVE  /\ Chained' /\ tip_hash' = b /\ Known' = Known \cup {b}
           /\ ledger' = b /\ UNCHANGED <<side_blocks, now>>
           /\ top' = top + 1 /\ Number[b] = top + 1 /\ Depth[b] = top + 1
           /\ blocks'[top + 1] = b /\ \A i \in 0..top : blocks'[i] = blocks[i]
           /\ db_blocks' = db_blocks \cup {b} /\ db_tip' = [height |-> top + 1, hash |-> b]
           /\ top + 1 \in Heights /\ db_height'[top + 1] = b
           /\ \A h \in Heights : h # top + 1 => db_height'[h] = db_height[h]
<1> USE DEF Chained
<1>1. /\ b # Genesis /\ Parent[b] \in Known /\ Parent[b] \in Block
      /\ b \notin Known /\ b \notin Canon /\ b \notin side_blocks
    BY AcceptedBlock DEF ExtendCanonical
<1>2. /\ tip_hash \in Block /\ top = Depth[tip_hash] /\ top \in Nat
      /\ tip_hash = blocks[top]
      /\ \A i \in 0..top : /\ blocks[i] \in Block /\ blocks[i] = Lineage[tip_hash][i]
                          /\ canon_index[blocks[i]] = i
      /\ \A x \in Canon : canon_index[x] \in 0..top /\ blocks[canon_index[x]] = x
      /\ \A i \in 0..top : blocks[i] \in Canon
    BY TipFacts
<1>3. Parent[b] = tip_hash
    BY DEF ExtendCanonical
<1>4. /\ Depth[b] = top + 1 /\ Number[b] = top + 1 /\ Number[b] \in Heights
      /\ Lineage[b][top + 1] = b
      /\ \A i \in 0..top : Lineage[b][i] = blocks[i]
    BY <1>1, <1>2, <1>3, ParentFacts, DepthFacts DEF WellNumbered
<1>5. /\ orphan_pool' \in [Block -> Seq(Orphan)] /\ work' \in Seq(Block)
    BY ProcessOrphansType, WorkFacts DEF ExtendCanonical
<1>6. db_snap' \in [Heights -> Snapshot] /\ faults' \in Nat
    BY SnapshotType DEF ExtendCanonical
<1>8. /\ top' = top + 1
      /\ blocks' = [i \in 0..(top + 1) |-> IF i <= top THEN blocks[i] ELSE b]
    BY DEF ExtendCanonical, push_canonical
<1>a. /\ \A i \in 0..top : blocks'[i] = blocks[i]
      /\ blocks'[top + 1] = b
      /\ blocks' \in [0..(top + 1) -> Block]
    BY <1>8 DEF Typed
<1>b. canon_index' = [canon_index EXCEPT ![b] = top + 1]
    BY <1>4 DEF ExtendCanonical, push_canonical
<1>c. /\ \A x \in Block : x # b => canon_index'[x] = canon_index[x]
      /\ canon_index'[b] = top + 1
      /\ canon_index' \in [Block -> Nat \cup {NoHeight}]
    BY <1>b DEF Typed
<1>d. /\ db_height' = [db_height EXCEPT ![top + 1] = b]
      /\ db_tip' = [height |-> top + 1, hash |-> b]
      /\ db_blocks' = db_blocks \cup {b}
    BY <1>4 DEF ExtendCanonical, persist_canonical_extension, store_block
<1>e. /\ \A h \in Heights : h # top + 1 => db_height'[h] = db_height[h]
      /\ top + 1 \in Heights /\ db_height'[top + 1] = b
      /\ db_height' \in [Heights -> Hash]
    BY <1>4, <1>d DEF Typed, Hash
<1>f. /\ seen_blocks' = seen_blocks \cup {b} /\ pending_reorg_recovery' = {}
      /\ ledger' = b /\ UNCHANGED <<side_blocks, now>>
    BY DEF ExtendCanonical, push_canonical, install_state
<1>10. result' \in Outcome \cup {"idle", "pending"}
    BY DEF ExtendCanonical, Answer, Outcome, Typed
<1>11. db_tip' \in [height : Nat, hash : Block] /\ top' \in Nat
    BY <1>8, <1>d DEF Typed
<1>12. /\ db_blocks' \subseteq Block /\ seen_blocks' \subseteq Block
       /\ pending_reorg_recovery' \subseteq ReorgRecovery
       /\ side_blocks' \subseteq Block /\ now' \in Nat /\ ledger' \in Block
    BY <1>d, <1>f DEF Typed
<1>13. Typed'
    BY <1>5, <1>6, <1>8, <1>a, <1>c, <1>e, <1>10, <1>11, <1>12 DEF Typed
<1>14. /\ tip_hash' = b
       /\ Canon' = Canon \cup {b} /\ Known' = Known \cup {b}
    <2>1. tip_hash' = b
        BY <1>2, <1>8, <1>a DEF tip_hash
    <2>2. Canon' = Canon \cup {b}
        BY <1>2, <1>c DEF Canon, NoHeight
    <2> QED BY <2>1, <2>2, <1>f DEF Known
<1>15. ASSUME NEW i \in 0..(top + 1)
       PROVE  blocks'[i] = Lineage[b][i] /\ canon_index'[blocks'[i]] = i
    <2>1. CASE i \in 0..top
        <3>1. blocks'[i] = blocks[i] /\ blocks[i] # b /\ blocks[i] \in Block
            BY <2>1, <1>1, <1>2, <1>a
        <3> QED BY <2>1, <3>1, <1>2, <1>4, <1>c
    <2>2. CASE i = top + 1
        BY <2>2, <1>4, <1>a, <1>c
    <2> QED BY <2>1, <2>2, <1>2
<1>17. ASSUME NEW x \in Canon'
       PROVE  canon_index'[x] <= top + 1 /\ blocks'[canon_index'[x]] = x
    <2>1. CASE x \in Canon
        <3>1. canon_index'[x] = canon_index[x] /\ canon_index[x] \in 0..top
            BY <2>1, <1>1, <1>2, <1>c DEF Canon
        <3> QED BY <2>1, <3>1, <1>2, <1>a
    <2>2. CASE x = b
        <3>1. top + 1 <= top + 1
            BY DEF Typed
        <3> QED BY <2>2, <3>1, <1>a, <1>c
    <2> QED BY <2>1, <2>2, <1>14
<1>18. CanonicalPath'
    BY <1>4, <1>8, <1>14, <1>15, <1>17 DEF CanonicalPath
<1>19. SideBranches'
    BY <1>1, <1>f, <1>14 DEF SideBranches
<1> QED BY <1>4, <1>8, <1>a, <1>d, <1>e, <1>f, <1>13, <1>14, <1>18, <1>19

LEMMA ExtendStep ==
    ASSUME WellNumbered, ChainInv, NEW b \in Block, ExtendCanonical(b)
    PROVE  ChainInv' /\ tip_hash' = b /\ Known' = Known \cup {b}
<1>1. Chained /\ WorkTyped /\ LedgerAtTip /\ StoreMatchesMemory
    BY ChainInvParts
<1>2. /\ Chained' /\ tip_hash' = b /\ Known' = Known \cup {b}
      /\ ledger' = b /\ top' = top + 1
      /\ blocks'[top + 1] = b /\ \A i \in 0..top : blocks'[i] = blocks[i]
      /\ db_blocks' = db_blocks \cup {b} /\ db_tip' = [height |-> top + 1, hash |-> b]
      /\ top + 1 \in Heights /\ db_height'[top + 1] = b
      /\ \A h \in Heights : h # top + 1 => db_height'[h] = db_height[h]
    BY <1>1, ExtendChained
<1>3. WorkTyped'
    <2>1. candidate_cw(b) \in Nat
        BY <1>1, CandidateTyped DEF ExtendCanonical
    <2> QED BY <1>1, <2>1 DEF ExtendCanonical, push_canonical, WorkTyped
<1>4. LedgerAtTip'
    BY <1>2 DEF LedgerAtTip
<1>5. StoreMatchesMemory'
    <2>1. db_tip' = [height |-> top', hash |-> tip_hash'] /\ Known' \subseteq db_blocks'
        BY <1>1, <1>2 DEF StoreMatchesMemory
    <2>2. top \in Nat
        BY <1>1, TipFacts
    <2>3. ASSUME NEW h \in Heights
          PROVE  db_height'[h] = IF h <= top + 1 THEN blocks'[h] ELSE NoBlock
        <3>1. h \in Nat
            BY BlockAssumption DEF BlockAssumption, Heights
        <3>2. db_height[h] = IF h <= top THEN blocks[h] ELSE NoBlock
            BY <1>1 DEF StoreMatchesMemory
        <3>3. CASE h = top + 1
            BY <3>3, <1>2, <2>2
        <3>4. CASE h # top + 1
            BY <3>1, <3>2, <3>4, <1>2, <2>2
        <3> QED BY <3>3, <3>4
    <2> QED BY <2>1, <2>3, <1>2 DEF StoreMatchesMemory
<1> QED BY <1>2, <1>3, <1>4, <1>5, ChainInvParts

(***************************************************************************)
(* What a reorganisation to b does, in closed form: the walk from b meets  *)
(* the chain at depth d, at the block the chain has at index d; the new    *)
(* chain is b's lineage; the blocks that leave are those above d.          *)
(***************************************************************************)
Adopted(b, d) == {Lineage[b][i] : i \in (d + 1)..Depth[b]}
Demoted(d) == {blocks[i] : i \in (d + 1)..top}
Rebased(b, d, x) ==
    (IF cumulative_work[blocks[d]] # 0 THEN cumulative_work[blocks[d]] ELSE TotalWork[blocks[d]])
    + (TotalWork[x] - TotalWork[blocks[d]])

(***************************************************************************)
(* The walk of collect_new_segment meets the chain at index d of the Vec,  *)
(* below b, and b's lineage up to there is the Vec itself.                 *)
(***************************************************************************)
LEMMA ForkPoint ==
    ASSUME Chained, NEW b \in Block, b \notin Canon,
           NEW d \in 0..Depth[b], ForksAt(b, side_blocks \cup {b}, d)
    PROVE  /\ canon_index[Lineage[b][d]] = d /\ Lineage[b][d] = blocks[d]
           /\ d \in Nat /\ d <= top /\ d < Depth[b]
           /\ \A i \in 0..d : Lineage[b][i] = blocks[i]
           /\ \A i \in (d + 1)..Depth[b] : Lineage[b][i] \in side_blocks \cup {b}
<1>1. Depth[b] \in Nat /\ Lineage[b][Depth[b]] = b /\ d \in Nat
    BY DepthFacts
<1>2. /\ Lineage[b][d] \in Canon
      /\ \A i \in (d + 1)..Depth[b] : Lineage[b][i] \in side_blocks \cup {b}
    BY DEF ForksAt
<1>3. d < Depth[b]
    BY <1>1, <1>2
<1>4. PICK x \in Block : x = Lineage[b][d]
    BY DepthFacts
<1>5. Depth[x] = d /\ \A k \in 0..d : Lineage[x][k] = Lineage[b][k]
    BY <1>4, LineagePrefix
<1>6. PICK c \in 0..top : c = canon_index[x] /\ blocks[c] = x
    BY <1>2, <1>4, TipFacts
<1>7. Depth[x] = c /\ x = Lineage[tip_hash][c]
    BY <1>6, TipFacts
<1>8. c = d /\ d <= top
    BY <1>5, <1>6, <1>7, TipFacts
<1>9. tip_hash \in Block /\ Depth[tip_hash] = top /\ top \in Nat
    BY TipFacts
<1>10. \A k \in 0..d : Lineage[x][k] = Lineage[tip_hash][k]
    BY <1>6, <1>7, <1>8, <1>9, LineagePrefix
<1>11. \A k \in 0..d : Lineage[tip_hash][k] = blocks[k]
    BY <1>1, <1>8, <1>9, TipFacts
<1>12. \A k \in 0..d : Lineage[b][k] = blocks[k]
    BY <1>5, <1>10, <1>11
<1> QED BY <1>1, <1>2, <1>3, <1>4, <1>6, <1>8, <1>12

(***************************************************************************)
(* A reorganisation in terms of the fork point d alone: the index of the   *)
(* common ancestor, which the code looks up, is d.                         *)
(***************************************************************************)
LEMMA ReorgShape ==
    ASSUME WellNumbered, Chained, NEW b \in Block, Reorganise(b)
    PROVE  \E d \in 0..Depth[b] :
              /\ ForksAt(b, side_blocks \cup {b}, d)
              /\ persist_canonical_reorg(NewBlocks(b, d, d), b, Number[tip_hash])
              /\ blocks' = NewBlocks(b, d, d)
              /\ top' = d + Depth[b] - d
              /\ canon_index' = [x \in Block |-> IF x \in Adopted(b, d) THEN Number[x]
                                                ELSE IF x \in Demoted(d) THEN NoHeight
                                                ELSE canon_index[x]]
              /\ side_blocks' = (side_blocks \cup Demoted(d)) \ Adopted(b, d)
              /\ cumulative_work' = [x \in Block |-> IF x \in Adopted(b, d)
                                                    THEN Rebased(b, d, x)
                                                    ELSE cumulative_work[x]]
              /\ seen_blocks' = seen_blocks \cup Adopted(b, d)
<1>1. b \notin Canon
    BY AcceptedBlock DEF Reorganise, OnSideBranch
<1>2. PICK d \in 0..Depth[b] :
        /\ ForksAt(b, side_blocks \cup {b}, d)
        /\ LET common     == Lineage[b][d]
               c          == canon_index[common]
               newSegment == {Lineage[b][i] : i \in (d + 1)..Depth[b]}
               demoted    == {blocks[i] : i \in (c + 1)..top}
               base       == IF cumulative_work[common] # 0
                             THEN cumulative_work[common] ELSE TotalWork[common]
           IN
           /\ persist_canonical_reorg(NewBlocks(b, c, d), b, Number[tip_hash])
           /\ blocks' = NewBlocks(b, c, d)
           /\ top' = c + Depth[b] - d
           /\ canon_index' =
                 [x \in Block |-> IF x \in newSegment THEN Number[x]
                                  ELSE IF x \in demoted THEN NoHeight
                                  ELSE canon_index[x]]
           /\ side_blocks' = (side_blocks \cup demoted) \ newSegment
           /\ cumulative_work' =
                 [x \in Block |-> IF x \in newSegment
                                  THEN base + (TotalWork[x] - TotalWork[common])
                                  ELSE cumulative_work[x]]
           /\ seen_blocks' = seen_blocks \cup newSegment
    BY Zenon DEF Reorganise, demote_blocks
<1>3. canon_index[Lineage[b][d]] = d /\ Lineage[b][d] = blocks[d]
    <2>1. ForksAt(b, side_blocks \cup {b}, d)
        BY <1>2
    <2> QED BY <1>1, <2>1, ForkPoint
<1> QED BY <1>2, <1>3, Zenon DEF Adopted, Demoted, Rebased

(***************************************************************************)
(* The sets a reorganisation moves: what joins was not canonical, what     *)
(* leaves was canonical above d, and each keeps a known parent.            *)
(***************************************************************************)
LEMMA MovedBlocks ==
    ASSUME WellNumbered, Chained, NEW b \in Block, b \notin Known,
           NEW d \in 0..Depth[b], ForksAt(b, side_blocks \cup {b}, d)
    PROVE  /\ \A x \in Adopted(b, d) :
                 /\ x \in Block /\ x \notin Canon /\ x \in side_blocks \cup {b}
                 /\ Number[x] \in (d + 1)..Depth[b] /\ Lineage[b][Number[x]] = x
           /\ b \in Adopted(b, d)
           /\ \A i \in (d + 1)..Depth[b] : Lineage[b][i] \in Adopted(b, d)
           /\ \A x \in Demoted(d) :
                 /\ x \in Block /\ x \in Canon /\ canon_index[x] > d
                 /\ x # Genesis /\ Parent[x] \in Canon
           /\ \A x \in Canon : x \notin Demoted(d) => canon_index[x] \in 0..d
<1>1. /\ d \in Nat /\ d <= top /\ d < Depth[b]
      /\ \A i \in (d + 1)..Depth[b] : Lineage[b][i] \in side_blocks \cup {b}
    BY ForkPoint DEF Known
<1>2. Depth[b] \in Nat /\ Lineage[b][Depth[b]] = b
    BY DepthFacts
<1>3. ASSUME NEW x \in Adopted(b, d)
      PROVE  /\ x \in Block /\ x \notin Canon /\ x \in side_blocks \cup {b}
             /\ Number[x] \in (d + 1)..Depth[b] /\ Lineage[b][Number[x]] = x
    <2>1. PICK i \in (d + 1)..Depth[b] : x = Lineage[b][i]
        BY DEF Adopted
    <2>2. i \in 0..Depth[b]
        BY <1>1, <1>2
    <2>3. x \in Block /\ Depth[x] = i
        BY <2>1, <2>2, LineagePrefix
    <2>4. Number[x] = i
        BY <2>3 DEF WellNumbered
    <2>5. x \in side_blocks \cup {b}
        BY <2>1, <1>1
    <2>6. x \notin Canon
        BY <2>5 DEF Chained, SideBranches, Known
    <2> QED BY <2>1, <2>3, <2>4, <2>5, <2>6
<1>4. \A i \in (d + 1)..Depth[b] : Lineage[b][i] \in Adopted(b, d)
    BY DEF Adopted
<1>5. b \in Adopted(b, d)
    BY <1>1, <1>2, <1>4
<1>6. top \in Nat /\ tip_hash \in Block /\ top = Depth[tip_hash]
    BY TipFacts
<1>7. ASSUME NEW x \in Demoted(d)
      PROVE  /\ x \in Block /\ x \in Canon /\ canon_index[x] > d
             /\ x # Genesis /\ Parent[x] \in Canon
    <2>1. PICK i \in (d + 1)..top : x = blocks[i]
        BY DEF Demoted
    <2>2. i \in 0..top /\ i - 1 \in 0..top /\ i \in 1..Depth[tip_hash] /\ i > d
        BY <1>1, <1>6
    <2>3. x \in Block /\ x \in Canon /\ canon_index[x] = i /\ x = Lineage[tip_hash][i]
        BY <2>1, <2>2, TipFacts
    <2>4. x # Genesis /\ Parent[x] = Lineage[tip_hash][i - 1]
        BY <2>2, <2>3, <1>6, LineageParent
    <2>5. Lineage[tip_hash][i - 1] = blocks[i - 1] /\ blocks[i - 1] \in Canon
        BY <2>2, TipFacts
    <2> QED BY <2>2, <2>3, <2>4, <2>5
<1>8. ASSUME NEW x \in Canon, x \notin Demoted(d) PROVE canon_index[x] \in 0..d
    <2>1. canon_index[x] \in 0..top /\ blocks[canon_index[x]] = x
        BY TipFacts
    <2>2. canon_index[x] \notin (d + 1)..top
        BY <1>8, <2>1 DEF Demoted
    <2> QED BY <2>1, <2>2, <1>1, <1>6
<1> QED BY <1>3, <1>4, <1>5, <1>7, <1>8

(***************************************************************************)
(* A reorganisation keeps the invariant.                                   *)
(***************************************************************************)
LEMMA ReorgChained ==
    ASSUME WellNumbered, Chained, NEW b \in Block, Reorganise(b)
    PROVE  /\ Chained' /\ tip_hash' = b /\ Known' = Known \cup {b}
           /\ ledger' = b /\ UNCHANGED <<db_snap, now>>
           /\ top' = Depth[b]
           /\ db_blocks' = db_blocks \cup {blocks'[i] : i \in 0..Depth[b]}
           /\ db_tip' = [height |-> Depth[b], hash |-> b]
           /\ \A h \in Heights :
                 db_height'[h] = IF h <= Depth[b] THEN blocks'[h]
                                 ELSE IF h <= top THEN NoBlock ELSE db_height[h]
<1> USE DEF Chained
<1>1. /\ b # Genesis /\ b \notin Known /\ b \notin Canon
    BY AcceptedBlock DEF Reorganise, OnSideBranch
<1>2. PICK d \in 0..Depth[b] :
              /\ ForksAt(b, side_blocks \cup {b}, d)
              /\ persist_canonical_reorg(NewBlocks(b, d, d), b, Number[tip_hash])
              /\ blocks' = NewBlocks(b, d, d)
              /\ top' = d + Depth[b] - d
              /\ canon_index' = [x \in Block |-> IF x \in Adopted(b, d) THEN Number[x]
                                                ELSE IF x \in Demoted(d) THEN NoHeight
                                                ELSE canon_index[x]]
              /\ side_blocks' = (side_blocks \cup Demoted(d)) \ Adopted(b, d)
              /\ cumulative_work' = [x \in Block |-> IF x \in Adopted(b, d)
                                                    THEN Rebased(b, d, x)
                                                    ELSE cumulative_work[x]]
              /\ seen_blocks' = seen_blocks \cup Adopted(b, d)
    BY ReorgShape
<1>a. ForksAt(b, side_blocks \cup {b}, d)
    BY <1>2
<1>3. /\ Lineage[b][d] = blocks[d] /\ d \in Nat /\ d <= top /\ d < Depth[b]
      /\ \A i \in 0..d : Lineage[b][i] = blocks[i]
    BY <1>1, <1>a, ForkPoint
<1>4. Depth[b] \in Nat /\ Lineage[b][Depth[b]] = b /\ Number[b] = Depth[b]
    BY DepthFacts DEF WellNumbered
<1> DEFINE New == NewBlocks(b, d, d)
<1>5. /\ New \in [0..Depth[b] -> Block]
      /\ \A i \in 0..Depth[b] : New[i] = Lineage[b][i]
    <2>1. d + Depth[b] - d = Depth[b] /\ \A i \in 0..Depth[b] : d + i - d = i
        BY <1>3, <1>4
    <2>2. New = [i \in 0..Depth[b] |-> IF i <= d THEN blocks[i] ELSE Lineage[b][d + i - d]]
        BY <2>1 DEF NewBlocks
    <2>3. ASSUME NEW i \in 0..Depth[b]
          PROVE  (IF i <= d THEN blocks[i] ELSE Lineage[b][d + i - d]) = Lineage[b][i]
        BY <2>1, <1>3
    <2>4. \A i \in 0..Depth[b] : Lineage[b][i] \in Block
        BY DepthFacts
    <2> QED BY <2>2, <2>3, <2>4
<1> HIDE DEF New
<1>6. top' = Depth[b] /\ blocks' = New
    BY <1>2, <1>3, <1>4 DEF New
<1>7. tip_hash' = b
    BY <1>4, <1>5, <1>6 DEF tip_hash
<1>8. /\ \A x \in Adopted(b, d) :
            /\ x \in Block /\ x \notin Canon /\ x \in side_blocks \cup {b}
            /\ Number[x] \in (d + 1)..Depth[b] /\ Lineage[b][Number[x]] = x
      /\ b \in Adopted(b, d)
      /\ \A i \in (d + 1)..Depth[b] : Lineage[b][i] \in Adopted(b, d)
      /\ \A x \in Demoted(d) :
            /\ x \in Block /\ x \in Canon /\ canon_index[x] > d
            /\ x # Genesis /\ Parent[x] \in Canon
      /\ \A x \in Canon : x \notin Demoted(d) => canon_index[x] \in 0..d
    BY <1>1, <1>2, MovedBlocks
<1>9. \A x \in Adopted(b, d) : x \notin Demoted(d)
    BY <1>8
<1>10. /\ \A x \in Adopted(b, d) : canon_index'[x] = Number[x]
       /\ \A x \in Demoted(d) : canon_index'[x] = NoHeight
       /\ \A x \in Block : x \notin Adopted(b, d) /\ x \notin Demoted(d)
                          => canon_index'[x] = canon_index[x]
    BY <1>2, <1>8, <1>9
<1>11. canon_index' \in [Block -> Nat \cup {NoHeight}]
    <2>1. \A x \in Block : Number[x] \in Nat
        BY DepthFacts
    <2> QED BY <1>2, <2>1 DEF Typed
<1>12. \A x \in Block : x \in Canon' <=> x \in Adopted(b, d) \/ (x \in Canon /\ x \notin Demoted(d))
    <2>1. ASSUME NEW x \in Adopted(b, d) PROVE canon_index'[x] # NoHeight
        <3>1. Number[x] \in Nat
            BY <1>8, DepthFacts
        <3> QED BY <3>1, <1>10 DEF NoHeight
    <2> QED BY <1>10, <2>1 DEF Canon
<1>13. Known' = Known \cup {b}
    <2>1. \A x : x \in Known' <=> x \in Known \/ x = b
        <3>1. Canon \subseteq Block /\ Canon' \subseteq Block /\ side_blocks \subseteq Block
            BY DEF Canon, Typed
        <3>2. side_blocks' = (side_blocks \cup Demoted(d)) \ Adopted(b, d)
            BY <1>2
        <3> QED BY <3>1, <3>2, <1>8, <1>12 DEF Known
    <2> QED BY <2>1
<1>14. CanonicalPath'
    <2>1. ASSUME NEW i \in 0..Depth[b]
          PROVE  blocks'[i] = Lineage[b][i] /\ canon_index'[blocks'[i]] = i
        <3>1. blocks'[i] = Lineage[b][i]
            BY <1>5, <1>6
        <3>2. CASE i \in 0..d
            <4>1. /\ blocks'[i] = blocks[i] /\ blocks[i] \in Canon /\ blocks[i] \in Block
                  /\ canon_index[blocks[i]] = i
                BY <3>1, <3>2, <1>3, TipFacts
            <4>2. blocks[i] \notin Adopted(b, d) /\ blocks[i] \notin Demoted(d)
                BY <4>1, <3>2, <1>3, <1>8
            <4> QED BY <3>1, <4>1, <4>2, <1>10
        <3>3. CASE i \in (d + 1)..Depth[b]
            <4>1. PICK x \in Adopted(b, d) : x = Lineage[b][i]
                BY <3>3, <1>8
            <4>2. x \in Block /\ Depth[x] = i
                BY <4>1, LineagePrefix
            <4>3. Number[x] = i
                BY <4>2 DEF WellNumbered
            <4> QED BY <3>1, <4>1, <4>3, <1>10
        <3> QED BY <3>2, <3>3, <1>3, <1>4
    <2>2. ASSUME NEW x \in Canon'
          PROVE  canon_index'[x] <= Depth[b] /\ blocks'[canon_index'[x]] = x
        <3>1. CASE x \in Adopted(b, d)
            <4>1. /\ canon_index'[x] = Number[x]
                  /\ Number[x] \in (d + 1)..Depth[b] /\ Lineage[b][Number[x]] = x
                BY <3>1, <1>8, <1>10
            <4>2. Number[x] \in 0..Depth[b] /\ Number[x] <= Depth[b]
                BY <4>1, <1>3, <1>4
            <4> QED BY <4>1, <4>2, <2>1
        <3>2. CASE x \notin Adopted(b, d)
            <4>1. x \in Block /\ x \in Canon /\ x \notin Demoted(d)
                BY <3>2, <1>12 DEF Canon
            <4>2. /\ canon_index'[x] = canon_index[x] /\ canon_index[x] \in 0..d
                  /\ blocks[canon_index[x]] = x
                BY <3>2, <4>1, <1>8, <1>10, TipFacts
            <4>3. canon_index[x] \in 0..Depth[b] /\ canon_index[x] <= Depth[b]
                BY <4>2, <1>3, <1>4
            <4>4. blocks'[canon_index[x]] = blocks[canon_index[x]]
                BY <4>2, <4>3, <2>1, <1>3
            <4> QED BY <4>2, <4>3, <4>4
        <3> QED BY <3>1, <3>2
    <2> QED BY <1>6, <1>7, <2>1, <2>2 DEF CanonicalPath
<1>15. SideBranches'
    <2>1. side_blocks' = (side_blocks \cup Demoted(d)) \ Adopted(b, d)
        BY <1>2
    <2>2. side_blocks' \cap Canon' = {}
        BY <2>1, <1>8, <1>12 DEF SideBranches, Canon
    <2>3. ASSUME NEW x \in side_blocks' PROVE x # Genesis /\ Parent[x] \in Known'
        BY <2>1, <1>8, <1>13 DEF SideBranches, Known
    <2>4. seen_blocks' \cup {Genesis} = Known'
        <3>1. Adopted(b, d) \subseteq Known \cup {b} /\ b \in Adopted(b, d)
            BY <1>8 DEF Known
        <3> QED BY <3>1, <1>2, <1>13 DEF SideBranches
    <2> QED BY <2>2, <2>3, <2>4 DEF SideBranches
<1>16. ledger' = b /\ UNCHANGED <<db_snap, now, faults>>
    BY DEF Reorganise, install_state
<1>17. /\ db_blocks' = db_blocks \cup {New[i] : i \in 0..Depth[b]}
       /\ db_tip' = [height |-> Depth[b], hash |-> b]
    <2>1. /\ db_blocks' = db_blocks \cup {b} \cup {New[i] : i \in DOMAIN New}
          /\ db_tip' = [height |-> Depth[b], hash |-> b]
        BY <1>2, <1>4 DEF New, persist_canonical_reorg
    <2>2. DOMAIN New = 0..Depth[b] /\ b \in {New[i] : i \in 0..Depth[b]}
        BY <1>4, <1>5
    <2> QED BY <2>1, <2>2
<1>18. \A h \in Heights : db_height'[h] = IF h <= Depth[b] THEN New[h]
                                            ELSE IF h <= top THEN NoBlock ELSE db_height[h]
    <2>1. DOMAIN New = 0..Depth[b]
        BY <1>5
    <2>2. ASSUME NEW i \in 0..Depth[b] PROVE Number[New[i]] = i
        BY <1>5, LineagePrefix DEF WellNumbered
    <2>3. ASSUME NEW h \in Heights
          PROVE  db_height'[h] = IF h <= Depth[b] THEN New[h]
                                 ELSE IF h <= top THEN NoBlock ELSE db_height[h]
        <3>1. h \in Nat
            BY BlockAssumption DEF BlockAssumption, Heights
        <3>2. db_height'[h] =
                IF \E i \in DOMAIN New : Number[New[i]] = h
                THEN New[CHOOSE i \in DOMAIN New :
                                /\ Number[New[i]] = h
                                /\ \A j \in DOMAIN New : Number[New[j]] = h => j <= i]
                ELSE IF h \in (Number[b] + 1)..Number[tip_hash] THEN NoBlock
                ELSE db_height[h]
            BY <1>2 DEF New, persist_canonical_reorg
        <3>3. CASE h <= Depth[b]
            <4>1. h \in 0..Depth[b]
                BY <3>1, <3>3, <1>4
            <4> DEFINE P(i) == /\ Number[New[i]] = h
                               /\ \A j \in DOMAIN New : Number[New[j]] = h => j <= i
            <4>2. P(h)
                BY <2>1, <2>2, <4>1
            <4>3. \A i \in DOMAIN New : P(i) => i = h
                BY <2>1, <2>2
            <4> HIDE DEF P
            <4>4. (CHOOSE i \in DOMAIN New : P(i)) = h
                BY <2>1, <4>1, <4>2, <4>3
            <4>5. \E i \in DOMAIN New : Number[New[i]] = h
                BY <2>1, <2>2, <4>1
            <4> QED BY <3>2, <3>3, <4>4, <4>5 DEF P
        <3>4. CASE ~(h <= Depth[b])
            <4>1. ~\E i \in DOMAIN New : Number[New[i]] = h
                BY <2>1, <2>2, <3>4, <1>4
            <4>2. Number[tip_hash] = top /\ top \in Nat
                BY TipFacts DEF WellNumbered
            <4>3. h \in (Number[b] + 1)..Number[tip_hash] <=> h <= top
                BY <3>1, <3>4, <4>2, <1>4
            <4> QED BY <3>2, <3>4, <4>1, <4>3
        <3> QED BY <3>3, <3>4
    <2> QED BY <2>3
<1>21. pending_reorg_recovery' \subseteq ReorgRecovery
    <2>1. \A x \in Block : Txs[x] \subseteq Tx
        BY BlockAssumption DEF BlockAssumption
    <2>2. PICK e \in 0..Depth[b] :
             LET common     == Lineage[b][e]
                 newSegment == {Lineage[b][i] : i \in (e + 1)..Depth[b]}
                 demoted    == {blocks[i] : i \in (canon_index[common] + 1)..top}
                 winning    == UNION {Txs[x] : x \in newSegment}
             IN  /\ ForksAt(b, side_blocks \cup {b}, e)
                 /\ pending_reorg_recovery' =
                      {[displaced_txs |-> UNION {Txs[x] : x \in demoted} \ winning,
                        winning_tx_ids |-> winning]}
        BY Zenon DEF Reorganise
    <2>3. canon_index[Lineage[b][e]] = e
        BY <1>1, <2>2, ForkPoint
    <2> DEFINE won == UNION {Txs[x] : x \in Adopted(b, e)}
               lost == UNION {Txs[x] : x \in Demoted(e)} \ won
    <2>4. pending_reorg_recovery' = {[displaced_txs |-> lost, winning_tx_ids |-> won]}
        BY <2>2, <2>3, Zenon DEF Adopted, Demoted
    <2>5. \A x \in Adopted(b, e) \cup Demoted(e) : x \in Block
        BY <1>1, <2>2, MovedBlocks
    <2>6. won \subseteq Tx /\ lost \subseteq Tx
        BY <2>1, <2>5
    <2> HIDE DEF won, lost
    <2> QED BY <2>4, <2>6 DEF ReorgRecovery
<1>22. Typed'
    <2>1. orphan_pool' \in [Block -> Seq(Orphan)] /\ work' \in Seq(Block)
        BY ProcessOrphansType, WorkFacts DEF Reorganise, OnSideBranch
    <2>2. result' \in Outcome \cup {"idle", "pending"}
        BY DEF Reorganise, Answer, Outcome, Typed
    <2>3. ledger' \in Block
        BY <1>16
    <2>4. top' \in Nat /\ blocks' \in [0..top' -> Block]
        BY <1>4, <1>5, <1>6
    <2>5. side_blocks' \subseteq Block /\ seen_blocks' \subseteq Block
        BY <1>2, <1>8 DEF Typed
    <2>6. db_blocks' \subseteq Block /\ db_tip' \in [height : Nat, hash : Block]
        BY <1>4, <1>5, <1>17 DEF Typed
    <2>7. db_height' \in [Heights -> Hash]
        <3>1. DOMAIN db_height' = Heights /\ db_height' = [h \in Heights |-> db_height'[h]]
            BY <1>2 DEF persist_canonical_reorg
        <3>2. ASSUME NEW h \in Heights PROVE db_height'[h] \in Hash
            <4>1. h \in Nat
                BY BlockAssumption DEF BlockAssumption, Heights
            <4>2. db_height[h] \in Hash
                BY DEF Typed
            <4>3. h <= Depth[b] => New[h] \in Block
                BY <4>1, <1>4, <1>5
            <4> QED BY <4>2, <4>3, <1>18 DEF Hash
        <3> QED BY <3>1, <3>2
    <2> QED BY <2>1, <2>2, <2>3, <2>4, <2>5, <2>6, <2>7, <1>11, <1>16, <1>21 DEF Typed
<1> QED BY <1>6, <1>7, <1>13, <1>14, <1>15, <1>16, <1>17, <1>18, <1>22

LEMMA ReorgTypedWork ==
    ASSUME WellNumbered, Chained, WorkTyped, NEW b \in Block, Reorganise(b)
    PROVE  WorkTyped'
<1>1. b \notin Known /\ b \notin Canon
    BY AcceptedBlock DEF Reorganise, OnSideBranch
<1>2. PICK d \in 0..Depth[b] :
              /\ ForksAt(b, side_blocks \cup {b}, d)
              /\ cumulative_work' = [x \in Block |-> IF x \in Adopted(b, d)
                                                    THEN Rebased(b, d, x)
                                                    ELSE cumulative_work[x]]
    BY ReorgShape
<1>3. Lineage[b][d] = blocks[d] /\ d \in Nat /\ d <= top /\ d < Depth[b]
    BY <1>1, <1>2, ForkPoint
<1>4. Depth[b] \in Nat
    BY DepthFacts
<1>5. ASSUME NEW x \in Adopted(b, d) PROVE Rebased(b, d, x) \in Nat
    <2>1. x \in Block /\ Number[x] \in (d + 1)..Depth[b] /\ Lineage[b][Number[x]] = x
        BY <1>1, <1>2, MovedBlocks
    <2>2. Number[x] \in 0..Depth[b] /\ d \in 0..Number[x]
        BY <2>1, <1>3, <1>4
    <2>3. Depth[x] = Number[x] /\ Lineage[x][d] = Lineage[b][d]
        BY <2>1, <2>2, LineagePrefix DEF WellNumbered
    <2>4. TotalWork[blocks[d]] <= TotalWork[x]
        BY <2>1, <2>2, <2>3, <1>3, WorkGrows
    <2>5. blocks[d] \in Block
        BY <1>3, TipFacts
    <2>6. /\ TotalWork[blocks[d]] \in Nat /\ TotalWork[x] \in Nat
          /\ cumulative_work[blocks[d]] \in Nat
        BY <2>1, <2>5, DepthFacts DEF WorkTyped
    <2> QED BY <2>4, <2>6 DEF Rebased
<1> QED BY <1>2, <1>5 DEF WorkTyped

LEMMA ReorgStep ==
    ASSUME WellNumbered, ChainInv, NEW b \in Block, Reorganise(b)
    PROVE  ChainInv' /\ tip_hash' = b /\ Known' = Known \cup {b}
<1>1. Chained /\ WorkTyped /\ LedgerAtTip /\ StoreMatchesMemory
    BY ChainInvParts
<1>2. /\ Chained' /\ tip_hash' = b /\ Known' = Known \cup {b}
      /\ ledger' = b /\ top' = Depth[b]
      /\ db_blocks' = db_blocks \cup {blocks'[i] : i \in 0..Depth[b]}
      /\ db_tip' = [height |-> Depth[b], hash |-> b]
      /\ \A h \in Heights :
            db_height'[h] = IF h <= Depth[b] THEN blocks'[h]
                            ELSE IF h <= top THEN NoBlock ELSE db_height[h]
    BY <1>1, ReorgChained
<1>3. WorkTyped' /\ LedgerAtTip'
    BY <1>1, <1>2, ReorgTypedWork DEF LedgerAtTip
<1>4. ASSUME NEW h \in Heights, ~(h <= top) PROVE db_height[h] = NoBlock
    BY <1>1, <1>4 DEF StoreMatchesMemory
<1>5. Depth[b] \in Nat /\ blocks'[Depth[b]] = b
    BY <1>2, DepthFacts DEF tip_hash
<1>6. b \in db_blocks'
    BY <1>2, <1>5
<1>7. StoreMatchesMemory'
    BY <1>1, <1>2, <1>4, <1>6 DEF StoreMatchesMemory
<1> QED BY <1>2, <1>3, <1>7, ChainInvParts

-----------------------------------------------------------------------------
\* The theorems.

(***************************************************************************)
(* The genesis shortcut is closed once there is a chain, so leaving        *)
(* ApplyGenesis out of Step loses no behaviour of a running node.          *)
(***************************************************************************)
LEMMA ShortcutClosed ==
    ASSUME ChainInv, NEW b \in Block PROVE ~ApplyGenesis(b)
BY DEF ApplyGenesis, FirstGenesis, ChainInv, TypeOK

(***************************************************************************)
(* Every step of the node keeps the structural invariant.                  *)
(***************************************************************************)
LEMMA NextChainInv ==
    ASSUME WellNumbered, ChainInv, [Next]_vars
    PROVE  ChainInv'
BY QuietSteps, StoreSideStep, ExtendStep, ReorgStep DEF Next, Step, Quiet

(***************************************************************************)
(* Whatever blocks arrive in whatever order, whichever database writes     *)
(* fail, the canonical Vec, its index, the side blocks, the account state  *)
(* and the records on disk describe one chain (apply_block, try_reorg).    *)
(***************************************************************************)
THEOREM ChainInvariant ==
    ASSUME WellNumbered PROVE Spec => []ChainInv
<1>1. Init => ChainInv
    BY InitChainInv
<1>2. ChainInv /\ [Next]_vars => ChainInv'
    BY NextChainInv
<1> QED BY <1>1, <1>2, PTL DEF Spec

(***************************************************************************)
(* Type correctness: no operation leaves a field or a record malformed.    *)
(***************************************************************************)
THEOREM TypeCorrect ==
    ASSUME WellNumbered PROVE Spec => []TypeOK
BY ChainInvariant, PTL DEF ChainInv

(***************************************************************************)
(* The canonical Vec is always the path from genesis to the tip and        *)
(* canon_index its inverse.                                                *)
(***************************************************************************)
THEOREM CanonicalPathHolds ==
    ASSUME WellNumbered PROVE Spec => []CanonicalPath
BY ChainInvariant, PTL DEF ChainInv

(***************************************************************************)
(* Side blocks are never canonical and never cut off from the chain, and   *)
(* the duplicate filter holds exactly what is integrated.                  *)
(***************************************************************************)
THEOREM SideBranchesHold ==
    ASSUME WellNumbered PROVE Spec => []SideBranches
BY ChainInvariant, PTL DEF ChainInv

(***************************************************************************)
(* Balances and nonces are always those after the tip.                     *)
(***************************************************************************)
THEOREM LedgerAtTipHolds ==
    ASSUME WellNumbered PROVE Spec => []LedgerAtTip
BY ChainInvariant, PTL DEF ChainInv

(***************************************************************************)
(* The canonical records on disk are always those of the chain in memory.  *)
(***************************************************************************)
THEOREM StoreMatchesMemoryHolds ==
    ASSUME WellNumbered PROVE Spec => []StoreMatchesMemory
BY ChainInvariant, PTL DEF ChainInv

-----------------------------------------------------------------------------
\* Recorded work.

(***************************************************************************)
(* No chain has work zero, so a recorded zero always means "not recorded". *)
(***************************************************************************)
LEMMA WorkPositive ==
    ASSUME NEW b \in Block PROVE TotalWork[b] \in Nat /\ TotalWork[b] # 0
<1>1. Work[b] \in Nat /\ Work[b] >= 1 /\ TotalWork[b] \in Nat
    BY DepthFacts
<1>2. CASE b = Genesis
    BY <1>1, <1>2, TotalWorkAssumption DEF TotalWorkAssumption
<1>3. CASE b # Genesis
    <2>1. Parent[b] \in Block /\ TotalWork[b] = TotalWork[Parent[b]] + Work[b]
        BY <1>3, ParentFacts
    <2>2. TotalWork[Parent[b]] \in Nat
        BY <2>1, DepthFacts
    <2> QED BY <1>1, <2>1, <2>2
<1> QED BY <1>2, <1>3

(***************************************************************************)
(* Where the recorded work is exact, the two sides of the comparison in    *)
(* apply_block are the work of the candidate's chain and of the tip's.     *)
(***************************************************************************)
LEMMA CandidateExact ==
    ASSUME Chained, WorkIsExact, NEW b \in Block, WellFormed(b), ParentKnown(b)
    PROVE  candidate_cw(b) = TotalWork[b] /\ tip_cw = TotalWork[tip_hash]
<1>1. b # Genesis /\ Parent[b] \in Known
    BY AcceptedBlock
<1>2. TotalWork[b] = TotalWork[Parent[b]] + Work[b]
    BY <1>1, ParentFacts
<1>3. cumulative_work[Parent[b]] = TotalWork[Parent[b]]
    BY <1>1 DEF WorkIsExact
<1>4. tip_hash \in Known
    BY TipFacts DEF Known
<1> QED BY <1>2, <1>3, <1>4 DEF candidate_cw, tip_cw, WorkIsExact

(***************************************************************************)
(* The steps that integrate no block: neither the known blocks nor the tip *)
(* nor a recorded work changes.                                            *)
(***************************************************************************)
LEMMA QuietWork ==
    ASSUME \/ \E b \in Block : Reject(b) \/ RejectUnpersisted(b) \/ StoreOrphan(b) \/ Submit(b)
           \/ Return \/ Tick \/ UNCHANGED vars
    PROVE  Known' = Known /\ tip_hash' = tip_hash /\ UNCHANGED cumulative_work
<1>1. UNCHANGED <<blocks, top, canon_index, side_blocks, cumulative_work>>
    BY DEF Reject, RejectUnpersisted, StoreOrphan, Submit, Return, Tick, vars, memVars
<1> QED BY <1>1 DEF Known, Canon, tip_hash

(***************************************************************************)
(* A reorganisation records the exact work of every block it adopts,       *)
(* starting from that of the common ancestor.                              *)
(***************************************************************************)
LEMMA ReorgWork ==
    ASSUME WellNumbered, Chained, WorkIsExact, NEW b \in Block, Reorganise(b)
    PROVE  WorkIsExact'
<1>1. b \notin Known /\ b \notin Canon
    BY AcceptedBlock DEF Reorganise, OnSideBranch
<1>2. PICK d \in 0..Depth[b] :
        /\ ForksAt(b, side_blocks \cup {b}, d)
        /\ cumulative_work' = [x \in Block |-> IF x \in Adopted(b, d)
                                              THEN Rebased(b, d, x)
                                              ELSE cumulative_work[x]]
    BY ReorgShape
<1>3. d \in Nat /\ d <= top
    BY <1>1, <1>2, ForkPoint
<1>4. blocks[d] \in Known /\ blocks[d] \in Block
    BY <1>3, TipFacts DEF Known
<1>5. cumulative_work[blocks[d]] = TotalWork[blocks[d]]
    BY <1>4 DEF WorkIsExact
<1>6. TotalWork[blocks[d]] \in Nat /\ TotalWork[blocks[d]] # 0
    BY <1>4, WorkPositive
<1>7. \A x \in Adopted(b, d) : x \in Block
    BY <1>1, <1>2, MovedBlocks
<1>8. ASSUME NEW x \in Adopted(b, d) PROVE Rebased(b, d, x) = TotalWork[x]
    <2>1. TotalWork[x] \in Nat
        BY <1>7, DepthFacts
    <2> QED BY <2>1, <1>5, <1>6 DEF Rebased
<1>9. b \in Adopted(b, d)
    BY <1>1, <1>2, MovedBlocks
<1>10. Known' = Known \cup {b} /\ Known \subseteq Block
    BY ReorgChained, TipFacts
<1>11. ASSUME NEW x \in Known' PROVE cumulative_work'[x] = TotalWork[x]
    <2>1. x \in Block
        BY <1>10
    <2>2. CASE x \in Adopted(b, d)
        BY <2>1, <2>2, <1>2, <1>8
    <2>3. CASE x \notin Adopted(b, d)
        <3>1. x \in Known
            BY <2>3, <1>9, <1>10
        <3> QED BY <3>1, <2>1, <2>3, <1>2 DEF WorkIsExact
    <2> QED BY <2>2, <2>3
<1> QED BY <1>11 DEF WorkIsExact

(***************************************************************************)
(* Both lanes record the exact work of the block they integrate.           *)
(***************************************************************************)
LEMMA LaneWork ==
    ASSUME WellNumbered, Chained, WorkTyped, WorkIsExact, NEW b \in Block,
           ExtendCanonical(b) \/ StoreSide(b)
    PROVE  WorkIsExact'
<1>1. WellFormed(b) /\ ParentKnown(b)
    BY DEF ExtendCanonical, StoreSide, OnSideBranch
<1>2. candidate_cw(b) = TotalWork[b]
    BY <1>1, CandidateExact
<1>3. cumulative_work' = [cumulative_work EXCEPT ![b] = candidate_cw(b)]
    BY DEF ExtendCanonical, push_canonical, StoreSide
<1>4. Known' = Known \cup {b} /\ Known \subseteq Block
    BY ExtendChained, SideChained, TipFacts
<1>5. cumulative_work \in [Block -> Nat]
    BY DEF WorkTyped
<1> QED BY <1>2, <1>3, <1>4, <1>5 DEF WorkIsExact

(***************************************************************************)
(* Every step keeps the recorded work exact.                               *)
(***************************************************************************)
LEMMA NextWork ==
    ASSUME WellNumbered, ChainInv, WorkIsExact, [Next]_vars
    PROVE  WorkIsExact'
<1> Chained /\ WorkTyped
    BY ChainInvParts
<1>1. ASSUME NEW b \in Block, ExtendCanonical(b) \/ StoreSide(b) PROVE WorkIsExact'
    BY <1>1, LaneWork
<1>2. ASSUME NEW b \in Block, Reorganise(b) PROVE WorkIsExact'
    BY <1>2, ReorgWork
<1>3. ASSUME \/ \E b \in Block : Reject(b) \/ RejectUnpersisted(b) \/ StoreOrphan(b) \/ Submit(b)
             \/ Return \/ Tick \/ UNCHANGED vars
      PROVE  WorkIsExact'
    BY <1>3, QuietWork DEF WorkIsExact
<1> QED BY <1>1, <1>2, <1>3 DEF Next, Step

(***************************************************************************)
(* A chain loaded back from disk starts with the exact work of genesis.    *)
(***************************************************************************)
LEMMA InitWork ==
    ASSUME Fresh = FALSE, Init PROVE WorkIsExact
<1>1. Known = {Genesis}
    BY GenesisFacts DEF Init, Known, Canon, NoHeight
<1>2. cumulative_work[Genesis] = TotalWork[Genesis]
    BY GenesisFacts, TotalWorkAssumption DEF Init, TotalWorkAssumption
<1> QED BY <1>1, <1>2 DEF WorkIsExact

(***************************************************************************)
(* The recorded cumulative work of every known block is always the work of *)
(* its chain, whichever lane or reorganisation recorded it (apply_block    *)
(* stage 7, try_reorg).                                                    *)
(***************************************************************************)
THEOREM WorkIsExactHolds ==
    ASSUME WellNumbered, Fresh = FALSE PROVE Spec => []WorkIsExact
<1>1. Init => ChainInv /\ WorkIsExact
    BY InitChainInv, InitWork
<1>2. ChainInv /\ WorkIsExact /\ [Next]_vars => (ChainInv /\ WorkIsExact)'
    BY NextChainInv, NextWork
<1> QED BY <1>1, <1>2, PTL DEF Spec

-----------------------------------------------------------------------------
\* Fork choice.

(***************************************************************************)
(* Every step of the node is a step of the abstract fork choice or leaves  *)
(* known blocks, tip and failures alone.                                   *)
(***************************************************************************)
LEMMA StepRefines ==
    ASSUME WellNumbered, ChainInv, WorkIsExact, [Next]_vars
    PROVE  [FC!Next]_<<Known, tip_hash, faults>>
<1> Chained
    BY ChainInvParts
<1>1. ASSUME NEW b \in Block, ExtendCanonical(b) PROVE FC!Next
    <2>1. b # Genesis /\ b \notin Known /\ Parent[b] \in Known
        BY <1>1, AcceptedBlock DEF ExtendCanonical
    <2>2. Known' = Known \cup {b} /\ tip_hash' = b
        BY <1>1, ExtendStep
    <2>3. TotalWork[b] > TotalWork[tip_hash]
        <3>1. TotalWork[b] = TotalWork[tip_hash] + Work[b] /\ tip_hash \in Block
            BY <1>1, <2>1, ParentFacts, TipFacts DEF ExtendCanonical
        <3> QED BY <3>1, DepthFacts
    <2>4. faults' \in {faults, faults + 1}
        BY <1>1 DEF ExtendCanonical, maybe_save_snapshot
    <2>5. FC!Learn(b)
        BY <2>1, <2>2, <2>3, <2>4 DEF FC!Learn
    <2> QED BY <2>1, <2>5 DEF FC!Next
<1>2. ASSUME NEW b \in Block, StoreSide(b) PROVE FC!Next
    <2>1. /\ b # Genesis /\ b \notin Known /\ Parent[b] \in Known
          /\ candidate_cw(b) = TotalWork[b] /\ tip_cw = TotalWork[tip_hash]
        BY <1>2, AcceptedBlock, CandidateExact DEF StoreSide, OnSideBranch
    <2>2. Known' = Known \cup {b} /\ tip_hash' = tip_hash
        BY <1>2, StoreSideStep
    <2>3. TotalWork[b] \in Nat /\ TotalWork[tip_hash] \in Nat
        BY DepthFacts, TipFacts
    <2>4. CASE candidate_cw(b) <= tip_cw /\ UNCHANGED faults
        <3>1. ~(TotalWork[b] > TotalWork[tip_hash])
            BY <2>1, <2>3, <2>4
        <3>2. FC!Learn(b)
            BY <2>1, <2>2, <2>4, <3>1 DEF FC!Learn
        <3> QED BY <2>1, <3>2 DEF FC!Next
    <2>5. CASE candidate_cw(b) > tip_cw /\ faults' = faults + 1
        <3>1. FC!Shelve(b)
            BY <2>1, <2>2, <2>5 DEF FC!Shelve
        <3> QED BY <2>1, <3>1 DEF FC!Next
    <2> QED BY <1>2, <2>4, <2>5 DEF StoreSide
<1>3. ASSUME NEW b \in Block, Reorganise(b) PROVE FC!Next
    <2>1. /\ b # Genesis /\ b \notin Known /\ Parent[b] \in Known
          /\ candidate_cw(b) = TotalWork[b] /\ tip_cw = TotalWork[tip_hash]
        BY <1>3, AcceptedBlock, CandidateExact DEF Reorganise, OnSideBranch
    <2>2. Known' = Known \cup {b} /\ tip_hash' = b
        BY <1>3, ReorgStep
    <2>3. candidate_cw(b) > tip_cw /\ UNCHANGED faults
        BY <1>3 DEF Reorganise
    <2>4. FC!Learn(b)
        BY <2>1, <2>2, <2>3 DEF FC!Learn
    <2> QED BY <2>1, <2>4 DEF FC!Next
<1>4. ASSUME NEW b \in Block, RejectUnpersisted(b) PROVE FC!Next
    <2>1. Known' = Known /\ tip_hash' = tip_hash /\ faults' = faults + 1
        BY <1>4, QuietWork DEF RejectUnpersisted
    <2> QED BY <2>1 DEF FC!Next, FC!Lose
<1>5. ASSUME \/ \E b \in Block : Reject(b) \/ StoreOrphan(b) \/ Submit(b)
             \/ Return \/ Tick \/ UNCHANGED vars
      PROVE  UNCHANGED <<Known, tip_hash, faults>>
    <2>1. Known' = Known /\ tip_hash' = tip_hash
        BY <1>5, QuietWork
    <2>2. UNCHANGED faults
        BY <1>5 DEF Reject, StoreOrphan, Submit, Return, Tick, vars
    <2> QED BY <2>1, <2>2
<1> QED BY <1>1, <1>2, <1>3, <1>4, <1>5 DEF Next, Step

(***************************************************************************)
(* apply_block, with its lanes, orphans, side blocks and reorganisations,  *)
(* implements the abstract fork choice: blocks are learned one at a time   *)
(* after their parents, and the tip moves exactly to a block whose chain   *)
(* has strictly more work, but for moves a failed write prevents.          *)
(***************************************************************************)
THEOREM ForkChoiceRefined ==
    ASSUME WellNumbered, Fresh = FALSE PROVE Spec => ImplementsForkChoice
<1>1. Init => ChainInv /\ WorkIsExact
    BY InitChainInv, InitWork
<1>2. ChainInv /\ WorkIsExact /\ [Next]_vars => (ChainInv /\ WorkIsExact)'
    BY NextChainInv, NextWork
<1>3. Init => FC!Init
    <2>1. ASSUME Init PROVE Known = {Genesis} /\ tip_hash = Genesis /\ faults = 0
        BY <2>1, GenesisFacts DEF Init, Known, Canon, NoHeight, tip_hash
    <2> QED BY <2>1 DEF FC!Init
<1>4. ChainInv /\ WorkIsExact /\ [Next]_vars => [FC!Next]_<<Known, tip_hash, faults>>
    BY StepRefines
<1> QED BY <1>1, <1>2, <1>3, <1>4, PTL DEF Spec, ImplementsForkChoice, FC!Spec

(***************************************************************************)
(* An abstract step keeps the tip the heaviest of the known blocks as long *)
(* as no write has failed.                                                 *)
(***************************************************************************)
LEMMA HeaviestKept ==
    ASSUME ChainInv, TipHasMostWork, [FC!Next]_<<Known, tip_hash, faults>>
    PROVE  TipHasMostWork'
<1> Chained
    BY ChainInvParts
<1>0. faults \in Nat /\ Known \subseteq Block /\ tip_hash \in Block
    BY TipFacts DEF ChainInv, TypeOK
<1>1. \A x \in Block : TotalWork[x] \in Nat
    BY DepthFacts
<1>2. CASE UNCHANGED <<Known, tip_hash, faults>>
    BY <1>2 DEF TipHasMostWork
<1>3. CASE FC!Lose
    BY <1>0, <1>3 DEF FC!Lose, TipHasMostWork
<1>4. ASSUME NEW b \in Block, FC!Shelve(b) PROVE TipHasMostWork'
    BY <1>0, <1>4 DEF FC!Shelve, TipHasMostWork
<1>5. ASSUME NEW b \in Block, FC!Learn(b) PROVE TipHasMostWork'
    <2>1. SUFFICES ASSUME faults' = 0, NEW x \in Known'
                   PROVE  TotalWork[x] <= TotalWork[tip_hash']
        BY DEF TipHasMostWork
    <2>2. faults = 0 /\ Known' = Known \cup {b}
        BY <1>0, <1>5, <2>1 DEF FC!Learn
    <2>3. tip_hash' = IF TotalWork[b] > TotalWork[tip_hash] THEN b ELSE tip_hash
        BY <1>5 DEF FC!Learn
    <2>4. x \in Known => TotalWork[x] <= TotalWork[tip_hash]
        BY <2>2 DEF TipHasMostWork
    <2>5. x \in Block
        BY <1>0, <2>1, <2>2
    <2> QED BY <2>2, <2>3, <2>4, <2>5, <1>0, <1>1
<1> QED BY <1>2, <1>3, <1>4, <1>5 DEF FC!Next

(***************************************************************************)
(* No known block ends a chain of more work than the tip's unless a        *)
(* database write failed, in whatever order the blocks came.               *)
(***************************************************************************)
THEOREM TipHasMostWorkHolds ==
    ASSUME WellNumbered, Fresh = FALSE PROVE Spec => []TipHasMostWork
<1> DEFINE I == ChainInv /\ WorkIsExact /\ TipHasMostWork
<1>1. Init => I
    <2>1. ASSUME Init PROVE TipHasMostWork
        <3>1. Known = {Genesis} /\ tip_hash = Genesis
            BY <2>1, GenesisFacts DEF Init, Known, Canon, NoHeight, tip_hash
        <3>2. TotalWork[Genesis] \in Nat
            BY GenesisFacts, DepthFacts
        <3> QED BY <3>1, <3>2 DEF TipHasMostWork
    <2> QED BY <2>1, InitChainInv, InitWork
<1>2. I /\ [Next]_vars => I'
    BY NextChainInv, NextWork, StepRefines, HeaviestKept
<1> QED BY <1>1, <1>2, PTL DEF Spec

-----------------------------------------------------------------------------
\* The orphan pool.

(***************************************************************************)
(* The places of a pool: an entry of the Vec of some parent.               *)
(***************************************************************************)
LEMMA PooledPlaces ==
    ASSUME NEW pool \in [Block -> Seq(Orphan)]
    PROVE  \A e : e \in Pooled(pool) <=>
              \E p \in Block : \E i \in 1..Len(pool[p]) : e = <<p, i>>
<1>1. \A p \in Block : pool[p] \in Seq(Orphan)
    OBVIOUS
<1>2. \A p \in Block : Len(pool[p]) \in Nat /\ DOMAIN pool[p] = 1..Len(pool[p])
    BY <1>1
<1> QED BY <1>2 DEF Pooled

(***************************************************************************)
(* Evicting one entry gives up exactly one place: the last of its Vec.     *)
(***************************************************************************)
LEMMA PooledEvict ==
    ASSUME NEW pool \in [Block -> Seq(Orphan)], NEW p \in Block, NEW i \in DOMAIN pool[p]
    PROVE  /\ [pool EXCEPT ![p] = RemoveAt(@, i)] \in [Block -> Seq(Orphan)]
           /\ Pooled([pool EXCEPT ![p] = RemoveAt(@, i)]) = Pooled(pool) \ {<<p, Len(pool[p])>>}
           /\ <<p, Len(pool[p])>> \in Pooled(pool)
<1> DEFINE s == RemoveAt(pool[p], i)
           new == [pool EXCEPT ![p] = s]
<1>1. pool[p] \in Seq(Orphan) /\ Len(pool[p]) \in Nat /\ DOMAIN pool[p] = 1..Len(pool[p])
    OBVIOUS
<1>2. s \in Seq(Orphan) /\ Len(s) = Len(pool[p]) - 1
    BY <1>1, RemoveAtFacts
<1>3. i \in 1..Len(pool[p]) /\ Len(pool[p]) \in 1..Len(pool[p])
    BY <1>1
<1> HIDE DEF s
<1>4. new \in [Block -> Seq(Orphan)] /\ new[p] = s /\ \A q \in Block : q # p => new[q] = pool[q]
    BY <1>2
<1> HIDE DEF new
<1>a. \A e : e \in Pooled(new) <=> \E q \in Block : \E j \in 1..Len(new[q]) : e = <<q, j>>
    BY <1>4, PooledPlaces
<1>5. ASSUME NEW e
      PROVE  e \in Pooled(new) <=> e \in Pooled(pool) /\ e # <<p, Len(pool[p])>>
    <2>0. Len(new[p]) = Len(pool[p]) - 1 /\ \A q \in Block : q # p => Len(new[q]) = Len(pool[q])
        BY <1>2, <1>4
    <2>1. ASSUME NEW q \in Block, NEW j
          PROVE  j \in 1..Len(new[q]) <=> j \in 1..Len(pool[q]) /\ ~(q = p /\ j = Len(pool[p]))
        <3>1. CASE q = p
            <4>1. PICK n \in Nat : n = Len(pool[p])
                BY <1>1
            <4>2. j \in 1..(n - 1) <=> j \in 1..n /\ j # n
                OBVIOUS
            <4> QED BY <3>1, <4>1, <4>2, <2>0
        <3>2. CASE q # p
            BY <3>2, <2>0
        <3> QED BY <3>1, <3>2
    <2>2. e \in Pooled(new) <=>
             \E q \in Block : \E j \in 1..Len(pool[q]) :
                e = <<q, j>> /\ ~(q = p /\ j = Len(pool[p]))
        BY <1>a, <2>1, Zenon
    <2>3. e \in Pooled(pool) <=> \E q \in Block : \E j \in 1..Len(pool[q]) : e = <<q, j>>
        BY PooledPlaces
    <2> QED BY <2>2, <2>3
<1>6. Pooled(new) = Pooled(pool) \ {<<p, Len(pool[p])>>}
    BY <1>5
<1>7. <<p, Len(pool[p])>> \in Pooled(pool)
    BY <1>3, PooledPlaces
<1> QED BY <1>4, <1>6, <1>7 DEF new, s

(***************************************************************************)
(* Appending an entry takes one new place.                                 *)
(***************************************************************************)
LEMMA PooledAppend ==
    ASSUME NEW pool \in [Block -> Seq(Orphan)], NEW p \in Block, NEW o \in Orphan
    PROVE  Pooled([pool EXCEPT ![p] = Append(@, o)]) = Pooled(pool) \cup {<<p, Len(pool[p]) + 1>>}
<1> DEFINE s == Append(pool[p], o)
           new == [pool EXCEPT ![p] = s]
<1>1. pool[p] \in Seq(Orphan) /\ Len(pool[p]) \in Nat
    OBVIOUS
<1>2. s \in Seq(Orphan) /\ Len(s) = Len(pool[p]) + 1
    BY <1>1
<1> HIDE DEF s
<1>3. new \in [Block -> Seq(Orphan)] /\ new[p] = s /\ \A q \in Block : q # p => new[q] = pool[q]
    BY <1>2
<1> HIDE DEF new
<1>a. \A e : e \in Pooled(new) <=> \E q \in Block : \E j \in 1..Len(new[q]) : e = <<q, j>>
    BY <1>3, PooledPlaces
<1>4. ASSUME NEW e
      PROVE  e \in Pooled(new) <=> e \in Pooled(pool) \/ e = <<p, Len(pool[p]) + 1>>
    <2>0. Len(new[p]) = Len(pool[p]) + 1 /\ \A q \in Block : q # p => Len(new[q]) = Len(pool[q])
        BY <1>2, <1>3
    <2>1. ASSUME NEW q \in Block, NEW j
          PROVE  j \in 1..Len(new[q]) <=> j \in 1..Len(pool[q]) \/ (q = p /\ j = Len(pool[p]) + 1)
        <3>1. CASE q = p
            BY <3>1, <2>0, <1>1
        <3>2. CASE q # p
            BY <3>2, <2>0
        <3> QED BY <3>1, <3>2
    <2>3. e \in Pooled(pool) <=> \E q \in Block : \E j \in 1..Len(pool[q]) : e = <<q, j>>
        BY PooledPlaces
    <2>4. \E q \in Block : \E j \in 1..Len(new[q]) : <<p, Len(pool[p]) + 1>> = <<q, j>>
        BY <2>1
    <2>5. e \in Pooled(pool) => e \in Pooled(new)
        BY <1>a, <2>1, <2>3
    <2>6. ASSUME e \in Pooled(new) PROVE e \in Pooled(pool) \/ e = <<p, Len(pool[p]) + 1>>
        <3>0. PICK q \in Block : \E j \in 1..Len(new[q]) : e = <<q, j>>
            BY <1>a, <2>6
        <3>1. PICK j \in 1..Len(new[q]) : e = <<q, j>>
            BY <3>0
        <3>2. j \in 1..Len(pool[q]) \/ (q = p /\ j = Len(pool[p]) + 1)
            BY <2>1
        <3> QED BY <3>1, <3>2, <2>3
    <2> QED BY <1>a, <2>4, <2>5, <2>6
<1> QED BY <1>4 DEF new, s

(***************************************************************************)
(* add_orphan evicts before it inserts, so a pool within its bound stays   *)
(* within it.                                                              *)
(***************************************************************************)
LEMMA AddOrphanBound ==
    ASSUME NEW b \in Block, b # Genesis, now \in Nat,
           orphan_pool \in [Block -> Seq(Orphan)], add_orphan(b),
           IsFiniteSet(Pooled(orphan_pool)),
           Cardinality(Pooled(orphan_pool)) <= OrphanPoolMax
    PROVE  /\ IsFiniteSet(Pooled(orphan_pool'))
           /\ Cardinality(Pooled(orphan_pool')) <= OrphanPoolMax
<1>1. PICK pool \in prune_old_orphans(orphan_pool) :
        orphan_pool' = [pool EXCEPT ![Parent[b]] = Append(@, [blk |-> b, at |-> now])]
    BY DEF add_orphan
<1>2. OrphanPoolMax \in Nat /\ OrphanPoolMax >= 1 /\ Cardinality(Pooled(orphan_pool)) \in Nat
    BY BoundAssumption, FS_CardinalityType DEF BoundAssumption
<1>3. /\ pool \in [Block -> Seq(Orphan)]
      /\ IsFiniteSet(Pooled(pool)) /\ Cardinality(Pooled(pool)) < OrphanPoolMax
    <2>1. CASE Cardinality(Pooled(orphan_pool)) < OrphanPoolMax
        BY <2>1, <1>1 DEF prune_old_orphans
    <2>2. CASE ~(Cardinality(Pooled(orphan_pool)) < OrphanPoolMax)
        <3>1. PICK e \in Oldest(orphan_pool) :
                 pool = [orphan_pool EXCEPT ![e[1]] = RemoveAt(@, e[2])]
            BY <2>2, <1>1 DEF prune_old_orphans
        <3>2. e[1] \in Block /\ e[2] \in DOMAIN orphan_pool[e[1]]
            BY <3>1 DEF Oldest, Pooled
        <3> DEFINE last == <<e[1], Len(orphan_pool[e[1]])>>
        <3>3. /\ pool \in [Block -> Seq(Orphan)]
              /\ Pooled(pool) = Pooled(orphan_pool) \ {last}
              /\ last \in Pooled(orphan_pool)
            BY <3>1, <3>2, PooledEvict
        <3> HIDE DEF last
        <3>4. /\ IsFiniteSet(Pooled(pool))
              /\ Cardinality(Pooled(pool)) = Cardinality(Pooled(orphan_pool)) - 1
            BY <3>3, FS_RemoveElement
        <3> QED BY <3>3, <3>4, <1>2
    <2> QED BY <2>1, <2>2
<1>4. Parent[b] \in Block /\ [blk |-> b, at |-> now] \in Orphan
    BY ParentFacts DEF Orphan
<1> DEFINE place == <<Parent[b], Len(pool[Parent[b]]) + 1>>
<1>5. Pooled(orphan_pool') = Pooled(pool) \cup {place}
    BY <1>1, <1>3, <1>4, PooledAppend
<1> HIDE DEF place
<1>6. /\ IsFiniteSet(Pooled(orphan_pool'))
      /\ Cardinality(Pooled(orphan_pool')) <= Cardinality(Pooled(pool)) + 1
    <2>1. Cardinality(Pooled(pool)) \in Nat
        BY <1>3, FS_CardinalityType
    <2>2. /\ IsFiniteSet(Pooled(pool) \cup {place})
          /\ \/ Cardinality(Pooled(pool) \cup {place}) = Cardinality(Pooled(pool))
             \/ Cardinality(Pooled(pool) \cup {place}) = Cardinality(Pooled(pool)) + 1
        BY <1>3, FS_AddElement
    <2> QED BY <2>1, <2>2, <1>5
<1> QED BY <1>2, <1>3, <1>6, FS_CardinalityType

(***************************************************************************)
(* OrphansWait with what its induction needs: a cardinality means          *)
(* something only of a finite pool.                                        *)
(***************************************************************************)
PoolInv == IsFiniteSet(Pooled(orphan_pool)) /\ OrphansWait

(***************************************************************************)
(* Integrating b takes b's orphans out of the pool and adds b alone to the *)
(* known blocks, so what still waits has an unknown parent.                *)
(***************************************************************************)
LEMMA PromotionKeepsPool ==
    ASSUME TypeOK, PoolInv, NEW b \in Block, process_orphans(b), Known' = Known \cup {b}
    PROVE  PoolInv'
<1>1. orphan_pool \in [Block -> Seq(Orphan)]
    BY DEF TypeOK
<1>2. orphan_pool' = [orphan_pool EXCEPT ![b] = <<>>]
    BY DEF process_orphans
<1>3. /\ \A p \in Block : p # b => orphan_pool'[p] = orphan_pool[p]
      /\ DOMAIN orphan_pool'[b] = {}
    BY <1>1, <1>2
<1>4. Pooled(orphan_pool') \subseteq Pooled(orphan_pool)
    BY <1>3 DEF Pooled
<1>5. /\ IsFiniteSet(Pooled(orphan_pool'))
      /\ Cardinality(Pooled(orphan_pool')) <= Cardinality(Pooled(orphan_pool))
    BY <1>4, FS_Subset DEF PoolInv
<1>6. OrphanPoolMax \in Nat /\ Cardinality(Pooled(orphan_pool)) \in Nat
      /\ Cardinality(Pooled(orphan_pool')) \in Nat
    BY <1>5, BoundAssumption, FS_CardinalityType DEF BoundAssumption, PoolInv
<1>7. Cardinality(Pooled(orphan_pool')) <= OrphanPoolMax
    BY <1>5, <1>6 DEF PoolInv, OrphansWait
<1>8. ASSUME NEW p \in Block, NEW i \in DOMAIN orphan_pool'[p]
      PROVE  Parent[orphan_pool'[p][i].blk] = p /\ p \notin Known'
    <2>1. p # b
        BY <1>3
    <2>2. orphan_pool'[p] = orphan_pool[p]
        BY <2>1, <1>3
    <2> QED BY <2>1, <2>2 DEF PoolInv, OrphansWait
<1> QED BY <1>5, <1>7, <1>8 DEF PoolInv, OrphansWait

(***************************************************************************)
(* A block goes to the pool only when its parent is unknown.               *)
(***************************************************************************)
LEMMA StoreOrphanKeepsPool ==
    ASSUME TypeOK, PoolInv, NEW b \in Block, StoreOrphan(b)
    PROVE  PoolInv'
<1>1. b # Genesis /\ Parent[b] \notin Known /\ add_orphan(b)
    BY GenesisFacts DEF StoreOrphan, ParentKnown
<1>2. Known' = Known
    BY DEF StoreOrphan, Known, Canon
<1>3. now \in Nat /\ orphan_pool \in [Block -> Seq(Orphan)]
    BY DEF TypeOK
<1>4. /\ IsFiniteSet(Pooled(orphan_pool'))
      /\ Cardinality(Pooled(orphan_pool')) <= OrphanPoolMax
    BY <1>1, <1>3, AddOrphanBound DEF PoolInv, OrphansWait
<1>5. ASSUME NEW p \in Block, NEW i \in DOMAIN orphan_pool'[p]
      PROVE  Parent[orphan_pool'[p][i].blk] = p /\ p \notin Known'
    <2>1. \/ \E k \in DOMAIN orphan_pool[p] : orphan_pool'[p][i] = orphan_pool[p][k]
          \/ p = Parent[b] /\ orphan_pool'[p][i].blk = b
        BY <1>1, <1>3, AddOrphanFacts
    <2> QED BY <2>1, <1>1, <1>2 DEF PoolInv, OrphansWait
<1> QED BY <1>4, <1>5 DEF PoolInv, OrphansWait

(***************************************************************************)
(* Every step keeps the pool's invariant.                                  *)
(***************************************************************************)
LEMMA NextPool ==
    ASSUME WellNumbered, ChainInv, PoolInv, [Next]_vars
    PROVE  PoolInv'
<1> Chained
    BY ChainInvParts
<1>0. TypeOK
    BY DEF ChainInv
<1>1. ASSUME NEW b \in Block, ExtendCanonical(b) \/ StoreSide(b) \/ Reorganise(b)
      PROVE  PoolInv'
    <2>1. process_orphans(b)
        BY <1>1 DEF ExtendCanonical, StoreSide, Reorganise
    <2>2. Known' = Known \cup {b}
        BY <1>1, ExtendStep, StoreSideStep, ReorgStep
    <2> QED BY <2>1, <2>2, <1>0, PromotionKeepsPool
<1>2. ASSUME NEW b \in Block, StoreOrphan(b) PROVE PoolInv'
    BY <1>0, <1>2, StoreOrphanKeepsPool
<1>3. ASSUME \/ \E b \in Block : Reject(b) \/ RejectUnpersisted(b) \/ Submit(b)
             \/ Return \/ Tick \/ UNCHANGED vars
      PROVE  PoolInv'
    <2>1. Known' = Known
        BY <1>3, QuietWork
    <2>2. UNCHANGED orphan_pool
        BY <1>3 DEF Reject, RejectUnpersisted, Submit, Return, Tick, vars, memVars
    <2> QED BY <2>1, <2>2 DEF PoolInv, OrphansWait
<1> QED BY <1>1, <1>2, <1>3 DEF Next, Step

(***************************************************************************)
(* A block waits in the pool only for a parent that is really unknown, and *)
(* the pool never exceeds ORPHAN_POOL_MAX (add_orphan, process_orphans).   *)
(***************************************************************************)
THEOREM OrphansWaitHolds ==
    ASSUME WellNumbered PROVE Spec => []OrphansWait
<1>1. Init => ChainInv /\ PoolInv
    <2>1. ASSUME Init PROVE PoolInv
        <3>1. \A p \in Block : orphan_pool[p] = <<>>
            BY <2>1 DEF Init
        <3>2. Pooled(orphan_pool) = {}
            BY <3>1 DEF Pooled
        <3>3. IsFiniteSet({}) /\ Cardinality({}) = 0
            BY FS_EmptySet
        <3>4. 0 <= OrphanPoolMax
            BY BoundAssumption DEF BoundAssumption
        <3> QED BY <3>1, <3>2, <3>3, <3>4 DEF PoolInv, OrphansWait
    <2> QED BY <2>1, InitChainInv
<1>2. ChainInv /\ PoolInv /\ [Next]_vars => (ChainInv /\ PoolInv)'
    BY NextChainInv, NextPool
<1>3. PoolInv => OrphansWait
    BY DEF PoolInv
<1> QED BY <1>1, <1>2, <1>3, PTL DEF Spec
=============================================================================
