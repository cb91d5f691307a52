----------------------------- MODULE ChainState -----------------------------
(***************************************************************************)
(* The in-memory chain of one node and the canonical records it keeps in   *)
(* sled: apply_block with its two integration lanes, the orphan pool, the  *)
(* reorganisation and the storage writes each of them makes.               *)
(*                                                                         *)
(* A block is identified with its hash.  What its header fixes for good    *)
(* is given by constants: Parent, Number, Work (the difficulty), its       *)
(* transactions, and whether a check that does not depend on the node's    *)
(* state fails.  Depth, Lineage and TotalWork are functions of Parent and  *)
(* Work, given as constants so that no definition recurses.  The account   *)
(* state (balances and nonces) is the identity of the block it results     *)
(* from: every block pays a reward, so no two blocks leave the same state. *)
(*                                                                         *)
(* apply_block runs under the chain lock and calls itself through          *)
(* process_orphans, depth first.  `work' is that recursion: the blocks     *)
(* still to be applied before the outermost call returns.                  *)
(***************************************************************************)
EXTENDS Integers, FiniteSets, SequencesExt

CONSTANTS
    Block,         \* every block hash that can reach the node
    Genesis,       \* genesis::GENESIS_HASH
    NoBlock,       \* an absent hash
    Parent,        \* header.parent_hash
    Number,        \* header.number
    Work,          \* header.difficulty
    Depth,         \* distance from genesis along Parent
    Lineage,       \* Lineage[b][i]: the ancestor of b at depth i
    TotalWork,     \* work of b and of all its ancestors
    Tx,            \* transaction ids
    Txs,           \* the non-coinbase transactions of a block
    Malformed,     \* blocks failing weight, tx_root or coinbase shape (stage 1)
    Invalid,       \* blocks failing a check against their parent (stages 3 to 6)
    ReadyAt,       \* first clock value at which the future guard lets b through
    OrphanPoolMax, \* ORPHAN_POOL_MAX
    SnapshotEvery, \* SNAPSHOT_EVERY
    Fresh,         \* TRUE: bootstrap_chain has just written genesis;
                   \* FALSE: genesis was loaded back from disk
    MaxNow,        \* bound on the clock
    MaxFaults      \* bound on failing database writes

Heights == {Number[b] : b \in Block}

ASSUME BlockAssumption ==
    /\ Genesis \in Block /\ NoBlock \notin Block
    /\ Parent \in [Block \ {Genesis} -> Block]
    /\ Number \in [Block -> Nat] /\ Number[Genesis] = 0
    /\ Work \in [Block -> Nat \ {0}]
    /\ Txs \in [Block -> SUBSET Tx]
    /\ ReadyAt \in [Block -> Nat]
    /\ Malformed \subseteq Block \ {Genesis} /\ Invalid \subseteq Block \ {Genesis}

ASSUME LineageAssumption ==
    /\ Depth \in [Block -> Nat] /\ Depth[Genesis] = 0
    /\ \A b \in Block : Lineage[b] \in [0..Depth[b] -> Block] /\ Lineage[b][Depth[b]] = b
    /\ \A b \in Block \ {Genesis} :
          /\ Depth[b] = Depth[Parent[b]] + 1
          /\ \A i \in 0..Depth[Parent[b]] : Lineage[b][i] = Lineage[Parent[b]][i]

ASSUME TotalWorkAssumption ==
    /\ TotalWork \in [Block -> Nat] /\ TotalWork[Genesis] = Work[Genesis]
    /\ \A b \in Block \ {Genesis} : TotalWork[b] = TotalWork[Parent[b]] + Work[b]

ASSUME BoundAssumption ==
    /\ OrphanPoolMax \in Nat \ {0} /\ SnapshotEvery \in Nat \ {0}
    /\ Fresh \in BOOLEAN /\ MaxNow \in Nat /\ MaxFaults \in Nat

(***************************************************************************)
(* Every header numbers its block one above its parent.  apply_block never *)
(* compares the two numbers, so this is a property of the blocks offered   *)
(* to the node and not of the code.                                        *)
(***************************************************************************)
WellNumbered == \A b \in Block : Number[b] = Depth[b]

VARIABLES
    \* ChainState fields
    blocks,                 \* the canonical Vec, a function on 0..top
    top,                    \* its last index
    canon_index,            \* hash -> height, NoHeight when absent
    side_blocks,            \* known blocks off the canonical chain
    seen_blocks,            \* the duplicate filter
    cumulative_work,        \* hash -> recorded work, 0 when absent
    orphan_pool,            \* parent hash -> Vec of (block, arrival)
    ledger,                 \* the block whose post-state balances and nonces hold
    pending_reorg_recovery, \* Option<ReorgRecovery>: {} or a singleton
    \* sled
    db_blocks,              \* block:{hash}
    db_height,              \* height:{n}
    db_tip,                 \* meta:tip_height and meta:tip_hash
    db_snap,                \* the four keys of the snapshot at a height
    \* the call in progress and the environment
    work,                   \* blocks apply_block has yet to apply
    result,                 \* what the outermost apply_block answers
    now,                    \* wall clock
    faults                  \* failed database writes so far

memVars == <<blocks, top, canon_index, side_blocks, seen_blocks, cumulative_work,
             orphan_pool, ledger, pending_reorg_recovery>>
dbVars  == <<db_blocks, db_height, db_tip, db_snap>>
vars    == <<memVars, dbVars, work, result, now, faults>>

NoHeight == -1
NoSnapshot == [balances |-> NoBlock, nonces |-> NoBlock, hash |-> NoBlock, root |-> NoBlock]
Hash == Block \cup {NoBlock}
Snapshot == [balances : Hash, nonces : Hash, hash : Hash, root : Hash]
Orphan == [blk : Block, at : Nat]
ReorgRecovery == [displaced_txs : SUBSET Tx, winning_tx_ids : SUBSET Tx]
Outcome == {"CanonExtension", "SideChain", "StoredOrphan", "Rejected"}

tip_hash == IF top < 0 THEN NoBlock ELSE blocks[top]
Canon == {b \in Block : canon_index[b] # NoHeight}
Known == Canon \cup side_blocks

-----------------------------------------------------------------------------
\* The state bootstrap leaves: a chain of one block.  The branch that writes
\* genesis for the first time enters it in blocks and canon_index only.

Init ==
    /\ blocks = [i \in 0..0 |-> Genesis]
    /\ top = 0
    /\ canon_index = [b \in Block |-> IF b = Genesis THEN 0 ELSE NoHeight]
    /\ side_blocks = {}
    /\ seen_blocks = IF Fresh THEN {} ELSE {Genesis}
    /\ cumulative_work =
          [b \in Block |-> IF b = Genesis /\ ~Fresh THEN Work[Genesis] ELSE 0]
    /\ orphan_pool = [b \in Block |-> <<>>]
    /\ ledger = Genesis
    /\ pending_reorg_recovery = {}
    /\ db_blocks = {Genesis}
    /\ db_height = [h \in Heights |-> IF h = 0 THEN Genesis ELSE NoBlock]
    /\ db_tip = [height |-> 0, hash |-> Genesis]
    /\ db_snap = [h \in Heights |-> NoSnapshot]
    /\ work = <<>>
    /\ result = "idle"
    /\ now = 0
    /\ faults = 0

-----------------------------------------------------------------------------
\* Orphans.

Pooled(pool) == UNION {{p} \X DOMAIN pool[p] : p \in Block}

\* The entries the scan may settle on: of the smallest arrival time, and the
\* first with that time in its Vec.  Which Vec comes first depends on the hashes.
Oldest(pool) ==
    {e \in Pooled(pool) :
        /\ \A f \in Pooled(pool) : pool[e[1]][e[2]].at <= pool[f[1]][f[2]].at
        /\ \A i \in 1..(e[2] - 1) : pool[e[1]][i].at # pool[e[1]][e[2]].at}

prune_old_orphans(pool) ==
    IF Cardinality(Pooled(pool)) < OrphanPoolMax
    THEN {pool}
    ELSE {[pool EXCEPT ![e[1]] = RemoveAt(@, e[2])] : e \in Oldest(pool)}

add_orphan(b) ==
    \E pool \in prune_old_orphans(orphan_pool) :
        orphan_pool' = [pool EXCEPT ![Parent[b]] = Append(@, [blk |-> b, at |-> now])]

\* Mutant: promoted blocks are not taken out of the pool.
PromoteKeeping(b) ==
    /\ UNCHANGED orphan_pool
    /\ work' = [i \in DOMAIN orphan_pool[b] |-> orphan_pool[b][i].blk] \o Tail(work)

\* Mutant: the entries are promoted with their arrival times.
PromoteEntries(b) ==
    /\ orphan_pool' = [orphan_pool EXCEPT ![b] = <<>>]
    /\ work' = IF orphan_pool[b] = <<>> THEN Tail(work) ELSE orphan_pool[b]

\* The blocks waiting for b leave the pool and are applied, in arrival order,
\* before anything else that is pending.
process_orphans(b) ==
    /\ orphan_pool' = [orphan_pool EXCEPT ![b] = <<>>]
    /\ work' = [i \in DOMAIN orphan_pool[b] |-> orphan_pool[b][i].blk] \o Tail(work)

-----------------------------------------------------------------------------
\* Storage: each of these is one atomic sled batch.

store_block(b) == db_blocks' = db_blocks \cup {b}

\* Mutant: the batch leaves out the tip pointer.
PersistWithoutTip(b) ==
    /\ store_block(b)
    /\ db_height' = [db_height EXCEPT ![Number[b]] = b]
    /\ UNCHANGED db_tip

persist_canonical_extension(b) ==
    /\ store_block(b)
    /\ db_height' = [db_height EXCEPT ![Number[b]] = b]
    /\ db_tip' = [height |-> Number[b], hash |-> b]

\* Mutant: only the new tip is indexed, as if it were an extension.
PersistTipOnly(canonical, b, previous_tip_height) ==
    /\ db_blocks' = db_blocks \cup {b}
    /\ db_height' = [db_height EXCEPT ![Number[b]] = b]
    /\ db_tip' = [height |-> Number[b], hash |-> b]

\* canonical is the new chain, a function on 0..n; later entries overwrite.
persist_canonical_reorg(canonical, b, previous_tip_height) ==
    /\ db_blocks' = db_blocks \cup {b} \cup {canonical[i] : i \in DOMAIN canonical}
    /\ db_height' =
          [h \in Heights |->
              IF \E i \in DOMAIN canonical : Number[canonical[i]] = h
              THEN canonical[CHOOSE i \in DOMAIN canonical :
                                /\ Number[canonical[i]] = h
                                /\ \A j \in DOMAIN canonical :
                                      Number[canonical[j]] = h => j <= i]
              ELSE IF h \in (Number[b] + 1)..previous_tip_height THEN NoBlock
              ELSE db_height[h]]
    /\ db_tip' = [height |-> Number[b], hash |-> b]

\* save_snapshot makes four inserts; the first n of them succeed.
SnapshotParts(old, b, n) ==
    [balances |-> IF n >= 1 THEN b ELSE old.balances,
     nonces   |-> IF n >= 2 THEN b ELSE old.nonces,
     hash     |-> IF n >= 3 THEN b ELSE old.hash,
     root     |-> IF n >= 4 THEN b ELSE old.root]

\* The state saved is the one after b.  apply_block ignores the error of a
\* failed insert.
maybe_save_snapshot(b) ==
    IF Number[b] = 0 \/ Number[b] % SnapshotEvery # 0
    THEN UNCHANGED <<db_snap, faults>>
    ELSE \E n \in 0..4 :
            /\ n < 4 => faults < MaxFaults
            /\ faults' = IF n < 4 THEN faults + 1 ELSE faults
            /\ db_snap' = [db_snap EXCEPT ![Number[b]] = SnapshotParts(@, b, n)]

-----------------------------------------------------------------------------
\* Validation.

\* d is where the walk from b through the side blocks meets the chain.
ForksAt(b, side, d) ==
    /\ d \in 0..Depth[b]
    /\ Lineage[b][d] \in Canon
    /\ \A i \in (d + 1)..Depth[b] : Lineage[b][i] \in side

\* Mutant: no replay for a block off the tip.
ParentStateCanonical(b) == ledger

\* The state b's transactions are executed on: the live one for a child of the
\* tip, the replayed one for any other block.
ParentState(b) ==
    IF Parent[b] = tip_hash THEN ledger
    ELSE IF \E d \in 0..Depth[Parent[b]] : ForksAt(Parent[b], side_blocks, d)
         THEN Parent[b] ELSE NoBlock

\* Stages 1 and 2, up to the parent lookup.
WellFormed(b) == b \notin Malformed \cup seen_blocks

\* Stages 3 to 6.  The header's state root commits to b executed on its parent.
Valid(b) ==
    /\ b \notin Invalid
    /\ ReadyAt[b] <= now
    /\ ParentState(b) = Parent[b]

ParentKnown(b) == Number[b] # 0 /\ Parent[b] \in Known

\* A block numbered 0 takes the genesis shortcut: only genesis, only first.
FirstGenesis(b) == b = Genesis /\ top < 0

\* Mutant: the block's work is added to that of the tip, not of its parent.
CandidateOnTip(b) == cumulative_work[tip_hash] + Work[b]

\* Mutant: the work of the parent is left out.
CandidateAlone(b) == Work[b]

candidate_cw(b) == cumulative_work[Parent[b]] + Work[b]

\* Mutant: the work of the block below the tip.
TipWorkStale == IF top < 1 THEN 0 ELSE cumulative_work[blocks[top - 1]]

tip_cw == cumulative_work[tip_hash]

-----------------------------------------------------------------------------
\* apply_block on the first block of `work'.

Applying(b) == work # <<>> /\ b = Head(work)

\* Only the outermost call has an answer anyone reads.
Answer(o) == result' = IF result = "pending" THEN o ELSE result

\* Mutant: a block that fails a check is tried again.
RejectRetries(b) ==
    /\ Applying(b)
    /\ \/ ~WellFormed(b)
       \/ WellFormed(b) /\ Number[b] = 0 /\ ~FirstGenesis(b)
       \/ WellFormed(b) /\ ParentKnown(b) /\ ~Valid(b)
    /\ IF WellFormed(b) /\ ParentKnown(b) THEN UNCHANGED <<work, result>>
       ELSE work' = Tail(work) /\ Answer("Rejected")
    /\ UNCHANGED <<memVars, dbVars, now, faults>>

Reject(b) ==
    /\ Applying(b)
    /\ \/ ~WellFormed(b)
       \/ WellFormed(b) /\ Number[b] = 0 /\ ~FirstGenesis(b)
       \/ WellFormed(b) /\ ParentKnown(b) /\ ~Valid(b)
    /\ work' = Tail(work)
    /\ Answer("Rejected")
    /\ UNCHANGED <<memVars, dbVars, now, faults>>

\* The block is good but its first database write fails.
RejectUnpersisted(b) ==
    /\ Applying(b)
    /\ WellFormed(b)
    /\ FirstGenesis(b) \/ (ParentKnown(b) /\ Valid(b))
    /\ faults < MaxFaults
    /\ faults' = faults + 1
    /\ work' = Tail(work)
    /\ Answer("Rejected")
    /\ UNCHANGED <<memVars, dbVars, now>>

StoreOrphan(b) ==
    /\ Applying(b)
    /\ WellFormed(b) /\ Number[b] # 0 /\ ~ParentKnown(b)
    /\ add_orphan(b)
    /\ work' = Tail(work)
    /\ Answer("StoredOrphan")
    /\ UNCHANGED <<blocks, top, canon_index, side_blocks, seen_blocks, cumulative_work,
                   ledger, pending_reorg_recovery, dbVars, now, faults>>

\* Mutant: the block is not entered in the height index.
PushUnindexed(b, cw) ==
    /\ pending_reorg_recovery' = {}
    /\ cumulative_work' = [cumulative_work EXCEPT ![b] = cw]
    /\ seen_blocks' = seen_blocks \cup {b}
    /\ UNCHANGED canon_index
    /\ top' = top + 1
    /\ blocks' = [i \in 0..(top + 1) |-> IF i <= top THEN blocks[i] ELSE b]

\* Mutant: the block is not entered in the duplicate filter.
PushUnseen(b, cw) ==
    /\ pending_reorg_recovery' = {}
    /\ cumulative_work' = [cumulative_work EXCEPT ![b] = cw]
    /\ UNCHANGED seen_blocks
    /\ canon_index' = [canon_index EXCEPT ![b] = Number[b]]
    /\ top' = top + 1
    /\ blocks' = [i \in 0..(top + 1) |-> IF i <= top THEN blocks[i] ELSE b]

push_canonical(b, cw) ==
    /\ pending_reorg_recovery' = {}
    /\ cumulative_work' = [cumulative_work EXCEPT ![b] = cw]
    /\ seen_blocks' = seen_blocks \cup {b}
    /\ canon_index' = [canon_index EXCEPT ![b] = Number[b]]
    /\ top' = top + 1
    /\ blocks' = [i \in 0..(top + 1) |-> IF i <= top THEN blocks[i] ELSE b]

\* The genesis shortcut, taken when startup rebuilds the chain from nothing:
\* no state, no snapshot, no orphans.
ApplyGenesis(b) ==
    /\ Applying(b)
    /\ WellFormed(b) /\ FirstGenesis(b)
    /\ persist_canonical_extension(b)
    /\ push_canonical(b, Work[b])
    /\ work' = Tail(work)
    /\ Answer("CanonExtension")
    /\ UNCHANGED <<side_blocks, orphan_pool, ledger, db_snap, now, faults>>

\* Mutant: the executed state is dropped.
StateNotInstalled(b) == UNCHANGED ledger

\* Balances and nonces become those after b.
install_state(b) == ledger' = b

\* LANE-A: b extends the tip.
ExtendCanonical(b) ==
    /\ Applying(b)
    /\ WellFormed(b) /\ ParentKnown(b) /\ Valid(b)
    /\ Parent[b] = tip_hash
    /\ persist_canonical_extension(b)
    /\ install_state(b)
    /\ push_canonical(b, candidate_cw(b))
    /\ maybe_save_snapshot(b)
    /\ process_orphans(b)
    /\ Answer("CanonExtension")
    /\ UNCHANGED <<side_blocks, now>>

\* LANE-B up to the comparison of work.
OnSideBranch(b) ==
    /\ Applying(b)
    /\ WellFormed(b) /\ ParentKnown(b) /\ Valid(b)
    /\ Parent[b] # tip_hash

\* LANE-B without a reorganisation: not enough work, or the batch of the
\* reorganisation fails.  (The branch can be traced: Valid replayed it.)
StoreSide(b) ==
    /\ OnSideBranch(b)
    /\ \/ candidate_cw(b) <= tip_cw /\ UNCHANGED faults
       \/ candidate_cw(b) > tip_cw /\ faults < MaxFaults /\ faults' = faults + 1
    /\ store_block(b)
    /\ cumulative_work' = [cumulative_work EXCEPT ![b] = candidate_cw(b)]
    /\ seen_blocks' = seen_blocks \cup {b}
    /\ side_blocks' = side_blocks \cup {b}
    /\ process_orphans(b)
    /\ Answer("SideChain")
    /\ UNCHANGED <<blocks, top, canon_index, ledger, pending_reorg_recovery,
                   db_height, db_tip, db_snap, now>>

\* The new canonical chain: the old one up to index c, then b's lineage above d.
NewBlocks(b, c, d) ==
    [i \in 0..(c + Depth[b] - d) |->
        IF i <= c THEN blocks[i] ELSE Lineage[b][d + i - c]]

\* Displaced blocks stay available as side blocks.
demote_blocks(demoted, adopted) == side_blocks' = (side_blocks \cup demoted) \ adopted

\* LANE-B with try_reorg: the branch of b replaces the chain above the common
\* ancestor, whose canon_index is c.
Reorganise(b) ==
    /\ OnSideBranch(b)
    /\ candidate_cw(b) > tip_cw
    /\ \E d \in 0..Depth[b] :
        /\ ForksAt(b, side_blocks \cup {b}, d)
        /\ LET common     == Lineage[b][d]
               c          == canon_index[common]
               newSegment == {Lineage[b][i] : i \in (d + 1)..Depth[b]}
               demoted    == {blocks[i] : i \in (c + 1)..top}
               base       == IF cumulative_work[common] # 0
                             THEN cumulative_work[common] ELSE TotalWork[common]
               winning    == UNION {Txs[x] : x \in newSegment}
           IN
           /\ persist_canonical_reorg(NewBlocks(b, c, d), b, Number[tip_hash])
           /\ pending_reorg_recovery' =
                 {[displaced_txs |-> UNION {Txs[x] : x \in demoted} \ winning,
                   winning_tx_ids |-> winning]}
           /\ blocks' = NewBlocks(b, c, d)
           /\ top' = c + Depth[b] - d
           /\ canon_index' =
                 [x \in Block |-> IF x \in newSegment THEN Number[x]
                                  ELSE IF x \in demoted THEN NoHeight
                                  ELSE canon_index[x]]
           /\ demote_blocks(demoted, newSegment)
           /\ cumulative_work' =
                 [x \in Block |-> IF x \in newSegment
                                  THEN base + (TotalWork[x] - TotalWork[common])
                                  ELSE cumulative_work[x]]
           /\ seen_blocks' = seen_blocks \cup newSegment
    /\ install_state(b)
    /\ process_orphans(b)
    /\ Answer("CanonExtension")
    /\ UNCHANGED <<db_snap, now, faults>>

\* One call on a chain that has its genesis, so without the genesis shortcut.
Step == \E b \in Block :
    \/ Reject(b) \/ RejectUnpersisted(b) \/ StoreOrphan(b)
    \/ ExtendCanonical(b) \/ StoreSide(b) \/ Reorganise(b)

-----------------------------------------------------------------------------
\* The caller: it takes the chain lock, applies a block, and on a canonical
\* answer takes the recovery data for the mempool before the next block.

Submit(b) ==
    /\ result = "idle"
    /\ result' = "pending"
    /\ work' = <<b>>
    /\ UNCHANGED <<memVars, dbVars, now, faults>>

Return ==
    /\ work = <<>> /\ result \in Outcome
    /\ result' = "idle"
    /\ pending_reorg_recovery' =
          IF result = "CanonExtension" THEN {} ELSE pending_reorg_recovery
    /\ UNCHANGED <<blocks, top, canon_index, side_blocks, seen_blocks, cumulative_work,
                   orphan_pool, ledger, dbVars, work, now, faults>>

Tick ==
    /\ now < MaxNow
    /\ now' = now + 1
    /\ UNCHANGED <<memVars, dbVars, work, result, faults>>

Next == (\E b \in Block : Submit(b)) \/ Step \/ Return \/ Tick

Spec == Init /\ [][Next]_vars

(***************************************************************************)
(* The call in progress completes (it never awaits while it holds the      *)
(* lock), and some peer keeps offering each block: the sync watchdog asks  *)
(* again for whatever a peer's chain has and this one lacks.               *)
(***************************************************************************)
FairSpec ==
    /\ Spec
    /\ WF_vars(Step) /\ WF_vars(Return) /\ WF_vars(Tick)
    /\ \A b \in Block : SF_vars(Submit(b))

-----------------------------------------------------------------------------
\* Properties.

TypeOK ==
    /\ top \in Nat
    /\ blocks \in [0..top -> Block]
    /\ canon_index \in [Block -> Nat \cup {NoHeight}]
    /\ side_blocks \subseteq Block
    /\ seen_blocks \subseteq Block
    /\ cumulative_work \in [Block -> Nat]
    /\ orphan_pool \in [Block -> Seq(Orphan)]
    /\ ledger \in Block
    /\ pending_reorg_recovery \subseteq ReorgRecovery
    /\ db_blocks \subseteq Block
    /\ db_height \in [Heights -> Hash]
    /\ db_tip \in [height : Nat, hash : Block]
    /\ db_snap \in [Heights -> Snapshot]
    /\ work \in Seq(Block)
    /\ result \in Outcome \cup {"idle", "pending"}
    /\ now \in Nat
    /\ faults \in Nat

(***************************************************************************)
(* The canonical Vec is the path from genesis to the tip, and canon_index  *)
(* is its exact inverse, through every extension and reorganisation        *)
(* (push_canonical, try_reorg; the invariant of state.rs line 20).         *)
(***************************************************************************)
CanonicalPath ==
    /\ top = Depth[tip_hash]
    /\ \A i \in 0..top : blocks[i] = Lineage[tip_hash][i] /\ canon_index[blocks[i]] = i
    /\ \A b \in Canon : canon_index[b] <= top /\ blocks[canon_index[b]] = b

(***************************************************************************)
(* No block is both canonical and on the side, no side block has lost its  *)
(* ancestry (so collect_new_segment never meets a gap), and the duplicate  *)
(* filter holds exactly the blocks integrated so far (genesis apart, which *)
(* a first start leaves out).                                              *)
(***************************************************************************)
SideBranches ==
    /\ side_blocks \cap Canon = {}
    /\ \A b \in side_blocks : b # Genesis /\ Parent[b] \in Known
    /\ seen_blocks \cup {Genesis} = Known

(***************************************************************************)
(* Balances and nonces are those after the tip: the next LANE-A block is   *)
(* executed on them without any replay (accept.rs stage 6c).               *)
(***************************************************************************)
LedgerAtTip == ledger = tip_hash

(***************************************************************************)
(* What a restart would read is the chain in memory: height index, tip     *)
(* pointer and blocks follow every extension and reorganisation, with no   *)
(* stale height left above the tip (persist_canonical_reorg).              *)
(***************************************************************************)
StoreMatchesMemory ==
    /\ db_tip = [height |-> top, hash |-> tip_hash]
    /\ \A h \in Heights : db_height[h] = IF h <= top THEN blocks[h] ELSE NoBlock
    /\ Known \subseteq db_blocks

(***************************************************************************)
(* A block waits in the orphan pool only for a parent that is really       *)
(* unknown: whatever integrates the parent takes its orphans along         *)
(* (process_orphans at the end of both lanes).  The pool keeps its bound   *)
(* (orphan.rs: "Evict before inserting so the pool never exceeds           *)
(* ORPHAN_POOL_MAX").                                                      *)
(***************************************************************************)
OrphansWait ==
    /\ Cardinality(Pooled(orphan_pool)) <= OrphanPoolMax
    /\ \A p \in Block : \A i \in DOMAIN orphan_pool[p] :
          /\ Parent[orphan_pool[p][i].blk] = p
          /\ p \notin Known

(***************************************************************************)
(* Fork choice: no known block ends a chain of more work than the tip's,   *)
(* unless a database write failed (the `candidate_cw > tip_cw' test).      *)
(***************************************************************************)
TipHasMostWork ==
    faults = 0 => \A b \in Known : TotalWork[b] <= TotalWork[tip_hash]

(***************************************************************************)
(* The recorded cumulative work of every known block is the work of its    *)
(* chain, whichever lane and whichever reorganisation recorded it.         *)
(***************************************************************************)
WorkIsExact == \A b \in Known : cumulative_work[b] = TotalWork[b]

(***************************************************************************)
(* Blocks that some peer keeps offering are all integrated in the end, in  *)
(* whatever order they come, pool evictions included, unless they or an    *)
(* ancestor are bad or lie beyond the clock's bound.                       *)
(***************************************************************************)
Good(b) == \A i \in 0..Depth[b] :
    Lineage[b][i] \notin Malformed \cup Invalid /\ ReadyAt[Lineage[b][i]] <= MaxNow
EventuallyIntegrated == \A b \in Block : Good(b) => <>(b \in Known)

(***************************************************************************)
(* Every call returns: the recursion through the orphans ends.             *)
(***************************************************************************)
CallsReturn == (result = "pending") ~> (result = "idle")

(***************************************************************************)
(* Lanes, orphans, side blocks and reorganisations implement the abstract  *)
(* fork choice: each step integrates at most one block, whose parent was   *)
(* integrated before, and moves the tip exactly when that block's chain    *)
(* has strictly more work; a failing write costs that one move or the one  *)
(* block.                                                                  *)
(***************************************************************************)
FC == INSTANCE ForkChoice WITH known <- Known, tip <- tip_hash, failed <- faults
ImplementsForkChoice == FC!Spec

(***************************************************************************)
(* Recovery data of a reorganisation stays until the caller takes it       *)
(* (state.rs line 66: "Runtime mempool policy consumes this immediately    *)
(* after block acceptance").                                               *)
(***************************************************************************)
RecoveryKeptForCaller ==
    [][pending_reorg_recovery # {} /\ pending_reorg_recovery' # pending_reorg_recovery
          => result' = "idle"]_vars

(***************************************************************************)
(* A block's header number is its index in the canonical Vec (state.rs     *)
(* line 20: "blocks[i].header.number == i is an invariant maintained by    *)
(* all callers").                                                          *)
(***************************************************************************)
NumbersAreIndexes == \A i \in 0..top : Number[blocks[i]] = i
=============================================================================
