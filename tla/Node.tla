-------------------------------- MODULE Node --------------------------------
(***************************************************************************)
(* The tasks of one node that share the chain, the mempool and the mining  *)
(* job: the importer of announced blocks, the syncs (each dialling task    *)
(* and the watchdog runs its own), the miner loop and the transaction      *)
(* API.  The chain lock is `holder'; apply_block under it is ChainState's  *)
(* Step.  What the tasks do without the lock, or after letting go of it,   *)
(* are steps of their own.                                                 *)
(***************************************************************************)
EXTENDS ChainState

CONSTANTS
    Sender, TxNonce, Tip, BadTx, Coinbase, MempoolMax, BlockTarget,
    Unpayable,   \* admitted transactions that no state can execute
    Sync,        \* the tasks that sync
    Mineable     \* blocks this node's miner can find

ASSUME PoolAssumption ==
    /\ Sender \in [Tx -> Nat] /\ TxNonce \in [Tx -> Nat] /\ Tip \in [Tx -> Nat]
    /\ IsFiniteSet(Tx) /\ MempoolMax \in Nat \ {0} /\ BlockTarget \in Nat \ {0}
    /\ Sync \cap {"free", "announce", "miner"} = {}

VARIABLES
    pool,        \* the mempool
    holder,      \* who holds the chain lock, Free when nobody does
    inbound,     \* the announced block in the importer's hands, and how far it is
    fetched,     \* the blocks a sync has still to import, oldest first
    settling,    \* syncs that gave the lock back and have yet to take recovery data
    miner,       \* the miner loop: where it is, its job and the block it found
    active_job,  \* active_job_id names the miner's job
    current_job, \* current_job is Some
    unswept      \* history: confirmed transactions no importer took from the pool

M == INSTANCE Mempool

Free == "free"
Announce == "announce"
Miner == "miner"

NodeVars == <<pool, holder, inbound, fetched, settling, miner, active_job, current_job,
              unswept>>
TaskVars == <<inbound, fetched, settling, miner, active_job, current_job>>
allVars == <<vars, NodeVars>>

NoJob == [parent |-> NoBlock, txs |-> {}]
Job == [parent : Hash, txs : SUBSET Tx]

\* The account nonces after the block the ledger stands at.
nonce_of(s) ==
    Cardinality({t \in UNION {Txs[Lineage[ledger][i]] : i \in 0..Depth[ledger]} :
                    Sender[t] = s})
Nonces == [s \in {Sender[t] : t \in Tx} |-> nonce_of(s)]

Confirmed == UNION {Txs[b] : b \in Canon}

(***************************************************************************)
(* Blocks that pass every check execute their transactions in nonce order: *)
(* along a chain of them, a transaction's nonce is below the number its    *)
(* sender has used.  Execution (stage 6 of apply_block) is a constant of   *)
(* ChainState, so this is a hypothesis on it.                              *)
(***************************************************************************)
NoncesInOrder ==
    \A b \in Block :
        (\A i \in 0..Depth[b] : Lineage[b][i] \notin Malformed \cup Invalid) =>
            \A i \in 0..Depth[b] : \A t \in Txs[Lineage[b][i]] :
                TxNonce[t] < Cardinality({u \in UNION {Txs[Lineage[b][j]] : j \in 0..Depth[b]} :
                                            Sender[u] = Sender[t]})

-----------------------------------------------------------------------------
NodeInit ==
    /\ Init
    /\ pool = M!EmptyPool
    /\ holder = Free
    /\ inbound = [at |-> "idle", blk |-> NoBlock]
    /\ fetched = [k \in Sync |-> <<>>]
    /\ settling = {}
    /\ miner = [at |-> "idle", job |-> NoJob, blk |-> NoBlock]
    /\ active_job = FALSE /\ current_job = FALSE
    /\ unswept = {}

\* The call of apply_block that `who' makes: it holds the lock until the call
\* has returned.
LockAndApply(who, b) ==
    /\ holder = Free
    /\ holder' = who
    /\ Submit(b)
    /\ UNCHANGED <<pool, unswept>>

\* The block the outermost call is about.
Outer == CASE holder = Announce -> inbound.blk
           [] holder = Miner    -> miner.blk
           [] OTHER             -> Head(fetched[holder])

\* One call of apply_block.  Transactions confirmed by a sync or by a promoted
\* orphan, and those of a branch whose recovery data a nested call clears, are
\* the ones no importer takes out of the pool.
ApplyStep ==
    /\ holder # Free
    /\ Step
    /\ unswept' =
         LET lost == IF pending_reorg_recovery' = {}
                     THEN UNION {r.winning_tx_ids : r \in pending_reorg_recovery} ELSE {}
             more == IF holder \in Sync \/ Head(work) # Outer
                     THEN Confirmed' \ Confirmed ELSE {}
         IN  (unswept \cup lost \cup more) \cap Confirmed'
    /\ UNCHANGED <<pool, holder, TaskVars>>

\* The call has returned.
Returned(who) == holder = who /\ work = <<>> /\ result \in Outcome

\* pending_reorg_recovery.take() and requeue_after_reorg on the pool p.
TakeRecovery(p) ==
    /\ IF pending_reorg_recovery = {} THEN pool' = p
       ELSE \E r \in pending_reorg_recovery : \E candidates \in M!Candidates(r) :
               pool' = M!requeue_after_reorg(p, r, candidates, Nonces)
    /\ pending_reorg_recovery' = {}

\* What the announced-block importer and the miner do before they let the lock
\* go: sweep the block's own transactions and requeue the displaced ones.
SettleUnderLock(b) ==
    /\ IF result = "CanonExtension"
       THEN TakeRecovery(M!remove_confirmed(pool, Txs[b]))
       ELSE UNCHANGED <<pool, pending_reorg_recovery>>
    /\ holder' = Free
    /\ result' = "idle"
    /\ UNCHANGED <<blocks, top, canon_index, side_blocks, seen_blocks, cumulative_work,
                   orphan_pool, ledger, dbVars, work, now, faults>>

-----------------------------------------------------------------------------
\* POST /transactions: a body that is a transaction is put to admission against
\* the chain's nonce, under the chain lock.

submit_transaction(t) ==
    /\ holder = Free
    /\ pool' = M!admit(pool, t, nonce_of(Sender[t]))
    /\ UNCHANGED <<vars, holder, TaskVars, unswept>>

-----------------------------------------------------------------------------
\* import_announced_blocks: one block from the channel at a time.

ReceiveBlock(b) ==
    /\ inbound.at = "idle"
    /\ inbound' = [at |-> "applying", blk |-> b]
    /\ LockAndApply(Announce, b)
    /\ UNCHANGED <<fetched, settling, miner, active_job, current_job>>

Imported ==
    /\ Returned(Announce)
    /\ SettleUnderLock(inbound.blk)
    /\ inbound' = IF result = "CanonExtension"
                  THEN [inbound EXCEPT !.at = "clear_id"]
                  ELSE [at |-> "idle", blk |-> NoBlock]
    /\ UNCHANGED <<fetched, settling, miner, active_job, current_job, unswept>>

\* clear_job is a store to the atomic and then the inner lock.
ClearJobId ==
    /\ inbound.at = "clear_id"
    /\ inbound' = [inbound EXCEPT !.at = "clear_job"]
    /\ active_job' = FALSE
    /\ UNCHANGED <<vars, pool, holder, fetched, settling, miner, current_job, unswept>>

ClearJob ==
    /\ inbound.at = "clear_job"
    /\ inbound' = [at |-> "idle", blk |-> NoBlock]
    /\ current_job' = FALSE
    /\ UNCHANGED <<vars, pool, holder, fetched, settling, miner, active_job, unswept>>

-----------------------------------------------------------------------------
\* import_fetched_blocks, once a branch has been fetched from its tip down to a
\* block that is known.

Fetch(k, b) ==
    /\ fetched[k] = <<>> /\ k \notin settling
    /\ holder = Free /\ b \notin Known
    /\ fetched' = [fetched EXCEPT ![k] =
          LET from == CHOOSE i \in 0..Depth[b] :
                         /\ Lineage[b][i] \in Known
                         /\ \A j \in (i + 1)..Depth[b] : Lineage[b][j] \notin Known
          IN  [j \in 1..(Depth[b] - from) |-> Lineage[b][from + j]]]
    /\ UNCHANGED <<vars, pool, holder, inbound, settling, miner, active_job, current_job,
                   unswept>>

SkipKnown(k) ==
    /\ holder = Free /\ k \notin settling
    /\ fetched[k] # <<>> /\ Head(fetched[k]) \in Known
    /\ fetched' = [fetched EXCEPT ![k] = Tail(@)]
    /\ UNCHANGED <<vars, pool, holder, inbound, settling, miner, active_job, current_job,
                   unswept>>

SyncApply(k) ==
    /\ k \notin settling
    /\ fetched[k] # <<>> /\ Head(fetched[k]) \notin Known
    /\ LockAndApply(k, Head(fetched[k]))
    /\ UNCHANGED TaskVars

\* The lock goes back with the recovery data still on the chain; an orphan or a
\* rejected block ends the import.
SyncApplied(k) ==
    /\ Returned(k)
    /\ fetched' = [fetched EXCEPT ![k] =
          IF result \in {"StoredOrphan", "Rejected"} THEN <<>> ELSE Tail(@)]
    /\ settling' = IF result = "CanonExtension" THEN settling \cup {k} ELSE settling
    /\ holder' = Free
    /\ result' = "idle"
    /\ UNCHANGED <<memVars, dbVars, work, now, faults, pool, inbound, miner, active_job,
                   current_job, unswept>>

SyncSettle(k) ==
    /\ k \in settling /\ holder = Free
    /\ settling' = settling \ {k}
    /\ TakeRecovery(pool)
    /\ UNCHANGED <<blocks, top, canon_index, side_blocks, seen_blocks, cumulative_work,
                   orphan_pool, ledger, dbVars, work, result, now, faults,
                   holder, inbound, fetched, miner, active_job, current_job, unswept>>

-----------------------------------------------------------------------------
\* The miner loop.

\* Too few peers, or a recovery claim: the job is cleared and the loop waits.
MiningPaused ==
    /\ miner.at = "idle"
    /\ active_job' = FALSE /\ current_job' = FALSE
    /\ UNCHANGED <<vars, pool, holder, inbound, fetched, settling, miner, unswept>>

\* Every selected transaction runs on the state the earlier ones leave.
Executes(txs) == \A i \in 1..Len(txs) :
    /\ txs[i] \notin Unpayable \cup Coinbase
    /\ TxNonce[txs[i]] = nonce_of(Sender[txs[i]])
                          + Cardinality({j \in 1..(i - 1) : Sender[txs[j]] = Sender[txs[i]]})

\* The block leaves room for the coinbase.
Selected ==
    LET txs == M!select_for_block(pool, BlockTarget)
    IN  SubSeq(txs, 1, IF Len(txs) < BlockTarget THEN Len(txs) ELSE BlockTarget - 1)

\* build_candidate_for_tip gives up on the first transaction that does not run.
BuildCandidate ==
    /\ miner.at = "idle" /\ holder = Free
    /\ Executes(Selected)
    /\ miner' = [at |-> "built", job |-> [parent |-> tip_hash, txs |-> ToSet(Selected)],
                 blk |-> NoBlock]
    /\ UNCHANGED <<vars, pool, holder, inbound, fetched, settling, active_job, current_job,
                   unswept>>

\* build_job, after the chain lock is gone.
PublishJob ==
    /\ miner.at = "built"
    /\ miner' = [miner EXCEPT !.at = "searching"]
    /\ active_job' = TRUE /\ current_job' = TRUE
    /\ UNCHANGED <<vars, pool, holder, inbound, fetched, settling, unswept>>

\* The worker looks at is_current_job before each nonce.
Abandon ==
    /\ miner.at = "searching" /\ ~active_job
    /\ miner' = [at |-> "idle", job |-> NoJob, blk |-> NoBlock]
    /\ UNCHANGED <<vars, pool, holder, inbound, fetched, settling, active_job, current_job,
                   unswept>>

FindBlock(b) ==
    /\ miner.at = "searching"
    /\ b \in Mineable /\ Parent[b] = miner.job.parent /\ Txs[b] = miner.job.txs
    /\ miner' = [miner EXCEPT !.at = "found", !.blk = b]
    /\ UNCHANGED <<vars, pool, holder, inbound, fetched, settling, active_job, current_job,
                   unswept>>

SubmitSolution ==
    /\ miner.at = "found"
    /\ miner' = [miner EXCEPT !.at = "submitting"]
    /\ LockAndApply(Miner, miner.blk)
    /\ UNCHANGED <<inbound, fetched, settling, active_job, current_job>>

Submitted ==
    /\ Returned(Miner)
    /\ SettleUnderLock(miner.blk)
    /\ miner' = [at |-> "idle", job |-> NoJob, blk |-> NoBlock]
    /\ UNCHANGED <<inbound, fetched, settling, active_job, current_job, unswept>>

-----------------------------------------------------------------------------
MinerStep == MiningPaused \/ BuildCandidate \/ PublishJob \/ Abandon
             \/ SubmitSolution \/ Submitted
SyncStep(k) == SkipKnown(k) \/ SyncApply(k) \/ SyncApplied(k) \/ SyncSettle(k)

NodeNext ==
    \/ ApplyStep
    \/ \E t \in Tx : submit_transaction(t)
    \/ \E b \in Block : ReceiveBlock(b)
    \/ Imported \/ ClearJobId \/ ClearJob
    \/ \E k \in Sync : SyncStep(k) \/ \E b \in Block : Fetch(k, b)
    \/ MinerStep
    \/ \E b \in Block \ {Genesis} : FindBlock(b)

NodeSpec == NodeInit /\ [][NodeNext]_allVars

-----------------------------------------------------------------------------
\* Properties.

NodeTypeOK ==
    /\ TypeOK
    /\ pool \in M!Pool
    /\ holder \in {Free, Announce, Miner} \cup Sync
    /\ inbound \in [at : {"idle", "applying", "clear_id", "clear_job"}, blk : Hash]
    /\ fetched \in [Sync -> Seq(Block)]
    /\ settling \subseteq Sync
    /\ miner \in [at : {"idle", "built", "searching", "found", "submitting"},
                  job : Job, blk : Hash]
    /\ active_job \in BOOLEAN /\ current_job \in BOOLEAN
    /\ unswept \subseteq Tx

(***************************************************************************)
(* The queue and the index of the pool hold the same transactions, each    *)
(* once, never more than MEMPOOL_MAX, and no two of one sender and nonce,  *)
(* through admission, replacement, eviction and requeue in any order.      *)
(***************************************************************************)
PoolSound ==
    /\ ToSet(pool.order) = pool.by_id
    /\ Len(pool.order) = Cardinality(pool.by_id)
    /\ Cardinality(pool.by_id) <= MempoolMax
    /\ \A t, u \in pool.by_id :
          Sender[t] = Sender[u] /\ TxNonce[t] = TxNonce[u] => t = u

(***************************************************************************)
(* A transaction that is pending although the canonical chain has it got   *)
(* onto the chain by a sync, by a promoted orphan, or in a branch whose    *)
(* recovery data a nested call threw away.                                 *)
(***************************************************************************)
PendingConfirmedKnown ==
    holder = Free => pool.by_id \cap Confirmed \subseteq unswept

(***************************************************************************)
(* A pending transaction leaves the pool only because the canonical chain  *)
(* has it now, because one of the same sender and nonce with a higher tip  *)
(* took its place, or because the pool is full: not when a branch that     *)
(* held it loses, nor when a block by someone else is swept.               *)
(***************************************************************************)
PendingKept ==
    [][\A t \in pool.by_id \ pool'.by_id :
          \/ t \in Confirmed'
          \/ Cardinality(pool'.by_id) = MempoolMax
          \/ \E u \in pool'.by_id :
                Sender[u] = Sender[t] /\ TxNonce[u] = TxNonce[t] /\ Tip[u] > Tip[t]]_allVars

(***************************************************************************)
(* A reorganisation loses no transaction that its sender could still have  *)
(* executed next: when recovery data is consumed, a displaced transaction  *)
(* with the sender's next nonce is pending again, unless one of at least   *)
(* its tip holds its place or the pool is full.                            *)
(***************************************************************************)
DisplacedReturns ==
    [][\A r \in pending_reorg_recovery :
          work = <<>> /\ pending_reorg_recovery' = {} =>
             \A t \in r.displaced_txs \ (Confirmed \cup Coinbase \cup BadTx) :
                TxNonce[t] = nonce_of(Sender[t]) =>
                   \/ Cardinality(pool'.by_id) = MempoolMax
                   \/ \E u \in pool'.by_id :
                         /\ Sender[u] = Sender[t] /\ TxNonce[u] = TxNonce[t]
                         /\ Tip[u] >= Tip[t]]_allVars
=============================================================================
