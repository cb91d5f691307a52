------------------------------ MODULE Mempool ------------------------------
(***************************************************************************)
(* The transaction pool: admission, replacement, eviction, selection,      *)
(* removal of confirmed transactions and the requeue after a               *)
(* reorganisation.  A transaction is its canonical id; what it says is     *)
(* given by constants.  The pool is the value behind Mempool's mutex, and  *)
(* each operator below is one critical section on it.                      *)
(***************************************************************************)
EXTENDS Integers, FiniteSets, SequencesExt

CONSTANTS
    Tx,          \* transaction ids
    Sender,      \* Tx -> sender_pubkey, as a number in its lexicographic order
    TxNonce,     \* Tx -> nonce
    Tip,         \* Tx -> tip
    BadTx,       \* transactions validate_tx_stateless refuses
    Coinbase,    \* coinbase::reward transactions, which it lets through
    MempoolMax,  \* MEMPOOL_MAX
    BlockTarget  \* BLOCK_TARGET_TXS

Pool == [by_id : SUBSET Tx, order : Seq(Tx)]
EmptyPool == [by_id |-> {}, order |-> <<>>]

\* Vec::retain: the entries of s that are in keep, in their order.
retain(s, keep) ==
    LET kept[i \in 0..Len(s)] ==
            IF i = 0 THEN <<>>
            ELSE IF s[i] \in keep THEN Append(kept[i - 1], s[i]) ELSE kept[i - 1]
    IN  kept[Len(s)]

\* What admission and selection see: the ids of the queue that are indexed.
Pending(p) == retain(p.order, p.by_id)

\* Mutant: the pool counts as full one entry early.
InsertEvictingEarly(p, t) ==
    LET full == Cardinality(p.by_id) + 1 >= MempoolMax /\ p.order # <<>>
        q    == IF full THEN [by_id |-> p.by_id \ {Head(p.order)}, order |-> Tail(p.order)]
                        ELSE p
    IN  [by_id |-> q.by_id \cup {t}, order |-> Append(q.order, t)]

\* A full pool drops its oldest entry.
insert_locked(p, t) ==
    LET full == Cardinality(p.by_id) >= MempoolMax /\ p.order # <<>>
        q    == IF full THEN [by_id |-> p.by_id \ {Head(p.order)}, order |-> Tail(p.order)]
                        ELSE p
    IN  [by_id |-> q.by_id \cup {t}, order |-> Append(q.order, t)]

\* The pending transaction of the same sender and nonce, as its place in the
\* queue, 0 when there is none.
Rival(p, t) ==
    SelectInSeq(Pending(p), LAMBDA u : Sender[u] = Sender[t] /\ TxNonce[u] = TxNonce[t])

\* MempoolAdmission::evaluate against the sender's nonce on the chain.
evaluate(p, t, current_nonce) ==
    IF t \in BadTx THEN "StatelessValidation"
    ELSE IF t \in ToSet(Pending(p)) THEN "DuplicateCanonicalTxId"
    ELSE IF TxNonce[t] < current_nonce THEN "StaleNonce"
    ELSE IF TxNonce[t] > current_nonce + 1 THEN "NonceGap"
    ELSE IF Rival(p, t) = 0 THEN "Accept"
    ELSE IF Tip[t] > Tip[Pending(p)[Rival(p, t)]] THEN "Replace"
    ELSE "DuplicateSenderNonce"

\* Mutant: a replaced transaction keeps its place.
AdmitBeside(p, t, current_nonce) ==
    IF evaluate(p, t, current_nonce) \in {"Accept", "Replace"} THEN insert_locked(p, t) ELSE p

\* Mempool::admit: the decision and its effect under one lock.
admit(p, t, current_nonce) ==
    LET decision == evaluate(p, t, current_nonce)
        evict    == Pending(p)[Rival(p, t)]
    IN  CASE decision = "Accept"  -> insert_locked(p, t)
          [] decision = "Replace" ->
                insert_locked([by_id |-> p.by_id \ {evict},
                               order |-> retain(p.order, Tx \ {evict})], t)
          [] OTHER                -> p

\* Mutant: the wrong side of the block is removed.
RemoveNothing(p, ids) == p

remove_confirmed(p, ids) ==
    [by_id |-> p.by_id \ ids, order |-> retain(p.order, p.by_id \ ids)]

\* The displaced transactions that may return, by sender and nonce.  Which of two
\* with the same comes first depends on where they stood.
Candidates(recovery) ==
    LET before(t, u) == \/ Sender[t] < Sender[u]
                        \/ Sender[t] = Sender[u] /\ TxNonce[t] < TxNonce[u]
    IN  {s \in SetToSeqs(recovery.displaced_txs \ (recovery.winning_tx_ids \cup Coinbase)) :
            \A i, j \in DOMAIN s : i < j => ~before(s[j], s[i])}

\* The pool after each of the candidates has gone through admission.
Readmit(p, candidates, nonces) ==
    LET q[i \in 0..Len(candidates)] ==
            IF i = 0 THEN p
            ELSE admit(q[i - 1], candidates[i], nonces[Sender[candidates[i]]])
    IN  q

\* Mutant: the displaced transactions are forgotten.
RequeueNothing(p, recovery, candidates, nonces) == remove_confirmed(p, recovery.winning_tx_ids)

requeue_after_reorg(p, recovery, candidates, nonces) ==
    Readmit(remove_confirmed(p, recovery.winning_tx_ids), candidates, nonces)[Len(candidates)]

\* Oldest first.
select_for_block(p, limit) ==
    retain(SubSeq(p.order, 1, IF Len(p.order) < limit THEN Len(p.order) ELSE limit), p.by_id)
=============================================================================
