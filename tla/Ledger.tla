------------------------------- MODULE Ledger -------------------------------
(***************************************************************************)
(* What a block must satisfy against its parent, and what it does to the   *)
(* accounts: transaction validation and execution, the block reward, the   *)
(* retarget, the state root, the miner's candidate, and the development    *)
(* airdrop.  One chain only; branches are ChainState's.                    *)
(*                                                                         *)
(* A transaction is a record.  An account that no map has stands at 0, so  *)
(* a state is a pair of total functions.  A BLAKE3 hash is what it is      *)
(* over: two of them are equal when that is.  A digest is its upper 64     *)
(* bits, all that is compared.                                             *)
(***************************************************************************)
EXTENDS Integers, FiniteSets, SequencesExt

CONSTANTS
    Address,       \* addresses of 64 lowercase hex digits
    NoAddress,     \* any other text, "" excepted
    Tx,            \* the transactions that can reach the node, see TxType
    Selection,     \* what the pools may offer: sequences of Tx
    Own, Other,    \* miner_address of this node, and of another miner
    Digest,        \* digests the search and the peers come up with
    MaxU64, MaxU128,
    MinFeeLimit,   \* MIN_CASH_TRANSFER_FEE_LIMIT
    BaseFee,       \* CASH_TRANSFER_BASE_FEE
    MaxTxBytes,    \* MAX_SERIALIZED_TX_BYTES
    Emission, HalvingInterval,
    TargetTime, Window, Floor, StallMultiplier, MinInterval, MaxInterval,
    MaxFuture,     \* MAX_FUTURE_TIMESTAMP_SECS
    WeightLimit, BlockTarget,
    Jump,          \* how far the clock moves in a step
    Spacing,       \* how far after their parents others date their blocks
    AirdropEnabled,  \* alpha_airdrop_enabled
    Grant,         \* amounts the airdrop is asked for
    MaxHeight, MaxClock, MaxGrants

TxType == [nonce : Nat, sender : Address \cup {NoAddress, ""}, kind : {"transfer", "coinbase", "other"},
           decodes : BOOLEAN, to : Address \cup {NoAddress}, amount : Nat, tip : Nat,
           fee_limit : Nat, sig : {"good", "bad", "none"}, size : Nat]

ASSUME LedgerAssumption ==
    /\ Tx \subseteq TxType /\ Selection \subseteq Seq(Tx)
    /\ IsFiniteSet(Address) /\ NoAddress \notin Address /\ {Own, Other} \subseteq Address
    /\ {MaxU64, MaxU128, MinFeeLimit, BaseFee, MaxTxBytes, Emission, MaxFuture} \subseteq Nat
    /\ HalvingInterval \in Nat \ {0}
    /\ Digest \subseteq Nat /\ Spacing \subseteq Nat /\ Jump \in Nat
    /\ AirdropEnabled \in BOOLEAN /\ Grant \subseteq Nat

\* As constants.rs has them: a block of BLOCK_TARGET_TXS is within the weight limit,
\* and the shortest interval that counts is not above the target.
ASSUME RetargetAssumption ==
    /\ BlockTarget \in 1..WeightLimit /\ WeightLimit \in Nat
    /\ MaxInterval \in Nat /\ TargetTime \in Nat /\ StallMultiplier \in Nat
    /\ MinInterval \in 1..MaxInterval /\ MinInterval <= TargetTime
    /\ Floor \in 1..MaxU64 /\ Window \in Nat \ {0}

VARIABLES
    chain,     \* the canonical blocks, genesis first
    balances, nonces,
    clock,     \* wall clock
    job,       \* the candidate being mined, NoJob when there is none
    granted    \* what airdrops have credited, and how many there were

vars == <<chain, balances, nonces, clock, job, granted>>

-----------------------------------------------------------------------------
\* Transactions.

\* The id leaves the signature out, as the signed payload does.
canonical_tx_id(t) == [t EXCEPT !.sig = "none"]

verify_tx_signature(t) == t.sender \in Address /\ t.sig = "good"

\* The arguments, if they decode.
decode_cash_transfer_args(t) == IF t.decodes THEN {[to |-> t.to, amount |-> t.amount]} ELSE {}

validate_tx_stateless(t) ==
    IF t.size > MaxTxBytes THEN "TxTooLarge"
    ELSE IF t.kind = "coinbase" THEN "Ok"
    ELSE IF t.sender = "" THEN "MissingSenderPubkey"
    ELSE IF t.sig = "none" THEN "MissingSignature"
    ELSE IF t.kind # "transfer" THEN "UnsupportedModuleMethod"
    ELSE IF t.fee_limit < MinFeeLimit THEN "FeeLimitTooLow"
    ELSE IF ~verify_tx_signature(t) THEN "Signature"
    ELSE IF decode_cash_transfer_args(t) = {} THEN "BadTransferArgs"
    ELSE IF t.to = NoAddress THEN "InvalidTransferDestination"
    ELSE IF t.amount = 0 THEN "TransferAmountZero"
    ELSE IF t.to = t.sender THEN "TransferToSelf"
    ELSE "Ok"

EmptyState == [balances |-> [a \in Address |-> 0], nonces |-> [a \in Address |-> 0]]

charged_fee(t) == BaseFee + t.tip
total_cost(t) == t.amount + charged_fee(t)

Why(st, t) ==
    IF t.kind # "transfer" THEN "UnsupportedModuleMethod"
    ELSE IF validate_tx_stateless(t) # "Ok" THEN validate_tx_stateless(t)
    ELSE IF t.nonce # st.nonces[t.sender] THEN "NonceMismatch"
    ELSE IF charged_fee(t) > MaxU64 THEN "ArithmeticOverflow"
    ELSE IF charged_fee(t) > t.fee_limit THEN "FeeExceedsLimit"
    ELSE IF total_cost(t) > MaxU128 THEN "ArithmeticOverflow"
    ELSE IF st.balances[t.sender] < total_cost(t) THEN "InsufficientBalance"
    ELSE IF st.balances[t.to] + t.amount > MaxU128 THEN "ArithmeticOverflow"
    ELSE IF st.nonces[t.sender] + 1 > MaxU64 THEN "ArithmeticOverflow"
    ELSE "Ok"

\* Mutant: the sender pays the amount and not the fee.
ExecuteFree(st, t) ==
    [balances |-> [st.balances EXCEPT ![t.sender] = @ - t.amount, ![t.to] = @ + t.amount],
     nonces   |-> [st.nonces EXCEPT ![t.sender] = @ + 1]]

\* Mutant: the sender's nonce stays.
ExecuteAgain(st, t) ==
    [st EXCEPT !.balances = [@ EXCEPT ![t.sender] = @ - total_cost(t), ![t.to] = @ + t.amount]]

\* The writes of simulate_tx_execution.  Nobody receives the fee.
Execute(st, t) ==
    [balances |-> [st.balances EXCEPT ![t.sender] = @ - total_cost(t), ![t.to] = @ + t.amount],
     nonces   |-> [st.nonces EXCEPT ![t.sender] = @ + 1]]

\* A state, or the reason why there is none.
Fine(r) == r.why = "Ok"

simulate_tx_execution(r, t) ==
    IF ~Fine(r) THEN r
    ELSE IF Why(r.st, t) # "Ok" THEN [r EXCEPT !.why = Why(r.st, t)]
    ELSE [r EXCEPT !.st = Execute(r.st, t)]

execute_non_coinbase_txs(r, txs) ==
    LET run[i \in 0..Len(txs)] ==
            IF i = 0 THEN r ELSE simulate_tx_execution(run[i - 1], txs[i])
    IN  run[Len(txs)]

\* A right shift, bit by bit.
block_reward(height) ==
    LET halvings == height \div HalvingInterval
        shifted[i \in 0..halvings] == IF i = 0 THEN Emission ELSE shifted[i - 1] \div 2
    IN  shifted[halvings]

apply_coinbase_reward(r, miner, height) ==
    IF ~Fine(r) THEN r
    ELSE IF miner = NoAddress THEN [r EXCEPT !.why = "InvalidMinerAddress"]
    ELSE IF r.st.balances[miner] + block_reward(height) > MaxU128
         THEN [r EXCEPT !.why = "CoinbaseRewardOverflow"]
    ELSE [r EXCEPT !.st.balances[miner] = @ + block_reward(height)]

\* The accounts that are not at zero, whatever else the maps hold.
compute_state_root(st) ==
    LET nonzero(f) == {<<a, f[a]>> : a \in {x \in Address : f[x] # 0}}
    IN  [balances |-> nonzero(st.balances), nonces |-> nonzero(st.nonces)]

Live == [why |-> "Ok", st |-> [balances |-> balances, nonces |-> nonces]]

\* A block on a state: its transactions first, then its reward.
ApplyTo(r, b) ==
    apply_coinbase_reward(execute_non_coinbase_txs(r, b.txs), b.miner, b.number)

\* Mutant: the replay stops one block short.
ReplayShort(height) ==
    LET state[i \in 0..height] ==
            IF i = 0 THEN [why |-> "Ok", st |-> EmptyState] ELSE ApplyTo(state[i - 1], chain[i + 1])
    IN  state[IF height = 0 THEN 0 ELSE height - 1]

\* The replay from nothing; genesis has no transactions and pays nobody.
reconstruct_canonical_state_at_height(height) ==
    LET state[i \in 0..height] ==
            IF i = 0 THEN [why |-> "Ok", st |-> EmptyState] ELSE ApplyTo(state[i - 1], chain[i + 1])
    IN  state[height]

-----------------------------------------------------------------------------
\* Difficulty.

AtLeast(x, y) == IF x < y THEN y ELSE x
AtMost(x, y) == IF x > y THEN y ELSE x

\* Mutant: intervals enter the average as they are.
ClampNothing(raw) == raw

clamped(raw) == AtMost(AtLeast(raw, MinInterval), MaxInterval)

\* The sum of the first n entries of g.
Total(g, n) == LET sum[i \in 0..n] == IF i = 0 THEN 0 ELSE sum[i - 1] + g[i] IN sum[n]

\* The retarget over the last blocks, at most Window + 1 of them, oldest first.
calculate_next_difficulty(blocks, now) ==
    IF Len(blocks) < 2 THEN Floor
    ELSE LET count    == Len(blocks) - 1
             raw(i)   == AtLeast(blocks[i + 1].timestamp - blocks[i].timestamp, 0)
             weighted_sum   == Total([i \in 1..count |-> clamped(raw(i)) * i], count)
             weight_total   == Total([i \in 1..count |-> i], count)
             sum_difficulty == Total([i \in 1..count |-> blocks[i + 1].difficulty], count)
             lwma     == AtLeast(weighted_sum \div weight_total, 1)
             new_diff == ((sum_difficulty \div count) * TargetTime) \div lwma
             stalled  == AtLeast(now - Last(blocks).timestamp, 0) > TargetTime * StallMultiplier
         IN  AtLeast(IF stalled THEN (new_diff * 3) \div 4 ELSE new_diff, Floor) % (MaxU64 + 1)

difficulty_to_target(difficulty) == MaxU64 \div AtLeast(difficulty, 1)

tip == Last(chain)
collect_ancestor_window ==
    SubSeq(chain, AtLeast(Len(chain) - Window, 1), Len(chain))

-----------------------------------------------------------------------------
\* Blocks.

\* The coinbase is the first transaction of every block but genesis.
compute_tx_root(b) ==
    IF b.number = 0 THEN <<>>
    ELSE <<b.coinbase>> \o [i \in DOMAIN b.txs |-> canonical_tx_id(b.txs[i])]

genesis_block ==
    [number |-> 0, timestamp |-> 0, difficulty |-> Floor, miner |-> NoAddress, txs |-> <<>>,
     coinbase |-> [kind |-> "none", height |-> 0], weight |-> 0, tx_root |-> <<>>,
     digest |-> 0, claimed |-> 0, state_root |-> compute_state_root(EmptyState)]

\* Stages 1 and 3 to 6 for a child of the tip, in their order.
apply_block_verdict(b) ==
    LET after == ApplyTo(Live, b)
    IN IF b.weight > WeightLimit THEN "weight"
       ELSE IF b.tx_root # compute_tx_root(b) THEN "tx_root"
       ELSE IF b.coinbase.kind # "coinbase" THEN "missing coinbase"
       ELSE IF b.timestamp <= tip.timestamp THEN "timestamp not monotonic"
       ELSE IF b.timestamp > clock + MaxFuture THEN "timestamp too far in future"
       ELSE IF b.difficulty < Floor THEN "below floor"
       ELSE IF b.difficulty # calculate_next_difficulty(collect_ancestor_window, b.timestamp)
            THEN "difficulty mismatch"
       ELSE IF b.digest > difficulty_to_target(b.difficulty) THEN "PoW failed"
       ELSE IF b.claimed # b.digest THEN "PoW hash mismatch"
       ELSE IF b.coinbase.height # b.number THEN "coinbase height mismatch"
       ELSE IF ~IsInjective(compute_tx_root(b)) THEN "duplicate canonical tx"
       ELSE IF ~Fine(after) THEN after.why
       ELSE IF b.state_root # compute_state_root(after.st) THEN "state_root mismatch"
       ELSE "Ok"

\* Mutant: the miner takes the clock as it is.
CandidateAtClock == clock

\* The timestamp of a candidate is after its parent's, whatever the clock says.
candidate_time == AtLeast(clock, tip.timestamp + 1)

\* build_candidate_with_params, and the state root build_candidate_for_tip adds.
Candidate(miner, txs) ==
    LET taken  == SubSeq(txs, 1, AtMost(Len(txs), BlockTarget - 1))
        now    == candidate_time
        height == tip.number + 1
        after  == apply_coinbase_reward(execute_non_coinbase_txs(Live, taken), miner, height)
        draft  == [number |-> height, timestamp |-> now,
                   difficulty |-> calculate_next_difficulty(collect_ancestor_window, now),
                   miner |-> miner, txs |-> taken,
                   coinbase |-> [kind |-> "coinbase", height |-> height],
                   weight |-> Len(taken) + 1, tx_root |-> <<>>, digest |-> 0, claimed |-> 0,
                   state_root |-> compute_state_root(after.st)]
    IN  [why |-> after.why, blk |-> [draft EXCEPT !.tx_root = compute_tx_root(draft)]]

NoJob == [blk |-> genesis_block, on |-> Live.st]

-----------------------------------------------------------------------------
Init ==
    /\ chain = <<genesis_block>>
    /\ balances = EmptyState.balances /\ nonces = EmptyState.nonces
    /\ clock = 1
    /\ job = [blk |-> genesis_block, on |-> EmptyState]
    /\ granted = [sum |-> 0, count |-> 0]

Mining == job.blk # genesis_block

\* build_candidate_for_tip: no job unless every transaction executes.
BuildCandidate(miner, txs) ==
    /\ ~Mining /\ Len(chain) <= MaxHeight
    /\ Candidate(miner, txs).why = "Ok"
    /\ job' = [blk |-> Candidate(miner, txs).blk, on |-> Live.st]
    /\ UNCHANGED <<chain, balances, nonces, clock, granted>>

\* Lane A for a block that passes; no change for one that does not.
Accept(b) ==
    IF apply_block_verdict(b) = "Ok"
    THEN LET after == ApplyTo(Live, b).st IN
         /\ chain' = Append(chain, b)
         /\ balances' = after.balances /\ nonces' = after.nonces
    ELSE UNCHANGED <<chain, balances, nonces>>

\* try_nonce met the target; submit_solution goes through apply_block.  (A job on
\* an old tip makes a side block, which is ChainState's.)
Solve(digest) ==
    /\ Mining /\ job.blk.number = tip.number + 1
    /\ digest <= difficulty_to_target(job.blk.difficulty)
    /\ Accept([job.blk EXCEPT !.digest = digest, !.claimed = digest])
    /\ job' = [blk |-> genesis_block, on |-> EmptyState]
    /\ UNCHANGED <<clock, granted>>

\* The job is cleared, as after a block from elsewhere.
Abandon ==
    /\ Mining
    /\ job' = [blk |-> genesis_block, on |-> EmptyState]
    /\ UNCHANGED <<chain, balances, nonces, clock, granted>>

\* A block of another miner, dated as it likes.
WellMade(txs, spacing) ==
    [Candidate(Other, txs).blk EXCEPT
        !.timestamp  = tip.timestamp + spacing,
        !.difficulty = calculate_next_difficulty(collect_ancestor_window, tip.timestamp + spacing)]

\* What a block can have wrong.
Flawed(b) ==
    {[b EXCEPT !.weight = WeightLimit + 1], [b EXCEPT !.tx_root = <<>>],
     [b EXCEPT !.coinbase.kind = "other", !.tx_root[1].kind = "other"],
     [b EXCEPT !.coinbase.height = 0, !.tx_root[1].height = 0],
     [b EXCEPT !.difficulty = @ + 1], [b EXCEPT !.difficulty = 0],
     [b EXCEPT !.claimed = 1], [b EXCEPT !.digest = MaxU64],
     [b EXCEPT !.miner = NoAddress]}

\* Blocks of other miners: well-made ones at any time, and ones wrong somewhere.
Offered ==
    {WellMade(s, d) : s \in Selection, d \in Spacing} \cup Flawed(Candidate(Other, <<>>).blk)

ReceiveBlock(b) ==
    /\ Len(chain) <= MaxHeight \/ apply_block_verdict(b) # "Ok"
    /\ Accept(b)
    /\ UNCHANGED <<clock, job, granted>>

Tick ==
    /\ clock + Jump <= MaxClock
    /\ clock' = clock + Jump
    /\ UNCHANGED <<chain, balances, nonces, job, granted>>

\* Saturates at the top of u128.
credit_balance(address, amount) == [balances EXCEPT ![address] = AtMost(@ + amount, MaxU128)]

\* Why an airdrop is refused before it touches the chain.
AirdropError(address, amount) ==
    IF ~AirdropEnabled THEN "Disabled"
    ELSE IF address \notin Address THEN "InvalidAddress"
    ELSE IF amount = 0 THEN "ZeroAmount"
    ELSE "none"

\* A credit outside any block, undone when its snapshot cannot be written.
alpha_airdrop(address, amount) ==
    /\ \/ /\ balances' = credit_balance(address, amount)
          /\ granted' = [sum   |-> granted.sum + (balances'[address] - balances[address]),
                         count |-> granted.count + 1]
       \/ balances' = balances /\ granted' = [granted EXCEPT !.count = @ + 1]
    /\ UNCHANGED <<chain, nonces, clock, job>>

\* POST /alpha/airdrop, with a body that parses.
post_alpha_airdrop(address, amount) ==
    /\ granted.count < MaxGrants
    /\ IF AirdropError(address, amount) = "none" THEN alpha_airdrop(address, amount)
       ELSE UNCHANGED vars

Next ==
    \/ \E s \in Selection : BuildCandidate(Own, s)
    \/ \E d \in Digest : Solve(d)
    \/ Abandon
    \/ \E b \in Offered : ReceiveBlock(b)
    \/ Tick
    \/ \E a \in Address \cup {NoAddress}, n \in Grant : post_alpha_airdrop(a, n)

Spec == Init /\ [][Next]_vars

-----------------------------------------------------------------------------
\* Properties.

Sum(f) ==
    LET order == SetToSeq(Address)
    IN  Total([i \in 1..Cardinality(Address) |-> f[order[i]]], Cardinality(Address))
Fees(txs) == Total([i \in DOMAIN txs |-> charged_fee(txs[i])], Len(txs))
Mined == Tail(chain)

(***************************************************************************)
(* Money comes from block rewards and airdrops only, and only fees burn    *)
(* it: through transfers in any order, overflowing and underfunded ones    *)
(* included, the balances add up to exactly that (simulate_tx_execution,   *)
(* apply_coinbase_reward, credit_balance).                                 *)
(***************************************************************************)
SupplyConserved ==
    Sum(balances) + Total([i \in DOMAIN Mined |-> Fees(Mined[i].txs)], Len(Mined))
       = granted.sum + Total([i \in DOMAIN Mined |-> block_reward(Mined[i].number)], Len(Mined))

\* Where transactions stand on the chain: block and place in it.
Places == UNION {{i} \X DOMAIN chain[i].txs : i \in DOMAIN chain}
TxAt(p) == chain[p[1]].txs[p[2]]
Before(p, q) == p[1] < q[1] \/ (p[1] = q[1] /\ p[2] < q[2])

(***************************************************************************)
(* No transaction executes twice, and those of one sender stand on the     *)
(* chain in the order of their nonces without a gap, up to the account's   *)
(* own nonce.                                                              *)
(***************************************************************************)
ExecutedOnce ==
    /\ \A p, q \in Places :
          canonical_tx_id(TxAt(p)) = canonical_tx_id(TxAt(q)) => p = q
    /\ \A a \in Address :
          LET own == {p \in Places : TxAt(p).sender = a}
          IN  /\ {TxAt(p).nonce : p \in own} = 0..(nonces[a] - 1)
              /\ \A p, q \in own : Before(p, q) => TxAt(p).nonce < TxAt(q).nonce

(***************************************************************************)
(* The replay that validates side branches and rebuilds a node agrees with *)
(* the state the chain arrived at block by block, as long as no airdrop    *)
(* changed it outside a block (reconstruct_canonical_state_at_height).     *)
(***************************************************************************)
ReplayAgrees ==
    granted.sum = 0 => reconstruct_canonical_state_at_height(tip.number) = Live

(***************************************************************************)
(* The miner builds what the validator takes: a candidate on the current   *)
(* tip passes every stage, as soon as its timestamp is not too far ahead   *)
(* and if no airdrop came in between.  The two compute timestamp,          *)
(* difficulty, weight and state root in different places.                  *)
(***************************************************************************)
CandidateAccepted ==
    Mining /\ job.blk.number = tip.number + 1 /\ job.on = Live.st
       /\ job.blk.timestamp <= clock + MaxFuture
       => apply_block_verdict(job.blk) = "Ok"

(***************************************************************************)
(* A retarget raises the difficulty by at most TargetTime / MinInterval.   *)
(* While every difficulty is that far below u64::MAX, the cast that ends   *)
(* calculate_next_difficulty loses nothing.                                *)
(***************************************************************************)
Headroom ==
    \A i \in DOMAIN chain : chain[i].difficulty * TargetTime <= MaxU64 * MinInterval

(***************************************************************************)
(* A retarget moves the difficulty by at most the ratio of the clamps,     *)
(* whatever timestamps the miners chose, and never below the floor.        *)
(***************************************************************************)
RetargetBounded ==
    \A i \in 3..Len(chain) :
        LET recent == {chain[j].difficulty : j \in AtLeast(i - Window, 2)..(i - 1)}
            most   == CHOOSE d \in recent : \A e \in recent : e <= d
            least  == CHOOSE d \in recent : \A e \in recent : e >= d
        IN  /\ chain[i].difficulty >= Floor
            /\ chain[i].difficulty * MinInterval <= most * TargetTime
            /\ (chain[i].difficulty + 2) * 4 * MaxInterval >= least * 3 * TargetTime
=============================================================================
