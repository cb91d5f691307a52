-------------------------------- MODULE Pow --------------------------------
(***************************************************************************)
(* Proof of work as the mining worker searches for it and as apply_block   *)
(* checks it: the historical preimage, the dataset of an epoch and parent, *)
(* the cache of datasets that all threads share, and the comparison with   *)
(* the target.  The mixing function itself is an unknown function of       *)
(* dataset, preimage and nonce; a digest is its upper 64 bits, all that is *)
(* ever compared.                                                          *)
(***************************************************************************)
EXTENDS Integers, FiniteSets, SequencesExt

CONSTANTS
    Parent,          \* parent hashes
    Height,          \* heights of the blocks mined on
    Difficulty,      \* their difficulties
    Worker,          \* threads that search
    Validator,       \* threads that run apply_block
    EpochBlocks,     \* VISIONX_EPOCH_BLOCKS
    CacheCapacity,   \* DATASET_CACHE_CAPACITY
    MaxU64,
    MaxNonce,        \* bound on the search
    Mix(_, _, _)     \* visionx_hash: dataset, preimage, nonce -> digest

Thread == Worker \cup Validator
Header == [parent : Parent, number : Height, difficulty : Difficulty,
           nonce : 0..MaxNonce, pow_hash : 0..MaxU64]
NoKey == <<>>

ASSUME PowAssumption ==
    /\ EpochBlocks \in Nat \ {0} /\ CacheCapacity \in Nat \ {0}
    /\ Height \subseteq Nat /\ Difficulty \subseteq Nat
    /\ MaxU64 \in Nat \ {0} /\ MaxNonce \in Nat
    /\ Worker \cap Validator = {}

VARIABLES
    entries,   \* DatasetCache.entries: key -> the key the dataset was built for
    order,     \* DatasetCache.order
    pc,        \* per thread: idle, lookup, build, hash
    at,        \* per thread: the header it is hashing
    dataset,   \* per thread: the Arc it holds, as the key it was built for
    found,     \* blocks the workers have found
    verdict    \* headers apply_block has judged, with its answer

vars == <<entries, order, pc, at, dataset, found, verdict>>
cacheVars == <<entries, order>>

-----------------------------------------------------------------------------
\* VisionXParams::epoch
epoch(height) == height \div EpochBlocks

\* Mutant: the parent is no part of the key.
KeyOfEpoch(h) == <<epoch(h.number), CHOOSE p \in Parent : TRUE>>

\* The dataset is keyed by the epoch and the parent hash.
dataset_key(h) == <<epoch(h.number), h.parent>>

\* VisionXDataset::build
build(h) == <<epoch(h.number), h.parent>>

\* What the hash is over: the header without its nonce, its own hash and the
\* state root.
historical_vpow_message_bytes_with_nonce_zero(h) ==
    [parent |-> h.parent, number |-> h.number, difficulty |-> h.difficulty]

visionx_hash(d, h, nonce) == Mix(d, historical_vpow_message_bytes_with_nonce_zero(h), nonce)

\* A digest is a u64, whatever the dataset.
ASSUME MixAssumption ==
    \A g, h \in Header : visionx_hash(dataset_key(g), h, h.nonce) \in 0..MaxU64

difficulty_to_target(difficulty) ==
    MaxU64 \div (IF difficulty < 1 THEN 1 ELSE difficulty)

meets_target(digest, difficulty) == digest <= difficulty_to_target(difficulty)

-----------------------------------------------------------------------------
\* The cache.

Cached(key) == key \in DOMAIN entries

\* Mutant: a thread that lost the race inserts all the same.
InsertAgain(key, d) ==
    /\ entries' = (key :> d) @@ entries
    /\ order' = Append(order, key)

\* evict_over_capacity: oldest first; the key just inserted is the last of order.
Kept(o) == SubSeq(o, IF Len(o) > CacheCapacity THEN Len(o) - CacheCapacity + 1 ELSE 1, Len(o))

\* order.retain(|queued| *queued != key)
Unqueued(key) == IF key \in ToSet(order) THEN SelectSeq(order, LAMBDA k : k # key) ELSE order

\* insert_if_absent: the thread that lost the race to build takes the winner's.
insert_if_absent(key, d) ==
    IF Cached(key) THEN UNCHANGED cacheVars
    ELSE LET o == Kept(Append(Unqueued(key), key)) IN
         /\ order' = o
         /\ entries' = [k \in ToSet(o) |-> IF k = key THEN d ELSE entries[k]]

-----------------------------------------------------------------------------
Init ==
    /\ entries = <<>> /\ order = <<>>
    /\ pc = [t \in Thread |-> "idle"]
    /\ at = [t \in Thread |-> CHOOSE h \in Header : TRUE]
    /\ dataset = [t \in Thread |-> NoKey]
    /\ found = {} /\ verdict = {}

\* A worker starts on a job.
StartJob(t, p, n, d) ==
    /\ pc[t] = "idle" /\ t \in Worker
    /\ at' = [at EXCEPT ![t] = [parent |-> p, number |-> n, difficulty |-> d,
                                nonce |-> 0, pow_hash |-> 0]]
    /\ pc' = [pc EXCEPT ![t] = "lookup"]
    /\ UNCHANGED <<entries, order, dataset, found, verdict>>

\* apply_block reaches stage 5 with a block some worker found, or one whose
\* header does not hold what its hash claims.
StartVerify(t, h) ==
    /\ pc[t] = "idle" /\ t \in Validator
    /\ at' = [at EXCEPT ![t] = h]
    /\ pc' = [pc EXCEPT ![t] = "lookup"]
    /\ UNCHANGED <<entries, order, dataset, found, verdict>>

\* get_cached, first lock: a hit, or a build with no lock held.
Lookup(t) ==
    /\ pc[t] = "lookup"
    /\ LET key == dataset_key(at[t]) IN
       IF Cached(key)
       THEN /\ dataset' = [dataset EXCEPT ![t] = entries[key]]
            /\ pc' = [pc EXCEPT ![t] = "hash"]
       ELSE /\ pc' = [pc EXCEPT ![t] = "build"]
            /\ UNCHANGED dataset
    /\ UNCHANGED <<entries, order, at, found, verdict>>

\* get_cached, second lock.
Insert(t) ==
    /\ pc[t] = "build"
    /\ LET key == dataset_key(at[t]) IN
       /\ insert_if_absent(key, build(at[t]))
       /\ dataset' = [dataset EXCEPT ![t] = IF Cached(key) THEN entries[key] ELSE build(at[t])]
    /\ pc' = [pc EXCEPT ![t] = "hash"]
    /\ UNCHANGED <<at, found, verdict>>

\* try_nonce: a nonce that meets the target makes a block; otherwise the next
\* nonce is tried, which looks the dataset up again.
TryNonce(t) ==
    /\ pc[t] = "hash" /\ t \in Worker
    /\ LET digest == visionx_hash(dataset[t], at[t], at[t].nonce) IN
       IF meets_target(digest, at[t].difficulty)
       THEN /\ found' = found \cup {[at[t] EXCEPT !.pow_hash = digest]}
            /\ pc' = [pc EXCEPT ![t] = "idle"]
            /\ UNCHANGED at
       ELSE /\ at' = [at EXCEPT ![t].nonce = IF @ < MaxNonce THEN @ + 1 ELSE @]
            /\ pc' = [pc EXCEPT ![t] = IF at[t].nonce < MaxNonce THEN "lookup" ELSE "idle"]
            /\ UNCHANGED found
    /\ dataset' = [dataset EXCEPT ![t] = NoKey]
    /\ UNCHANGED <<entries, order, verdict>>

\* verify_visionx_pow
VerifyPow(t) ==
    /\ pc[t] = "hash" /\ t \in Validator
    /\ LET digest == visionx_hash(dataset[t], at[t], at[t].nonce)
           answer == IF digest > difficulty_to_target(at[t].difficulty) THEN "PoW failed"
                     ELSE IF at[t].pow_hash # digest THEN "PoW hash mismatch"
                     ELSE "Ok"
       IN  verdict' = verdict \cup {<<at[t], answer>>}
    /\ pc' = [pc EXCEPT ![t] = "idle"]
    /\ dataset' = [dataset EXCEPT ![t] = NoKey]
    /\ UNCHANGED <<entries, order, at, found>>

Altered(h) == [h EXCEPT !.pow_hash = IF @ = 0 THEN 1 ELSE 0]

Next == \E t \in Thread :
    \/ \E p \in Parent, n \in Height, d \in Difficulty : StartJob(t, p, n, d)
    \/ \E h \in found \cup {Altered(f) : f \in found} : StartVerify(t, h)
    \/ Lookup(t) \/ Insert(t) \/ TryNonce(t) \/ VerifyPow(t)

Spec == Init /\ [][Next]_vars

-----------------------------------------------------------------------------
\* Properties.

(***************************************************************************)
(* Threads that look up, build and insert in any order leave a cache that  *)
(* never exceeds its capacity, whose queue names each entry once, and      *)
(* whose entries are the datasets of their keys.                           *)
(***************************************************************************)
CacheSound ==
    /\ Cardinality(DOMAIN entries) <= CacheCapacity
    /\ ToSet(order) = DOMAIN entries /\ Len(order) = Cardinality(DOMAIN entries)
    /\ \A k \in DOMAIN entries : entries[k] = k

(***************************************************************************)
(* A block a worker found passes stage 5 wherever and whenever it is       *)
(* checked, and one whose claimed hash was altered never does: the answer  *)
(* depends on the header alone, not on what the cache holds or evicts.     *)
(***************************************************************************)
FoundVerifies ==
    \A v \in verdict : v[2] = "Ok" <=> v[1] \in found
=============================================================================
