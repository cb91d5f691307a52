----------------------------- MODULE PowProofs -----------------------------
(***************************************************************************)
(* Theorems about Pow for any number of threads, any capacity of the cache *)
(* and any mixing function.                                                *)
(***************************************************************************)
EXTENDS Pow, TLAPS, SequenceTheorems, FiniteSetTheorems

\* The keys a lookup can ask for.
Key == {dataset_key(h) : h \in Header}

\* What the digest of a header is over its own dataset, and when stage 5 accepts it.
Digest(h) == visionx_hash(dataset_key(h), h, h.nonce)
Honest(h) == meets_target(Digest(h), h.difficulty) /\ h.pow_hash = Digest(h)

(***************************************************************************)
(* The cache: the queue names every entry exactly once, no more than the   *)
(* capacity, and every entry is the dataset of its key.                    *)
(***************************************************************************)
QueueInv ==
    /\ order \in Seq(Key)
    /\ Len(order) <= CacheCapacity
    /\ \A i, j \in 1..Len(order) : order[i] = order[j] => i = j
    /\ DOMAIN entries = {order[i] : i \in 1..Len(order)}
    /\ \A k \in DOMAIN entries : entries[k] = k

(***************************************************************************)
(* The threads: whoever hashes holds the dataset of its own header, a      *)
(* validator judges what was found or altered, what was found is honest,   *)
(* and every verdict is the one honesty calls for.  None of this mentions  *)
(* what the cache holds, so eviction between two lookups changes nothing.  *)
(***************************************************************************)
ThreadInv ==
    /\ DOMAIN pc = Thread /\ DOMAIN at = Thread /\ DOMAIN dataset = Thread
    /\ \A t \in Thread : pc[t] # "idle" => at[t] \in Header
    /\ \A t \in Thread : pc[t] = "hash" => dataset[t] = dataset_key(at[t])
    /\ \A t \in Validator : pc[t] # "idle" => at[t] \in found \cup {Altered(f) : f \in found}
    /\ \A f \in found : f \in Header /\ Honest(f)
    /\ \A v \in verdict :
          /\ v[1] \in found \cup {Altered(f) : f \in found}
          /\ v[2] = "Ok" <=> Honest(v[1])

PowInv == QueueInv /\ ThreadInv

-----------------------------------------------------------------------------
\* Headers.

(***************************************************************************)
(* A header's digest is a u64 and its target is an integer, so that the    *)
(* comparisons of the search and of stage 5 are each other's negation.     *)
(***************************************************************************)
LEMMA HeaderFacts ==
    ASSUME NEW h \in Header
    PROVE  /\ dataset_key(h) \in Key /\ build(h) = dataset_key(h)
           /\ Digest(h) \in Int
           /\ difficulty_to_target(h.difficulty) \in Int
<1>1. dataset_key(h) \in Key /\ build(h) = dataset_key(h)
    BY DEF Key, build, dataset_key
<1>2. Digest(h) \in Int
    BY MixAssumption, PowAssumption DEF MixAssumption, PowAssumption, Digest
<1>3. h.difficulty \in Nat /\ MaxU64 \in Nat
    BY PowAssumption DEF PowAssumption, Header
<1>4. difficulty_to_target(h.difficulty) \in Int
    BY <1>3 DEF difficulty_to_target
<1> QED BY <1>1, <1>2, <1>4

(***************************************************************************)
(* Altering the claimed hash changes nothing the digest is computed from,  *)
(* so an altered copy of an honest header is not honest.                   *)
(***************************************************************************)
LEMMA AlteredFacts ==
    ASSUME NEW h \in Header
    PROVE  /\ Altered(h) \in Header
           /\ Honest(h) => ~Honest(Altered(h))
<1> DEFINE a == Altered(h)
<1>1. /\ a \in Header
      /\ a.parent = h.parent /\ a.number = h.number /\ a.difficulty = h.difficulty
      /\ a.nonce = h.nonce /\ a.pow_hash # h.pow_hash
    BY PowAssumption DEF PowAssumption, Altered, Header
<1> HIDE DEF a
<1>2. dataset_key(a) = dataset_key(h)
    BY <1>1 DEF dataset_key
<1>3. historical_vpow_message_bytes_with_nonce_zero(a)
        = historical_vpow_message_bytes_with_nonce_zero(h)
    BY <1>1 DEF historical_vpow_message_bytes_with_nonce_zero
<1>4. Digest(a) = Digest(h)
    BY <1>1, <1>2, <1>3 DEF Digest, visionx_hash
<1> QED BY <1>1, <1>4 DEF Honest, a

(***************************************************************************)
(* Recording the digest in a header leaves the digest as it is: try_nonce  *)
(* makes an honest block of a nonce that meets the target.                 *)
(***************************************************************************)
LEMMA FoundHonest ==
    ASSUME NEW h \in Header, meets_target(Digest(h), h.difficulty)
    PROVE  LET f == [h EXCEPT !.pow_hash = Digest(h)] IN f \in Header /\ Honest(f)
<1> DEFINE f == [h EXCEPT !.pow_hash = Digest(h)]
<1>0. Digest(h) \in 0..MaxU64
    BY MixAssumption DEF MixAssumption, Digest
<1>1. /\ f \in Header
      /\ f.parent = h.parent /\ f.number = h.number /\ f.difficulty = h.difficulty
      /\ f.nonce = h.nonce /\ f.pow_hash = Digest(h)
    BY <1>0 DEF Header
<1> HIDE DEF f
<1>2. dataset_key(f) = dataset_key(h)
    BY <1>1 DEF dataset_key
<1>3. historical_vpow_message_bytes_with_nonce_zero(f)
        = historical_vpow_message_bytes_with_nonce_zero(h)
    BY <1>1 DEF historical_vpow_message_bytes_with_nonce_zero
<1>4. Digest(f) = Digest(h)
    BY <1>1, <1>2, <1>3 DEF Digest, visionx_hash
<1>5. f \in Header /\ Honest(f)
    BY <1>1, <1>4 DEF Honest
<1> QED BY <1>5 DEF f

-----------------------------------------------------------------------------
\* The cache.

(***************************************************************************)
(* What eviction keeps: the newest entries of the queue, in order.         *)
(***************************************************************************)
LEMMA KeptFacts ==
    ASSUME NEW S, NEW o \in Seq(S)
    PROVE  \E n \in 0..Len(o) :
              /\ Kept(o) \in Seq(S)
              /\ Len(Kept(o)) = Len(o) - n /\ Len(o) - n <= CacheCapacity
              /\ \A i \in 1..(Len(o) - n) : Kept(o)[i] = o[n + i] /\ n + i \in 1..Len(o)
<1> DEFINE n == IF Len(o) > CacheCapacity THEN Len(o) - CacheCapacity ELSE 0
<1>1. Len(o) \in Nat /\ CacheCapacity \in Nat
    BY PowAssumption DEF PowAssumption
<1>2. n \in 0..Len(o) /\ Len(o) - n <= CacheCapacity
    BY <1>1
<1>3. (IF Len(o) > CacheCapacity THEN Len(o) - CacheCapacity + 1 ELSE 1) = n + 1
    BY <1>1
<1>4. Kept(o) = SubSeq(o, n + 1, Len(o))
    BY <1>3 DEF Kept
<1> HIDE DEF n
<1>5. \A i \in (n + 1)..Len(o) : o[i] \in S
    BY <1>1, <1>2
<1>6. /\ SubSeq(o, n + 1, Len(o)) \in Seq(S)
      /\ Len(SubSeq(o, n + 1, Len(o))) = Len(o) - n
      /\ \A i \in 1..(Len(o) - n) : SubSeq(o, n + 1, Len(o))[i] = o[n + i]
    BY <1>1, <1>2, <1>5
<1>7. \A i \in 1..(Len(o) - n) : n + i \in 1..Len(o)
    BY <1>1, <1>2
<1> QED BY <1>2, <1>4, <1>6, <1>7

(***************************************************************************)
(* Inserting the dataset of a key, with the eviction that follows, keeps   *)
(* the queue and the entries in step; the loser of a race changes nothing. *)
(***************************************************************************)
LEMMA InsertKeepsQueue ==
    ASSUME QueueInv, NEW key \in Key, insert_if_absent(key, key)
    PROVE  QueueInv'
<1>1. CASE Cached(key)
    BY <1>1 DEF insert_if_absent, cacheVars, QueueInv
<1>2. CASE ~Cached(key)
    <2>0. order \in Seq(Key) /\ Len(order) \in Nat /\ DOMAIN order = 1..Len(order)
        BY DEF QueueInv
    <2>1. \A i \in 1..Len(order) : order[i] # key
        BY <1>2 DEF QueueInv, Cached
    <2>2. Unqueued(key) = order
        <3>1. key \notin ToSet(order)
            BY <2>0, <2>1 DEF ToSet
        <3> QED BY <3>1, Zenon DEF Unqueued
    <2> DEFINE a == Append(order, key)
               o == Kept(a)
    <2>3. /\ a \in Seq(Key) /\ Len(a) = Len(order) + 1
          /\ \A i \in 1..Len(order) : a[i] = order[i]
          /\ a[Len(order) + 1] = key
        BY <2>0, AppendProperties
    <2>4. \A i, j \in 1..Len(a) : a[i] = a[j] => i = j
        BY <2>0, <2>1, <2>3 DEF QueueInv
    <2>5. order' = o /\ entries' = [k \in ToSet(o) |-> IF k = key THEN key ELSE entries[k]]
        BY <1>2, <2>2 DEF insert_if_absent
    <2> HIDE DEF a
    <2>6. PICK n \in 0..Len(a) :
              /\ o \in Seq(Key)
              /\ Len(o) = Len(a) - n /\ Len(a) - n <= CacheCapacity
              /\ \A i \in 1..(Len(a) - n) : o[i] = a[n + i] /\ n + i \in 1..Len(a)
        BY <2>3, KeptFacts
    <2> HIDE DEF o
    <2>7. \A i, j \in 1..Len(o) : o[i] = o[j] => i = j
        <3>1. SUFFICES ASSUME NEW i \in 1..Len(o), NEW j \in 1..Len(o), o[i] = o[j]
                       PROVE  i = j
            OBVIOUS
        <3>2. a[n + i] = a[n + j] /\ n + i \in 1..Len(a) /\ n + j \in 1..Len(a)
            BY <2>6, <3>1
        <3>3. n + i = n + j
            BY <3>2, <2>4
        <3> QED BY <3>3, <2>0, <2>3
    <2>8. ToSet(o) = {o[i] : i \in 1..Len(o)}
        BY <2>6 DEF ToSet
    <2>9. ASSUME NEW i \in 1..Len(o) PROVE o[i] = key \/ o[i] \in DOMAIN entries
        <3>1. o[i] = a[n + i] /\ n + i \in 1..(Len(order) + 1)
            BY <2>6, <2>3
        <3>2. CASE n + i \in 1..Len(order)
            BY <3>1, <3>2, <2>3 DEF QueueInv
        <3>3. CASE n + i = Len(order) + 1
            BY <3>1, <3>3, <2>3
        <3> QED BY <3>1, <3>2, <3>3, <2>0
    <2>10. \A k \in DOMAIN entries' : entries'[k] = k
        BY <2>5, <2>8, <2>9 DEF QueueInv
    <2>11. DOMAIN entries' = {order'[i] : i \in 1..Len(order')}
        BY <2>5, <2>8
    <2>12. order' \in Seq(Key) /\ Len(order') <= CacheCapacity
        BY <2>5, <2>6
    <2>13. \A i, j \in 1..Len(order') : order'[i] = order'[j] => i = j
        BY <2>5, <2>7
    <2> QED BY <2>10, <2>11, <2>12, <2>13 DEF QueueInv
<1> QED BY <1>1, <1>2

(***************************************************************************)
(* A queue that names every entry once has as many places as there are     *)
(* entries.                                                                *)
(***************************************************************************)
LEMMA QueueCounts ==
    ASSUME QueueInv PROVE CacheSound
<1>1. order \in Seq(Key) /\ Len(order) \in Nat /\ DOMAIN order = 1..Len(order)
    BY DEF QueueInv
<1>2. ToSet(order) = DOMAIN entries
    BY <1>1 DEF ToSet, QueueInv
<1> DEFINE f == [i \in 1..Len(order) |-> order[i]]
<1>3. f \in Bijection(1..Len(order), DOMAIN entries)
    <2>1. f \in [1..Len(order) -> DOMAIN entries]
        BY DEF QueueInv
    <2>2. \A i, j \in 1..Len(order) : f[i] = f[j] => i = j
        BY DEF QueueInv
    <2>3. \A k \in DOMAIN entries : \E i \in 1..Len(order) : f[i] = k
        BY DEF QueueInv
    <2> QED BY <2>1, <2>2, <2>3 DEF Bijection, Injection, Surjection, IsInjective
<1>4. IsFiniteSet(1..Len(order)) /\ Cardinality(1..Len(order)) = Len(order)
    BY <1>1, FS_Interval
<1>5. Cardinality(DOMAIN entries) = Len(order)
    BY <1>3, <1>4, FS_Bijection DEF ExistsBijection
<1> QED BY <1>2, <1>5 DEF QueueInv, CacheSound

-----------------------------------------------------------------------------
\* The threads.

(***************************************************************************)
(* A worker takes a job, or a validator a block.                           *)
(***************************************************************************)
LEMMA StartSteps ==
    ASSUME PowInv, NEW t \in Thread,
           \/ \E p \in Parent, n \in Height, d \in Difficulty : StartJob(t, p, n, d)
           \/ \E h \in found \cup {Altered(f) : f \in found} : StartVerify(t, h)
    PROVE  PowInv'
<1> USE DEF PowInv
<1>1. ASSUME NEW p \in Parent, NEW n \in Height, NEW d \in Difficulty, StartJob(t, p, n, d)
      PROVE  PowInv'
    <2> DEFINE h == [parent |-> p, number |-> n, difficulty |-> d, nonce |-> 0, pow_hash |-> 0]
    <2>1. h \in Header
        BY PowAssumption DEF PowAssumption, Header
    <2>2. /\ at' = [at EXCEPT ![t] = h] /\ pc' = [pc EXCEPT ![t] = "lookup"]
          /\ UNCHANGED <<entries, order, dataset, found, verdict>>
          /\ t \in Worker /\ t \notin Validator
        BY <1>1, PowAssumption DEF StartJob, PowAssumption
    <2> HIDE DEF h
    <2>3. QueueInv'
        BY <2>2 DEF QueueInv
    <2>4. ThreadInv'
        BY <2>1, <2>2 DEF ThreadInv, Thread
    <2> QED BY <2>3, <2>4
<1>2. ASSUME NEW h \in found \cup {Altered(f) : f \in found}, StartVerify(t, h)
      PROVE  PowInv'
    <2>1. h \in Header
        BY AlteredFacts DEF ThreadInv
    <2>2. /\ at' = [at EXCEPT ![t] = h] /\ pc' = [pc EXCEPT ![t] = "lookup"]
          /\ UNCHANGED <<entries, order, dataset, found, verdict>>
        BY <1>2 DEF StartVerify
    <2>3. QueueInv'
        BY <2>2 DEF QueueInv
    <2>4. ThreadInv'
        BY <2>1, <2>2 DEF ThreadInv, Thread
    <2> QED BY <2>3, <2>4
<1> QED BY <1>1, <1>2

(***************************************************************************)
(* A hit hands out the dataset of the key asked for.                       *)
(***************************************************************************)
LEMMA LookupStep ==
    ASSUME PowInv, NEW t \in Thread, Lookup(t)
    PROVE  PowInv'
<1> USE DEF PowInv
<1>1. QueueInv'
    BY DEF Lookup, QueueInv
<1>2. at[t] \in Header /\ pc[t] # "idle" /\ UNCHANGED <<at, found, verdict>>
    BY DEF Lookup, ThreadInv
<1>3. CASE Cached(dataset_key(at[t]))
    <2>1. entries[dataset_key(at[t])] = dataset_key(at[t])
        BY <1>3 DEF Cached, QueueInv
    <2>2. /\ dataset' = [dataset EXCEPT ![t] = dataset_key(at[t])]
          /\ pc' = [pc EXCEPT ![t] = "hash"]
        BY <1>3, <2>1 DEF Lookup
    <2> QED BY <1>1, <1>2, <2>2 DEF ThreadInv, Thread
<1>4. CASE ~Cached(dataset_key(at[t]))
    <2>1. pc' = [pc EXCEPT ![t] = "build"] /\ UNCHANGED dataset
        BY <1>4 DEF Lookup
    <2> QED BY <1>1, <1>2, <2>1 DEF ThreadInv, Thread
<1> QED BY <1>3, <1>4

(***************************************************************************)
(* Winner or loser of the race to build, a thread goes on with the dataset *)
(* of its own header.                                                      *)
(***************************************************************************)
LEMMA InsertStep ==
    ASSUME PowInv, NEW t \in Thread, Insert(t)
    PROVE  PowInv'
<1> USE DEF PowInv
<1>1. at[t] \in Header /\ pc[t] # "idle"
    BY DEF Insert, ThreadInv
<1>2. PICK key \in Key : key = dataset_key(at[t]) /\ build(at[t]) = key
    BY <1>1, HeaderFacts
<1>3. /\ insert_if_absent(key, key)
      /\ dataset' = [dataset EXCEPT ![t] = IF Cached(key) THEN entries[key] ELSE key]
      /\ pc' = [pc EXCEPT ![t] = "hash"]
      /\ UNCHANGED <<at, found, verdict>>
    BY <1>2 DEF Insert
<1>4. (IF Cached(key) THEN entries[key] ELSE key) = key
    BY DEF Cached, QueueInv
<1>5. dataset' = [dataset EXCEPT ![t] = dataset_key(at[t])]
    BY <1>2, <1>3, <1>4
<1>6. QueueInv'
    BY <1>3, InsertKeepsQueue
<1>7. ThreadInv'
    BY <1>1, <1>3, <1>5 DEF ThreadInv, Thread
<1> QED BY <1>6, <1>7

(***************************************************************************)
(* A nonce that meets the target adds an honest block; one that does not   *)
(* sends the worker back to the lookup or ends its job.                    *)
(***************************************************************************)
LEMMA TryNonceStep ==
    ASSUME PowInv, NEW t \in Thread, TryNonce(t)
    PROVE  PowInv'
<1> USE DEF PowInv
<1>1. QueueInv'
    BY DEF TryNonce, QueueInv
<1>2. at[t] \in Header /\ dataset[t] = dataset_key(at[t]) /\ t \in Worker /\ t \notin Validator
    BY PowAssumption DEF TryNonce, ThreadInv, PowAssumption
<1>3. visionx_hash(dataset[t], at[t], at[t].nonce) = Digest(at[t])
    BY <1>2 DEF Digest
<1>4. dataset' = [dataset EXCEPT ![t] = NoKey] /\ UNCHANGED verdict
    BY DEF TryNonce
<1>5. CASE meets_target(Digest(at[t]), at[t].difficulty)
    <2>1. PICK f : f = [at[t] EXCEPT !.pow_hash = Digest(at[t])]
        OBVIOUS
    <2>2. f \in Header /\ Honest(f)
        BY <1>2, <1>5, <2>1, FoundHonest
    <2>3. found' = found \cup {f} /\ pc' = [pc EXCEPT ![t] = "idle"] /\ UNCHANGED at
        BY <1>3, <1>5, <2>1 DEF TryNonce
    <2>4. found \cup {Altered(g) : g \in found} \subseteq found' \cup {Altered(g) : g \in found'}
        BY <2>3
    <2>5. ThreadInv'
        BY <1>2, <1>4, <2>2, <2>3, <2>4 DEF ThreadInv, Thread
    <2> QED BY <1>1, <2>5
<1>6. CASE ~meets_target(Digest(at[t]), at[t].difficulty)
    <2>1. /\ at' = [at EXCEPT ![t].nonce = IF @ < MaxNonce THEN @ + 1 ELSE @]
          /\ pc' = [pc EXCEPT ![t] = IF at[t].nonce < MaxNonce THEN "lookup" ELSE "idle"]
          /\ UNCHANGED found
        BY <1>3, <1>6 DEF TryNonce
    <2>2. PICK h : h = [at[t] EXCEPT !.nonce = IF @ < MaxNonce THEN @ + 1 ELSE @]
        OBVIOUS
    <2>3. h \in Header
        BY <1>2, <2>2, PowAssumption DEF Header, PowAssumption
    <2>4. at' = [at EXCEPT ![t] = h]
        BY <2>1, <2>2
    <2>5. PICK c \in {"lookup", "idle"} : pc' = [pc EXCEPT ![t] = c]
        BY <2>1
    <2>6. ThreadInv'
        BY <1>2, <1>4, <2>1, <2>3, <2>4, <2>5 DEF ThreadInv, Thread
    <2> QED BY <1>1, <2>6
<1> QED BY <1>5, <1>6

(***************************************************************************)
(* verify_visionx_pow answers Ok exactly to an honest header.              *)
(***************************************************************************)
LEMMA VerifyStep ==
    ASSUME PowInv, NEW t \in Thread, VerifyPow(t)
    PROVE  PowInv'
<1> USE DEF PowInv
<1>0. UNCHANGED <<entries, order>>
    BY Zenon DEF VerifyPow
<1>1. QueueInv'
    BY <1>0 DEF QueueInv
<1>2. /\ at[t] \in Header /\ dataset[t] = dataset_key(at[t]) /\ t \in Validator
      /\ at[t] \in found \cup {Altered(f) : f \in found}
    BY DEF VerifyPow, ThreadInv
<1>3. visionx_hash(dataset[t], at[t], at[t].nonce) = Digest(at[t])
    BY <1>2 DEF Digest
<1>4. Digest(at[t]) \in Int /\ difficulty_to_target(at[t].difficulty) \in Int
    BY <1>2, HeaderFacts
<1> DEFINE answer == IF Digest(at[t]) > difficulty_to_target(at[t].difficulty) THEN "PoW failed"
                     ELSE IF at[t].pow_hash # Digest(at[t]) THEN "PoW hash mismatch"
                     ELSE "Ok"
<1>5. verdict' = verdict \cup {<<at[t], answer>>}
    BY <1>3 DEF VerifyPow
<1>6. answer = "Ok" <=> Honest(at[t])
    <2>1. meets_target(Digest(at[t]), at[t].difficulty)
            <=> ~(Digest(at[t]) > difficulty_to_target(at[t].difficulty))
        BY <1>4 DEF meets_target
    <2> QED BY <2>1 DEF Honest
<1> HIDE DEF answer
<1>7. /\ pc' = [pc EXCEPT ![t] = "idle"] /\ dataset' = [dataset EXCEPT ![t] = NoKey]
      /\ UNCHANGED <<at, found>>
    BY DEF VerifyPow
<1>8. \A v \in verdict' :
          /\ v[1] \in found' \cup {Altered(f) : f \in found'}
          /\ v[2] = "Ok" <=> Honest(v[1])
    BY <1>2, <1>5, <1>6, <1>7 DEF ThreadInv
<1>9. ThreadInv'
    BY <1>7, <1>8 DEF ThreadInv, Thread
<1> QED BY <1>1, <1>9

(***************************************************************************)
(* Every verdict on a found or altered header is the one FoundVerifies     *)
(* asks for: found headers are honest and altered ones are not.            *)
(***************************************************************************)
LEMMA VerdictsRight ==
    ASSUME ThreadInv PROVE FoundVerifies
<1>1. ASSUME NEW v \in verdict PROVE v[2] = "Ok" <=> v[1] \in found
    <2>1. v[2] = "Ok" <=> Honest(v[1])
        BY DEF ThreadInv
    <2>2. CASE v[1] \in found
        BY <2>1, <2>2 DEF ThreadInv
    <2>3. CASE v[1] \notin found
        <3>1. PICK f \in found : v[1] = Altered(f)
            BY <2>3 DEF ThreadInv
        <3>2. ~Honest(v[1])
            BY <3>1, AlteredFacts DEF ThreadInv
        <3> QED BY <2>1, <2>3, <3>2
    <2> QED BY <2>2, <2>3
<1> QED BY <1>1 DEF FoundVerifies

(***************************************************************************)
(* The inductive invariant holds of any number of threads that look up,    *)
(* build, insert, search and verify in any order.                          *)
(***************************************************************************)
THEOREM PowInvariant == Spec => []PowInv
<1>1. Init => PowInv
    <2>1. ASSUME Init PROVE QueueInv
        <3>1. order \in Seq(Key) /\ Len(order) = 0 /\ DOMAIN entries = {}
            BY <2>1 DEF Init
        <3> QED BY <3>1, PowAssumption DEF QueueInv, PowAssumption
    <2>2. ASSUME Init PROVE ThreadInv
        BY <2>2 DEF Init, ThreadInv, Thread
    <2> QED BY <2>1, <2>2 DEF PowInv
<1>2. PowInv /\ [Next]_vars => PowInv'
    <2>1. ASSUME PowInv, UNCHANGED vars PROVE PowInv'
        BY <2>1 DEF vars, PowInv, QueueInv, ThreadInv
    <2> QED BY <2>1, StartSteps, LookupStep, InsertStep, TryNonceStep, VerifyStep DEF Next
<1> QED BY <1>1, <1>2, PTL DEF Spec

(***************************************************************************)
(* The dataset cache all threads share never exceeds its capacity, its     *)
(* queue names each entry once, and its entries are the datasets of their  *)
(* keys (insert_if_absent, evict_over_capacity).                           *)
(***************************************************************************)
THEOREM CacheSoundHolds == Spec => []CacheSound
<1>1. PowInv => CacheSound
    BY QueueCounts DEF PowInv
<1> QED BY <1>1, PowInvariant, PTL

(***************************************************************************)
(* Stage 5 accepts every block a worker found and no block whose claimed   *)
(* hash was altered, whatever the cache holds or evicts meanwhile.         *)
(***************************************************************************)
THEOREM FoundVerifiesHolds == Spec => []FoundVerifies
<1>1. PowInv => FoundVerifies
    BY VerdictsRight DEF PowInv
<1> QED BY <1>1, PowInvariant, PTL
=============================================================================
