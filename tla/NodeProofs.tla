----------------------------- MODULE NodeProofs -----------------------------
(***************************************************************************)
(* Theorems about Node and about Restart, the two ways a node lives around *)
(* its chain: running, with its pool, importers and miner, for every block *)
(* tree, every set of transactions and any number of concurrent syncs; and *)
(* starting again, for every block tree numbered by depth, any number of   *)
(* crashes, of failing writes and of snapshots, and any moment at which    *)
(* sled's log is cut.  Bootstrap's five inserts are cut before the tip     *)
(* pointer (BootstrapCut \subseteq 0..2): a cut between the tip pointer    *)
(* and genesis_hash makes the next start push genesis twice.               *)
(***************************************************************************)
EXTENDS Node, Restart, ChainStateProofs

-----------------------------------------------------------------------------
\* The pool.

LEMMA AppendFacts ==
    ASSUME NEW S, NEW s \in Seq(S), NEW x \in S
    PROVE  /\ Append(s, x) \in Seq(S) /\ ToSet(Append(s, x)) = ToSet(s) \cup {x}
           /\ IsInjective(s) /\ x \notin ToSet(s) => IsInjective(Append(s, x))
<1> DEFINE q == Append(s, x)
<1>1. /\ q \in Seq(S) /\ Len(s) \in Nat /\ DOMAIN s = 1..Len(s)
      /\ DOMAIN q = 1..(Len(s) + 1) /\ q[Len(s) + 1] = x /\ \A i \in 1..Len(s) : q[i] = s[i]
    OBVIOUS
<1> HIDE DEF q
<1>2. DOMAIN q = 1..Len(s) \cup {Len(s) + 1}
    BY <1>1
<1>3. ToSet(q) = ToSet(s) \cup {x}
    <2>1. ASSUME NEW y \in ToSet(q) PROVE y \in ToSet(s) \cup {x}
        BY <2>1, <1>1, <1>2 DEF ToSet
    <2>2. ASSUME NEW y \in ToSet(s) \cup {x} PROVE y \in ToSet(q)
        BY <2>2, <1>1, <1>2 DEF ToSet
    <2> QED BY <2>1, <2>2
<1>4. ASSUME IsInjective(s), x \notin ToSet(s) PROVE IsInjective(q)
    BY <1>4, <1>1, <1>2 DEF IsInjective, ToSet
<1> QED BY <1>1, <1>3, <1>4 DEF q

Keeping(f, s, keep) ==
    /\ f \in [0..Len(s) -> Seq(Tx)] /\ f[0] = <<>> /\ M!retain(s, keep) = f[Len(s)]
    /\ \A i \in 1..Len(s) :
          f[i] = IF s[i] \in keep THEN Append(f[i - 1], s[i]) ELSE f[i - 1]

LEMMA RetainTrace ==
    ASSUME NEW s \in Seq(Tx), NEW keep
    PROVE  \E f : Keeping(f, s, keep)
<1> DEFINE n == Len(s)
           X == Seq(Tx)
           x0 == <<>>
           Round(x, i) == IF s[i] \in keep THEN Append(x, s[i]) ELSE x
           g == [i \in 1..n |-> [x \in X |-> Round(x, i)]]
           Rec(k) == [i \in 0..n |-> IF i = 0 THEN x0 ELSE Round(k[i - 1], i)]
           K == CHOOSE k : k = Rec(k)
<1>1. n \in Nat /\ x0 \in X /\ \A i \in 1..n : \A x \in X : Round(x, i) \in X
    OBVIOUS
<1>2. M!retain(s, keep) = K[n]
    BY DEF M!retain
<1> SUFFICES \E f \in [0..n -> X] : f[0] = x0 /\ K[n] = f[n]
                                     /\ \A i \in 1..n : f[i] = Round(f[i - 1], i)
    BY <1>2 DEF Keeping
<1> HIDE DEF n, X, x0, Round
<1>3. Loop(n, X, x0, g)
    BY <1>1 DEF Loop
<1>4. PICK f \in [0..n -> X] : f[0] = x0 /\ \A i \in 1..n : f[i] = g[i][f[i - 1]]
    <2> HIDE DEF g
    <2>1. \E f : Trace(f, n, X, x0, g)
        BY <1>3, LoopTrace
    <2> QED BY <2>1 DEF Trace
<1>5. ASSUME NEW i \in 1..n PROVE f[i] = Round(f[i - 1], i)
    <2>1. f[i - 1] \in X
        BY <1>1, <1>4
    <2>2. g[i][f[i - 1]] = Round(f[i - 1], i)
        BY <2>1
    <2> QED BY <1>4, <2>2
<1>6. f = Rec(f)
    BY <1>1, <1>4, <1>5
<1>7. K = Rec(K)
    <2> HIDE DEF Rec
    <2> QED BY <1>6
<1> HIDE DEF K
<1>8. K[0] = x0 /\ \A i \in 1..n : K[i] = Round(K[i - 1], i)
    BY <1>7, <1>1
<1>9. \A i \in 0..n : K[i] = f[i]
    <2>1. K[0] = f[0] /\ \A i \in 1..n : K[i - 1] = f[i - 1] => K[i] = f[i]
        BY <1>4, <1>5, <1>8
    <2> QED BY <1>1, <2>1, LoopUnique
<1> QED BY <1>1, <1>4, <1>5, <1>9

\* What Vec::retain keeps, and that it repeats nothing.
LEMMA RetainFacts ==
    ASSUME NEW s \in Seq(Tx), NEW keep
    PROVE  /\ M!retain(s, keep) \in Seq(Tx)
           /\ ToSet(M!retain(s, keep)) = ToSet(s) \cap keep
           /\ IsInjective(s) => IsInjective(M!retain(s, keep))
<1>0. PICK f : Keeping(f, s, keep)
    BY RetainTrace
<1>1. /\ f \in [0..Len(s) -> Seq(Tx)] /\ f[0] = <<>> /\ M!retain(s, keep) = f[Len(s)]
      /\ \A i \in 1..Len(s) :
            f[i] = IF s[i] \in keep THEN Append(f[i - 1], s[i]) ELSE f[i - 1]
    BY <1>0 DEF Keeping
<1> DEFINE Fit(i) == /\ ToSet(f[i]) = {s[j] : j \in 1..i} \cap keep
                     /\ IsInjective(s) => IsInjective(f[i])
           Bad == {i \in 0..Len(s) : ~Fit(i)}
<1>2. ASSUME Bad # {} PROVE FALSE
    <2>0. Bad \subseteq Nat /\ Bad \subseteq 0..Len(s)
        OBVIOUS
    <2>1. PICK m \in Bad : \A k \in Bad : m <= k
        <3> HIDE DEF Bad
        <3> QED BY <1>2, <2>0, NatMin
    <2>2. m # 0
        <3>1. Fit(0)
            BY <1>1 DEF ToSet, IsInjective
        <3> QED BY <2>1, <3>1
    <2>3. m \in 1..Len(s) /\ m - 1 \in 0..Len(s) /\ m - 1 \notin Bad
        <3> HIDE DEF Bad
        <3> QED BY <2>0, <2>1, <2>2
    <2> DEFINE A == {s[j] : j \in 1..(m - 1)}
    <2>4. ToSet(f[m - 1]) = A \cap keep /\ (IsInjective(s) => IsInjective(f[m - 1]))
        <3>1. Fit(m - 1)
            <4> HIDE DEF Fit
            <4> QED BY <2>3
        <3> QED BY <3>1, Zenon
    <2>5. {s[j] : j \in 1..m} = A \cup {s[m]}
        <3>1. 1..m = 1..(m - 1) \cup {m}
            BY <2>3
        <3> QED BY <3>1
    <2>6. IsInjective(s) => s[m] \notin A
        BY <2>3 DEF IsInjective
    <2>7. f[m - 1] \in Seq(Tx) /\ s[m] \in Tx
        BY <1>1, <2>3
    <2>8. f[m] = IF s[m] \in keep THEN Append(f[m - 1], s[m]) ELSE f[m - 1]
        BY <1>1, <2>3
    <2>9. ToSet(f[m]) = (A \cup {s[m]}) \cap keep /\ (IsInjective(s) => IsInjective(f[m]))
        <3> HIDE DEF A, Fit, Bad
        <3>1. CASE s[m] \notin keep
            BY <2>4, <2>8, <3>1
        <3>2. CASE s[m] \in keep
            <4>1. /\ ToSet(f[m]) = ToSet(f[m - 1]) \cup {s[m]}
                  /\ IsInjective(f[m - 1]) /\ s[m] \notin ToSet(f[m - 1]) => IsInjective(f[m])
                BY <2>7, <2>8, <3>2, AppendFacts
            <4> QED BY <4>1, <2>4, <2>6, <3>2
        <3> QED BY <3>1, <3>2
    <2> QED BY <2>9, <2>5, <2>1
<1>3. Fit(Len(s))
    <2>1. Len(s) \notin Bad
        <3> HIDE DEF Bad
        <3> QED BY <1>2
    <2> QED BY <2>1
<1>4. {s[j] : j \in 1..Len(s)} = ToSet(s)
    BY DEF ToSet
<1>5. Len(s) \in 0..Len(s)
    OBVIOUS
<1>6. ToSet(f[Len(s)]) = ToSet(s) \cap keep /\ (IsInjective(s) => IsInjective(f[Len(s)]))
    <2>1. /\ ToSet(f[Len(s)]) = {s[j] : j \in 1..Len(s)} \cap keep
          /\ IsInjective(s) => IsInjective(f[Len(s)])
        BY <1>3, Zenon
    <2> HIDE DEF Fit, Bad
    <2> QED BY <2>1, <1>4
<1>7. f[Len(s)] \in Seq(Tx)
    BY <1>1, <1>5
<1> HIDE DEF Fit, Bad
<1> QED BY <1>1, <1>6, <1>7

\* A sequence without repetitions has as many entries as elements.
LEMMA SeqCardinality ==
    ASSUME NEW S, NEW s \in Seq(S), IsInjective(s)
    PROVE  IsFiniteSet(ToSet(s)) /\ Cardinality(ToSet(s)) = Len(s)
<1> DEFINE D == 1..Len(s)  T == ToSet(s)
<1>1. Len(s) \in Nat /\ DOMAIN s = D /\ s \in [D -> S]
    OBVIOUS
<1>2. s \in Surjection(D, T) /\ s \in Injection(D, T)
    BY <1>1 DEF ToSet, Surjection, Injection, IsInjective
<1>3. IsFiniteSet(D) /\ Cardinality(D) = Len(s)
    BY <1>1, FS_Interval, SMTT(60)
<1> HIDE DEF D, T
<1>4. IsFiniteSet(T) /\ Cardinality(T) = Cardinality(D)
    BY <1>2, <1>3, FS_Surjection
<1> QED BY <1>3, <1>4 DEF T

\* Mempool's own instances of the library are the library's.
LEMMA SameLibrary ==
    ASSUME NEW S
    PROVE  M!Cardinality(S) = Cardinality(S) /\ M!ToSet(S) = ToSet(S)
<1>1. M!Cardinality(S) = Cardinality(S)
    BY Zenon DEF M!Cardinality, Cardinality, M!IsFiniteSet, IsFiniteSet
<1>2. M!ToSet(S) = ToSet(S)
    BY Zenon DEF M!ToSet, ToSet
<1> QED BY <1>1, <1>2

SameSlot(t, u) == Sender[t] = Sender[u] /\ TxNonce[t] = TxNonce[u]

\* What PoolSound says of a pool p.
SoundPool(p) ==
    /\ p \in M!Pool
    /\ ToSet(p.order) = p.by_id /\ IsInjective(p.order) /\ IsFiniteSet(p.by_id)
    /\ Cardinality(p.by_id) \in Nat /\ Cardinality(p.by_id) <= MempoolMax
    /\ \A t, u \in p.by_id : SameSlot(t, u) => t = u

LEMMA PendingFacts ==
    ASSUME NEW p, SoundPool(p)
    PROVE  M!Pending(p) \in Seq(Tx) /\ ToSet(M!Pending(p)) = p.by_id
<1>1. p.order \in Seq(Tx) /\ ToSet(p.order) = p.by_id
    BY DEF SoundPool, M!Pool
<1>2. /\ M!retain(p.order, p.by_id) \in Seq(Tx)
      /\ ToSet(M!retain(p.order, p.by_id)) = ToSet(p.order) \cap p.by_id
    BY <1>1, RetainFacts
<1> QED BY <1>1, <1>2 DEF M!Pending

LEMMA RivalFacts ==
    ASSUME NEW p, SoundPool(p), NEW t \in Tx
    PROVE  /\ M!Rival(p, t) = 0 => \A u \in p.by_id : ~SameSlot(u, t)
           /\ M!Rival(p, t) # 0 => /\ M!Pending(p)[M!Rival(p, t)] \in p.by_id
                                   /\ SameSlot(M!Pending(p)[M!Rival(p, t)], t)
<1> DEFINE s == M!Pending(p)
           I == {i \in 1..Len(s) : Sender[s[i]] = Sender[t] /\ TxNonce[s[i]] = TxNonce[t]}
<1>1. M!Rival(p, t) = IF I # {} THEN Min(I) ELSE 0
    BY Zenon DEF M!Rival, M!SelectInSeq, M!Min, Min
<1>2. s \in Seq(Tx) /\ ToSet(s) = p.by_id /\ Len(s) \in Nat /\ DOMAIN s = 1..Len(s)
    BY PendingFacts
<1> HIDE DEF s
<1>3. I \subseteq Nat /\ 0 \notin I
    BY <1>2
<1>4. ASSUME I # {} PROVE Min(I) \in I
    <2> HIDE DEF I
    <2>1. \E m \in I : \A n \in I : m <= n
        BY <1>3, <1>4, NatMin
    <2> QED BY <2>1 DEF Min
<1>5. ASSUME NEW i \in I PROVE s[i] \in p.by_id /\ SameSlot(s[i], t)
    BY <1>2 DEF ToSet, SameSlot
<1>6. ASSUME I = {}, NEW u \in p.by_id PROVE ~SameSlot(u, t)
    <2>1. PICK i \in 1..Len(s) : u = s[i]
        BY <1>2 DEF ToSet
    <2> QED BY <2>1, <1>6 DEF SameSlot
<1>7. CASE I = {}
    BY <1>1, <1>6, <1>7
<1>8. CASE I # {}
    <2>1. M!Rival(p, t) \in I
        BY <1>1, <1>4, <1>8
    <2> HIDE DEF I
    <2> QED BY <2>1, <1>3, <1>5 DEF s
<1> QED BY <1>7, <1>8

\* The oldest entry leaves queue and index together.
LEMMA DropOldest ==
    ASSUME NEW p, SoundPool(p), p.order # <<>>
    PROVE  LET q == [by_id |-> p.by_id \ {Head(p.order)}, order |-> Tail(p.order)]
           IN  /\ SoundPool(q) /\ Head(p.order) \in p.by_id
               /\ Cardinality(q.by_id) = Cardinality(p.by_id) - 1
<1> DEFINE s == p.order  h == Head(s)  z == Tail(s)
           q == [by_id |-> p.by_id \ {h}, order |-> z]
<1>1. /\ p.by_id \subseteq Tx /\ s \in Seq(Tx) /\ ToSet(s) = p.by_id /\ IsInjective(s)
      /\ IsFiniteSet(p.by_id) /\ Cardinality(p.by_id) \in Nat
      /\ Cardinality(p.by_id) <= MempoolMax
      /\ \A t, u \in p.by_id : SameSlot(t, u) => t = u
    BY DEF SoundPool, M!Pool
<1>2. /\ Len(s) \in Nat \ {0} /\ h = s[1] /\ z \in Seq(Tx) /\ Len(z) = Len(s) - 1
      /\ DOMAIN s = 1..Len(s) /\ DOMAIN z = 1..(Len(s) - 1)
      /\ \A i \in 1..(Len(s) - 1) : z[i] = s[i + 1]
    BY <1>1, HeadTailProperties
<1> HIDE DEF s, h, z
<1>3. h \in p.by_id
    BY <1>1, <1>2 DEF ToSet
<1>4. IsInjective(z)
    <2>1. ASSUME NEW i \in DOMAIN z, NEW j \in DOMAIN z, z[i] = z[j] PROVE i = j
        <3>1. i \in 1..(Len(s) - 1) /\ j \in 1..(Len(s) - 1)
            BY <1>2
        <3>2. i + 1 \in DOMAIN s /\ j + 1 \in DOMAIN s /\ s[i + 1] = s[j + 1]
            BY <1>2, <2>1, <3>1
        <3>3. i + 1 = j + 1
            BY <1>1, <3>2 DEF IsInjective
        <3> QED BY <3>1, <3>3
    <2> QED BY <2>1 DEF IsInjective
<1>5. ToSet(z) = p.by_id \ {h}
    <2>1. ASSUME NEW x \in ToSet(z) PROVE x \in p.by_id \ {h}
        <3>1. PICK i \in 1..(Len(s) - 1) : x = s[i + 1]
            BY <1>2 DEF ToSet
        <3>2. i + 1 \in DOMAIN s /\ 1 \in DOMAIN s /\ i + 1 # 1
            BY <1>2
        <3> QED BY <3>1, <3>2, <1>1, <1>2 DEF ToSet, IsInjective
    <2>2. ASSUME NEW x \in p.by_id \ {h} PROVE x \in ToSet(z)
        <3>1. PICK i \in 1..Len(s) : x = s[i]
            BY <1>1, <1>2 DEF ToSet
        <3>2. i # 1
            BY <3>1, <1>2
        <3>3. i - 1 \in 1..(Len(s) - 1) /\ z[i - 1] = x
            BY <3>1, <3>2, <1>2
        <3> QED BY <3>3, <1>2 DEF ToSet
    <2> QED BY <2>1, <2>2
<1>6. IsFiniteSet(p.by_id \ {h}) /\ Cardinality(p.by_id \ {h}) = Cardinality(p.by_id) - 1
    BY <1>1, <1>3, FS_RemoveElement
<1>7. Cardinality(p.by_id) - 1 \in Nat
    BY <1>6, FS_CardinalityType
<1>8. q \in M!Pool
    BY <1>1, <1>2 DEF M!Pool
<1>9. SoundPool(q)
    BY <1>1, <1>4, <1>5, <1>6, <1>7, <1>8, PoolAssumption DEF SoundPool
<1> QED BY <1>3, <1>6, <1>9 DEF s, h, z

\* Appending to a pool with room.
LEMMA AppendSound ==
    ASSUME NEW p, SoundPool(p), NEW t \in Tx, \A u \in p.by_id : ~SameSlot(u, t),
           Cardinality(p.by_id) < MempoolMax
    PROVE  LET q == [by_id |-> p.by_id \cup {t}, order |-> Append(p.order, t)]
           IN  SoundPool(q) /\ Cardinality(q.by_id) = Cardinality(p.by_id) + 1
<1> DEFINE q == [by_id |-> p.by_id \cup {t}, order |-> Append(p.order, t)]
<1>1. /\ p.by_id \subseteq Tx /\ p.order \in Seq(Tx)
      /\ ToSet(p.order) = p.by_id /\ IsInjective(p.order)
      /\ IsFiniteSet(p.by_id) /\ Cardinality(p.by_id) \in Nat
      /\ \A x, u \in p.by_id : SameSlot(x, u) => x = u
    BY DEF SoundPool, M!Pool
<1>2. t \notin p.by_id
    BY DEF SameSlot
<1>3. /\ Append(p.order, t) \in Seq(Tx) /\ ToSet(Append(p.order, t)) = p.by_id \cup {t}
      /\ IsInjective(Append(p.order, t))
    BY <1>1, <1>2, AppendFacts
<1>4. /\ IsFiniteSet(p.by_id \cup {t})
      /\ Cardinality(p.by_id \cup {t}) = Cardinality(p.by_id) + 1
    BY <1>1, <1>2, FS_AddElement
<1>5. q \in M!Pool
    BY <1>1, <1>3 DEF M!Pool
<1>6. \A x, u \in p.by_id \cup {t} : SameSlot(x, u) => x = u
    BY <1>1 DEF SameSlot
<1>7. Cardinality(p.by_id) + 1 \in Nat /\ Cardinality(p.by_id) + 1 <= MempoolMax
    BY <1>1, PoolAssumption
<1>8. SoundPool(q)
    <2>1. q.by_id = p.by_id \cup {t} /\ q.order = Append(p.order, t)
        OBVIOUS
    <2> HIDE DEF q
    <2> QED BY <2>1, <1>3, <1>4, <1>5, <1>6, <1>7 DEF SoundPool
<1> QED BY <1>4, <1>8

\* insert_locked keeps a pool sound; only a full one loses an entry, and stays full.
LEMMA InsertFacts ==
    ASSUME NEW p, SoundPool(p), NEW t \in Tx, \A u \in p.by_id : ~SameSlot(u, t)
    PROVE  LET q == M!insert_locked(p, t)
           IN  /\ SoundPool(q) /\ t \in q.by_id /\ q.by_id \subseteq p.by_id \cup {t}
               /\ \/ q.by_id = p.by_id \cup {t} /\ Cardinality(q.by_id) = Cardinality(p.by_id) + 1
                  \/ Cardinality(q.by_id) = MempoolMax /\ Cardinality(p.by_id) = MempoolMax
<1> DEFINE q == M!insert_locked(p, t)
           d == [by_id |-> p.by_id \ {Head(p.order)}, order |-> Tail(p.order)]
<1>1. /\ Cardinality(p.by_id) \in Nat /\ Cardinality(p.by_id) <= MempoolMax
      /\ MempoolMax \in Nat \ {0}
    BY PoolAssumption DEF SoundPool
<1>2. CASE Cardinality(p.by_id) < MempoolMax
    <2>1. q = [by_id |-> p.by_id \cup {t}, order |-> Append(p.order, t)]
        <3>1. ~(Cardinality(p.by_id) >= MempoolMax)
            BY <1>1, <1>2
        <3> QED BY <3>1, SameLibrary DEF M!insert_locked
    <2>2. SoundPool(q) /\ Cardinality(q.by_id) = Cardinality(p.by_id) + 1
        BY <2>1, <1>2, AppendSound
    <2>3. q.by_id = p.by_id \cup {t}
        BY <2>1
    <2> HIDE DEF q
    <2> QED BY <2>2, <2>3 DEF q
<1>3. CASE ~(Cardinality(p.by_id) < MempoolMax)
    <2>1. Cardinality(p.by_id) >= MempoolMax /\ Cardinality(p.by_id) = MempoolMax
        BY <1>1, <1>3
    <2>2. p.order # <<>>
        <3>1. Cardinality(ToSet(p.order)) = Len(p.order) /\ ToSet(p.order) = p.by_id
            BY SeqCardinality DEF SoundPool, M!Pool
        <3>2. ASSUME p.order = <<>> PROVE FALSE
            <4>1. Len(p.order) = 0
                BY <3>2
            <4> QED BY <4>1, <3>1, <2>1, <1>1
        <3> QED BY <3>2
    <2>3. q = [by_id |-> d.by_id \cup {t}, order |-> Append(d.order, t)]
        BY <2>1, <2>2, SameLibrary DEF M!insert_locked
    <2>4. SoundPool(d) /\ Cardinality(d.by_id) = Cardinality(p.by_id) - 1
        BY <2>2, DropOldest
    <2>5. d.by_id \subseteq p.by_id
        OBVIOUS
    <2> HIDE DEF d, q
    <2>6. Cardinality(d.by_id) < MempoolMax /\ \A u \in d.by_id : ~SameSlot(u, t)
        BY <2>1, <2>4, <2>5, <1>1
    <2>7. SoundPool(q) /\ Cardinality(q.by_id) = Cardinality(d.by_id) + 1
        BY <2>3, <2>4, <2>6, AppendSound
    <2>8. q.by_id = d.by_id \cup {t}
        BY <2>3
    <2>9. Cardinality(q.by_id) = MempoolMax
        BY <2>1, <2>4, <2>7, <1>1
    <2> QED BY <2>1, <2>5, <2>7, <2>8, <2>9 DEF q
<1> QED BY <1>2, <1>3

\* Taking entries out of queue and index.
LEMMA RetainSound ==
    ASSUME NEW p, SoundPool(p), NEW keep, NEW B, B = p.by_id \cap keep
    PROVE  SoundPool([by_id |-> B, order |-> M!retain(p.order, keep)])
<1> DEFINE q == [by_id |-> B, order |-> M!retain(p.order, keep)]
<1>1. /\ p.by_id \subseteq Tx /\ p.order \in Seq(Tx)
      /\ ToSet(p.order) = p.by_id /\ IsInjective(p.order)
      /\ IsFiniteSet(p.by_id) /\ Cardinality(p.by_id) \in Nat
      /\ Cardinality(p.by_id) <= MempoolMax
      /\ \A x, u \in p.by_id : SameSlot(x, u) => x = u
    BY DEF SoundPool, M!Pool
<1>2. /\ M!retain(p.order, keep) \in Seq(Tx) /\ ToSet(M!retain(p.order, keep)) = B
      /\ IsInjective(M!retain(p.order, keep))
    BY <1>1, RetainFacts
<1>3. IsFiniteSet(B) /\ Cardinality(B) <= Cardinality(p.by_id) /\ Cardinality(B) \in Nat
    BY <1>1, FS_Subset, FS_CardinalityType
<1>4. q \in M!Pool /\ q.by_id = B /\ q.order = M!retain(p.order, keep)
    BY <1>1, <1>2 DEF M!Pool
<1>5. Cardinality(B) <= MempoolMax
    BY <1>1, <1>3, PoolAssumption
<1> HIDE DEF q
<1>6. SoundPool(q)
    BY <1>1, <1>2, <1>3, <1>4, <1>5 DEF SoundPool
<1> QED BY <1>6 DEF q

\* What leaves on the way from pool p to pool q made room or gave way to a better one.
Kept(p, q) ==
    /\ Cardinality(p.by_id) <= Cardinality(q.by_id)
    /\ \A u \in p.by_id \ q.by_id :
          \/ Cardinality(q.by_id) = MempoolMax
          \/ \E v \in q.by_id : SameSlot(v, u) /\ Tip[v] > Tip[u]

LEMMA KeptTransitive ==
    ASSUME NEW p, NEW q, NEW r, SoundPool(p), SoundPool(q), SoundPool(r), Kept(p, q), Kept(q, r)
    PROVE  Kept(p, r)
<1>1. /\ Cardinality(p.by_id) \in Nat /\ Cardinality(q.by_id) \in Nat
      /\ Cardinality(r.by_id) \in Nat /\ Cardinality(r.by_id) <= MempoolMax
      /\ MempoolMax \in Nat /\ p.by_id \subseteq Tx /\ q.by_id \subseteq Tx /\ r.by_id \subseteq Tx
    BY PoolAssumption DEF SoundPool, M!Pool
<1>2. Cardinality(p.by_id) <= Cardinality(r.by_id)
    BY <1>1 DEF Kept
<1>3. ASSUME NEW u \in p.by_id \ r.by_id
      PROVE  \/ Cardinality(r.by_id) = MempoolMax
             \/ \E v \in r.by_id : SameSlot(v, u) /\ Tip[v] > Tip[u]
    <2>1. CASE u \in q.by_id
        BY <2>1 DEF Kept
    <2>2. CASE Cardinality(q.by_id) = MempoolMax
        <3>1. Cardinality(q.by_id) <= Cardinality(r.by_id)
            BY DEF Kept
        <3> QED BY <3>1, <2>2, <1>1
    <2>3. CASE \E v \in q.by_id : SameSlot(v, u) /\ Tip[v] > Tip[u]
        <3>1. PICK v \in q.by_id : SameSlot(v, u) /\ Tip[v] > Tip[u]
            BY <2>3
        <3>2. CASE v \in r.by_id
            BY <3>1, <3>2
        <3>3. CASE v \notin r.by_id
            <4>1. CASE Cardinality(r.by_id) = MempoolMax
                BY <4>1
            <4>2. CASE \E w \in r.by_id : SameSlot(w, v) /\ Tip[w] > Tip[v]
                <5>1. PICK w \in r.by_id : SameSlot(w, v) /\ Tip[w] > Tip[v]
                    BY <4>2
                <5>2. SameSlot(w, u)
                    BY <5>1, <3>1 DEF SameSlot
                <5>3. Tip[w] \in Nat /\ Tip[v] \in Nat /\ Tip[u] \in Nat
                    BY <1>1, PoolAssumption
                <5>4. Tip[w] > Tip[u]
                    BY <5>1, <5>3, <3>1
                <5> QED BY <5>2, <5>4
            <4> QED BY <4>1, <4>2, <3>3 DEF Kept
        <3> QED BY <3>2, <3>3
    <2> QED BY <2>1, <2>2, <2>3 DEF Kept
<1> QED BY <1>2, <1>3 DEF Kept

\* Some entry of p holds the place of t with at least its tip.
Served(p, t) == \E v \in p.by_id : SameSlot(v, t) /\ Tip[v] >= Tip[t]

LEMMA ServedKept ==
    ASSUME NEW p, NEW q, SoundPool(p), SoundPool(q), Kept(p, q), NEW t \in Tx,
           Served(p, t) \/ Cardinality(p.by_id) = MempoolMax
    PROVE  Served(q, t) \/ Cardinality(q.by_id) = MempoolMax
<1>1. /\ Cardinality(p.by_id) \in Nat /\ Cardinality(q.by_id) \in Nat
      /\ Cardinality(q.by_id) <= MempoolMax /\ MempoolMax \in Nat
      /\ p.by_id \subseteq Tx /\ q.by_id \subseteq Tx
      /\ Cardinality(p.by_id) <= Cardinality(q.by_id)
    BY PoolAssumption DEF SoundPool, M!Pool, Kept
<1>2. CASE Cardinality(p.by_id) = MempoolMax
    BY <1>1, <1>2
<1>3. CASE Served(p, t)
    <2>1. PICK v \in p.by_id : SameSlot(v, t) /\ Tip[v] >= Tip[t]
        BY <1>3 DEF Served
    <2>2. CASE v \in q.by_id
        BY <2>1, <2>2 DEF Served
    <2>3. CASE \E w \in q.by_id : SameSlot(w, v) /\ Tip[w] > Tip[v]
        <3>1. PICK w \in q.by_id : SameSlot(w, v) /\ Tip[w] > Tip[v]
            BY <2>3
        <3>2. SameSlot(w, t)
            BY <3>1, <2>1 DEF SameSlot
        <3>3. Tip[w] \in Nat /\ Tip[v] \in Nat /\ Tip[t] \in Nat
            BY <1>1, PoolAssumption
        <3>4. Tip[w] >= Tip[t]
            BY <3>1, <3>3, <2>1
        <3> QED BY <3>2, <3>4 DEF Served
    <2> QED BY <2>2, <2>3 DEF Kept
<1> QED BY <1>2, <1>3

(***************************************************************************)
(* Mempool::admit on a sound pool: acceptance, replacement and refusal.    *)
(***************************************************************************)
Admits(p, t, n, q) ==
    /\ SoundPool(q) /\ Kept(p, q) /\ q.by_id \subseteq p.by_id \cup {t}
    /\ t \in q.by_id \ p.by_id => TxNonce[t] >= n
    /\ t \notin BadTx /\ TxNonce[t] = n => Served(q, t)

LEMMA AdmitFacts ==
    ASSUME NEW p, SoundPool(p), NEW t \in Tx, NEW n \in Nat
    PROVE  Admits(p, t, n, M!admit(p, t, n))
<1> DEFINE q == M!admit(p, t, n)
           R == M!Rival(p, t)
           e == M!Pending(p)[R]
           d == [by_id |-> p.by_id \ {e}, order |-> M!retain(p.order, Tx \ {e})]
<1>1. /\ p.by_id \subseteq Tx /\ Cardinality(p.by_id) \in Nat /\ IsFiniteSet(p.by_id)
      /\ Cardinality(p.by_id) <= MempoolMax /\ MempoolMax \in Nat \ {0}
      /\ TxNonce[t] \in Nat /\ \A u \in Tx : Tip[u] \in Nat
      /\ \A x, u \in p.by_id : SameSlot(x, u) => x = u
    BY PoolAssumption DEF SoundPool, M!Pool
<1>2. M!ToSet(M!Pending(p)) = p.by_id
    BY PendingFacts, SameLibrary
<1>3. /\ R = 0 => \A u \in p.by_id : ~SameSlot(u, t)
      /\ R # 0 => e \in p.by_id /\ SameSlot(e, t)
    BY RivalFacts
<1>4. CASE M!evaluate(p, t, n) = "Accept"
    <2>1. R = 0 /\ ~(TxNonce[t] < n)
        BY <1>4, Zenon DEF M!evaluate
    <2>2. q = M!insert_locked(p, t)
        BY <1>4 DEF M!admit
    <2>3. /\ SoundPool(q) /\ t \in q.by_id /\ q.by_id \subseteq p.by_id \cup {t}
          /\ \/ q.by_id = p.by_id \cup {t} /\ Cardinality(q.by_id) = Cardinality(p.by_id) + 1
             \/ Cardinality(q.by_id) = MempoolMax /\ Cardinality(p.by_id) = MempoolMax
        BY <2>1, <2>2, <1>3, InsertFacts
    <2> HIDE DEF q
    <2>4. Kept(p, q)
        BY <2>3, <1>1 DEF Kept
    <2>5. Served(q, t)
        BY <2>3, <1>1 DEF Served, SameSlot
    <2>6. TxNonce[t] >= n
        BY <2>1, <1>1
    <2> QED BY <2>3, <2>4, <2>5, <2>6 DEF Admits, q
<1>5. CASE M!evaluate(p, t, n) = "Replace"
    <2>1. R # 0 /\ ~(TxNonce[t] < n) /\ Tip[t] > Tip[e]
        BY <1>5, Zenon DEF M!evaluate
    <2>2. q = M!insert_locked(d, t)
        BY <1>5 DEF M!admit
    <2>3. d.by_id = p.by_id \cap (Tx \ {e}) /\ d.by_id = p.by_id \ {e}
        BY <1>1
    <2>4. SoundPool(d)
        BY <2>3, RetainSound
    <2>5. e \in p.by_id /\ SameSlot(e, t)
        BY <1>3, <2>1
    <2> HIDE DEF d, q, e, R
    <2>6. Cardinality(d.by_id) = Cardinality(p.by_id) - 1
        <3>1. Cardinality(p.by_id \ {e}) = Cardinality(p.by_id) - 1
            BY <2>5, <1>1, FS_RemoveElement
        <3> QED BY <3>1, <2>3
    <2>7. \A u \in d.by_id : ~SameSlot(u, t)
        BY <2>3, <2>5, <1>1 DEF SameSlot
    <2>8. /\ SoundPool(q) /\ t \in q.by_id
          /\ q.by_id = d.by_id \cup {t} /\ Cardinality(q.by_id) = Cardinality(d.by_id) + 1
        <3>1. /\ SoundPool(q) /\ t \in q.by_id
              /\ \/ q.by_id = d.by_id \cup {t} /\ Cardinality(q.by_id) = Cardinality(d.by_id) + 1
                 \/ Cardinality(d.by_id) = MempoolMax
            BY <2>2, <2>4, <2>7, InsertFacts
        <3> QED BY <3>1, <2>6, <1>1
    <2>9. Kept(p, q)
        <3>1. Cardinality(p.by_id) <= Cardinality(q.by_id)
            BY <2>6, <2>8, <1>1
        <3>2. ASSUME NEW u \in p.by_id \ q.by_id
              PROVE  SameSlot(t, u) /\ Tip[t] > Tip[u]
            BY <2>1, <2>3, <2>5, <2>8 DEF SameSlot
        <3> QED BY <3>1, <3>2, <2>8 DEF Kept
    <2>10. Served(q, t)
        BY <2>8, <1>1 DEF Served, SameSlot
    <2>11. TxNonce[t] >= n
        BY <2>1, <1>1
    <2>12. q.by_id \subseteq p.by_id \cup {t}
        BY <2>3, <2>8
    <2> QED BY <2>8, <2>9, <2>10, <2>11, <2>12 DEF Admits, q
<1>6. CASE M!evaluate(p, t, n) \notin {"Accept", "Replace"}
    <2>1. q = p
        BY <1>6 DEF M!admit
    <2>2. ASSUME t \notin BadTx, TxNonce[t] = n PROVE Served(p, t)
        <3>1. CASE t \in p.by_id
            BY <3>1, <1>1 DEF Served, SameSlot
        <3>2. CASE t \notin p.by_id
            <4>1. ~(TxNonce[t] < n) /\ ~(TxNonce[t] > n + 1)
                BY <1>1, <2>2
            <4>2. R # 0 /\ ~(Tip[t] > Tip[e])
                <5>1. t \notin M!ToSet(M!Pending(p))
                    BY <1>2, <3>2
                <5> QED BY <1>6, <2>2, <4>1, <5>1, Zenon DEF M!evaluate
            <4> HIDE DEF R, e
            <4> QED BY <4>2, <1>1, <1>3 DEF Served
        <3> QED BY <3>1, <3>2
    <2>3. Kept(p, p)
        BY <1>1 DEF Kept
    <2> QED BY <2>1, <2>2, <2>3 DEF Admits
<1> QED BY <1>4, <1>5, <1>6

(***************************************************************************)
(* The displaced transactions go through admission one after another.      *)
(***************************************************************************)
Readmitting(q, p, c, nonces) ==
    /\ DOMAIN q = 0..Len(c) /\ q[0] = p /\ \A i \in 0..Len(c) : SoundPool(q[i])
    /\ M!Readmit(p, c, nonces)[Len(c)] = q[Len(c)]
    /\ \A i \in 1..Len(c) : Admits(q[i - 1], c[i], nonces[Sender[c[i]]], q[i])

LEMMA ReadmitTrace ==
    ASSUME NEW p, SoundPool(p), NEW c \in Seq(Tx),
           NEW nonces, \A t \in Tx : nonces[Sender[t]] \in Nat
    PROVE  \E q : Readmitting(q, p, c, nonces)
<1> DEFINE n == Len(c)
           X == {x \in M!Pool : SoundPool(x)}
           Round(x, i) == M!admit(x, c[i], nonces[Sender[c[i]]])
           g == [i \in 1..n |-> [x \in X |-> Round(x, i)]]
           Rec(k) == [i \in 0..n |-> IF i = 0 THEN p ELSE Round(k[i - 1], i)]
           K == CHOOSE k : k = Rec(k)
<1>0. ASSUME NEW i \in 1..n, NEW x \in X
      PROVE  Admits(x, c[i], nonces[Sender[c[i]]], Round(x, i))
    <2>1. c[i] \in Tx /\ nonces[Sender[c[i]]] \in Nat
        OBVIOUS
    <2> QED BY <2>1, AdmitFacts
<1>1. n \in Nat /\ p \in X /\ \A i \in 1..n : \A x \in X : Round(x, i) \in X
    <2>1. n \in Nat /\ p \in X
        BY DEF SoundPool
    <2>2. ASSUME NEW i \in 1..n, NEW x \in X PROVE Round(x, i) \in X
        <3> HIDE DEF Round
        <3> QED BY <1>0 DEF Admits, SoundPool
    <2> QED BY <2>1, <2>2
<1>2. M!Readmit(p, c, nonces) = K
    BY DEF M!Readmit
<1>3. SUFFICES \E f \in [0..n -> X] : f[0] = p /\ K[n] = f[n]
                                       /\ \A i \in 1..n : f[i] = Round(f[i - 1], i)
    <2>1. PICK f \in [0..n -> X] : f[0] = p /\ K[n] = f[n]
                                    /\ \A i \in 1..n : f[i] = Round(f[i - 1], i)
        BY <1>3
    <2> HIDE DEF Round, K
    <2>2. ASSUME NEW i \in 1..n PROVE Admits(f[i - 1], c[i], nonces[Sender[c[i]]], f[i])
        <3>1. f[i - 1] \in X
            BY <1>1
        <3> QED BY <3>1, <2>1, <1>0
    <2>3. \A i \in 0..n : SoundPool(f[i])
        OBVIOUS
    <2> QED BY <2>1, <2>2, <2>3, <1>2 DEF Readmitting
<1> HIDE DEF n, X, Round
<1>4. Loop(n, X, p, g)
    BY <1>1 DEF Loop
<1>5. PICK f \in [0..n -> X] : f[0] = p /\ \A i \in 1..n : f[i] = g[i][f[i - 1]]
    <2> HIDE DEF g
    <2>1. \E f : Trace(f, n, X, p, g)
        BY <1>4, LoopTrace
    <2> QED BY <2>1 DEF Trace
<1>6. ASSUME NEW i \in 1..n PROVE f[i] = Round(f[i - 1], i)
    <2>1. f[i - 1] \in X
        BY <1>1, <1>5
    <2>2. g[i][f[i - 1]] = Round(f[i - 1], i)
        BY <2>1
    <2> QED BY <1>5, <2>2
<1>7. f = Rec(f)
    BY <1>1, <1>5, <1>6
<1>8. K = Rec(K)
    <2> HIDE DEF Rec
    <2> QED BY <1>7
<1> HIDE DEF K
<1>9. K[0] = p /\ \A i \in 1..n : K[i] = Round(K[i - 1], i)
    <2>1. 0 \in 0..n /\ \A i \in 1..n : i \in 0..n /\ i # 0
        BY <1>1
    <2>2. Rec(K)[0] = p /\ \A i \in 1..n : Rec(K)[i] = Round(K[i - 1], i)
        BY <2>1, Zenon
    <2> HIDE DEF Rec
    <2> QED BY <1>8, <2>2
<1>10. \A i \in 0..n : K[i] = f[i]
    <2>1. K[0] = f[0] /\ \A i \in 1..n : K[i - 1] = f[i - 1] => K[i] = f[i]
        BY <1>5, <1>6, <1>9
    <2> QED BY <1>1, <2>1, LoopUnique
<1> QED BY <1>1, <1>5, <1>6, <1>10

\* What the requeue makes of a pool.
Readmits(p, c, nonces, q) ==
    /\ SoundPool(q) /\ Kept(p, q) /\ q.by_id \subseteq p.by_id \cup ToSet(c)
    /\ \A t \in q.by_id \ p.by_id : TxNonce[t] >= nonces[Sender[t]]
    /\ \A t \in ToSet(c) \ BadTx :
          TxNonce[t] = nonces[Sender[t]] => Served(q, t) \/ Cardinality(q.by_id) = MempoolMax

LEMMA ReadmitFacts ==
    ASSUME NEW p, SoundPool(p), NEW c \in Seq(Tx),
           NEW nonces, \A t \in Tx : nonces[Sender[t]] \in Nat
    PROVE  Readmits(p, c, nonces, M!Readmit(p, c, nonces)[Len(c)])
<1>0. PICK q : Readmitting(q, p, c, nonces)
    BY ReadmitTrace
<1>1. /\ q[0] = p /\ \A i \in 0..Len(c) : SoundPool(q[i])
      /\ M!Readmit(p, c, nonces)[Len(c)] = q[Len(c)]
      /\ \A i \in 1..Len(c) : Admits(q[i - 1], c[i], nonces[Sender[c[i]]], q[i])
    BY <1>0 DEF Readmitting
<1>2. Len(c) \in Nat /\ Len(c) \in 0..Len(c) /\ \A i \in 1..Len(c) : c[i] \in Tx
    OBVIOUS
<1> DEFINE Fit(i) ==
               /\ Kept(p, q[i]) /\ q[i].by_id \subseteq p.by_id \cup ToSet(c)
               /\ \A t \in q[i].by_id \ p.by_id : TxNonce[t] >= nonces[Sender[t]]
               /\ \A j \in 1..i : c[j] \notin BadTx /\ TxNonce[c[j]] = nonces[Sender[c[j]]] =>
                     Served(q[i], c[j]) \/ Cardinality(q[i].by_id) = MempoolMax
           Bad == {i \in 0..Len(c) : ~Fit(i)}
<1>3. Fit(0)
    <2>1. Cardinality(p.by_id) \in Nat
        BY DEF SoundPool
    <2>2. Kept(p, p)
        BY <2>1 DEF Kept
    <2> QED BY <1>1, <2>2
<1>4. ASSUME NEW m \in 1..Len(c), Fit(m - 1) PROVE Fit(m)
    <2> DEFINE a == q[m - 1]  b == q[m]  t == c[m]
    <2>1. m - 1 \in 0..Len(c) /\ m \in 0..Len(c) /\ t \in Tx /\ t \in ToSet(c)
        BY <1>2 DEF ToSet
    <2>2. SoundPool(a) /\ SoundPool(b) /\ Admits(a, t, nonces[Sender[t]], b)
        BY <1>1, <2>1
    <2>3. /\ Kept(p, a) /\ a.by_id \subseteq p.by_id \cup ToSet(c)
          /\ \A u \in a.by_id \ p.by_id : TxNonce[u] >= nonces[Sender[u]]
          /\ \A j \in 1..(m - 1) : c[j] \notin BadTx /\ TxNonce[c[j]] = nonces[Sender[c[j]]] =>
                Served(a, c[j]) \/ Cardinality(a.by_id) = MempoolMax
        BY <1>4
    <2> HIDE DEF Fit, a, b, t
    <2>4. /\ Kept(a, b) /\ b.by_id \subseteq a.by_id \cup {t}
          /\ t \in b.by_id \ a.by_id => TxNonce[t] >= nonces[Sender[t]]
          /\ t \notin BadTx /\ TxNonce[t] = nonces[Sender[t]] => Served(b, t)
        BY <2>2 DEF Admits
    <2>5. Kept(p, b)
        BY <2>2, <2>3, <2>4, KeptTransitive
    <2>6. b.by_id \subseteq p.by_id \cup ToSet(c)
        BY <2>1, <2>3, <2>4
    <2>7. \A u \in b.by_id \ p.by_id : TxNonce[u] >= nonces[Sender[u]]
        BY <2>3, <2>4
    <2>8. ASSUME NEW j \in 1..m, c[j] \notin BadTx, TxNonce[c[j]] = nonces[Sender[c[j]]]
          PROVE  Served(b, c[j]) \/ Cardinality(b.by_id) = MempoolMax
        <3>1. CASE j = m
            BY <2>4, <2>8, <3>1 DEF t
        <3>2. CASE j # m
            <4>1. j \in 1..(m - 1) /\ c[j] \in Tx
                BY <1>2, <3>2
            <4>2. Served(a, c[j]) \/ Cardinality(a.by_id) = MempoolMax
                BY <4>1, <2>3, <2>8
            <4> QED BY <4>1, <4>2, <2>2, <2>4, ServedKept
        <3> QED BY <3>1, <3>2
    <2> QED BY <2>5, <2>6, <2>7, <2>8 DEF Fit, b
<1>5. Fit(Len(c))
    <2>0. Bad \subseteq Nat /\ Bad \subseteq 0..Len(c)
        BY <1>2
    <2>1. \A i \in 0..Len(c) : i \notin Bad <=> Fit(i)
        OBVIOUS
    <2> HIDE DEF Bad, Fit
    <2>2. ASSUME Bad # {} PROVE FALSE
        <3>1. PICK m \in Bad : \A k \in Bad : m <= k
            BY <2>0, <2>2, NatMin
        <3>2. m # 0
            BY <1>3, <1>2, <2>1, <3>1
        <3>3. m \in 1..Len(c) /\ m - 1 \in 0..Len(c) /\ m - 1 \notin Bad
            BY <2>0, <3>1, <3>2
        <3> QED BY <3>3, <3>1, <2>0, <2>1, <1>4
    <2> QED BY <2>1, <2>2, <1>2
<1> DEFINE z == q[Len(c)]
<1>6. /\ Kept(p, z) /\ z.by_id \subseteq p.by_id \cup ToSet(c)
      /\ \A t \in z.by_id \ p.by_id : TxNonce[t] >= nonces[Sender[t]]
      /\ \A j \in 1..Len(c) : c[j] \notin BadTx /\ TxNonce[c[j]] = nonces[Sender[c[j]]] =>
            Served(z, c[j]) \/ Cardinality(z.by_id) = MempoolMax
    BY <1>5
<1>7. SoundPool(z)
    BY <1>1, <1>2
<1>8. ASSUME NEW t \in ToSet(c) \ BadTx, TxNonce[t] = nonces[Sender[t]]
      PROVE  Served(z, t) \/ Cardinality(z.by_id) = MempoolMax
    <2>1. PICK j \in 1..Len(c) : t = c[j]
        BY DEF ToSet
    <2> HIDE DEF z
    <2> QED BY <2>1, <1>6, <1>8
<1> HIDE DEF Fit, Bad, z
<1> QED BY <1>1, <1>6, <1>7, <1>8 DEF Readmits, z

\* Every displaced transaction that may return is offered once.
LEMMA CandidateFacts ==
    ASSUME NEW r \in ReorgRecovery, NEW c \in M!Candidates(r)
    PROVE  c \in Seq(Tx) /\ ToSet(c) = r.displaced_txs \ (r.winning_tx_ids \cup Coinbase)
<1> DEFINE S == r.displaced_txs \ (r.winning_tx_ids \cup Coinbase)
           n == Cardinality(S)
           D == 1..n
<1>1. S \subseteq Tx
    BY DEF ReorgRecovery
<1>2. c \in M!SetToSeqs(S)
    BY DEF M!Candidates
<1>3. M!Cardinality(S) = n
    BY SameLibrary
<1> HIDE DEF S
<1>4. IsFiniteSet(S) /\ n \in Nat
    BY <1>1, PoolAssumption, FS_Subset, FS_CardinalityType
<1>5. c \in [D -> S] /\ \A i, j \in D : i # j => c[i] # c[j]
    <2>1. c \in {f \in [1..M!Cardinality(S) -> S] :
                    \A i, j \in 1..M!Cardinality(S) : i # j => f[i] # f[j]}
        BY <1>2, Zenon DEF M!SetToSeqs
    <2> QED BY <2>1, <1>3, Zenon
<1> HIDE DEF n
<1>6. IsFiniteSet(D) /\ Cardinality(D) = n
    BY <1>4, FS_Interval
<1>7. c \in Injection(D, S)
    BY <1>5 DEF Injection, IsInjective
<1> HIDE DEF D
<1>8. c \in Surjection(D, S)
    BY <1>4, <1>6, <1>7, FS_Injection DEF n
<1>9. ToSet(c) = S
    BY <1>8, <1>5 DEF Surjection, ToSet
<1>10. c \in Seq(Tx)
    <2>1. c \in [D -> Tx]
        BY <1>1, <1>5
    <2> QED BY <2>1, <1>4 DEF D
<1> QED BY <1>9, <1>10 DEF S

\* The account nonces are numbers.
LEMMA NonceFacts ==
    ASSUME ledger \in Block
    PROVE  \A t \in Tx : Nonces[Sender[t]] = nonce_of(Sender[t]) /\ nonce_of(Sender[t]) \in Nat
<1> SUFFICES ASSUME NEW t \in Tx
             PROVE  Nonces[Sender[t]] = nonce_of(Sender[t]) /\ nonce_of(Sender[t]) \in Nat
    OBVIOUS
<1> DEFINE U == UNION {Txs[Lineage[ledger][i]] : i \in 0..Depth[ledger]}
           S == {u \in U : Sender[u] = Sender[t]}
<1>1. \A i \in 0..Depth[ledger] : Txs[Lineage[ledger][i]] \subseteq Tx
    BY DepthFacts, BlockAssumption DEF BlockAssumption
<1>2. S \subseteq Tx
    BY <1>1
<1>3. nonce_of(Sender[t]) = Cardinality(S)
    BY DEF nonce_of
<1> HIDE DEF S
<1>4. Cardinality(S) \in Nat
    BY <1>2, PoolAssumption, FS_Subset, FS_CardinalityType
<1>5. Nonces[Sender[t]] = nonce_of(Sender[t])
    BY DEF Nonces
<1> QED BY <1>3, <1>4, <1>5

(***************************************************************************)
(* What requeue_after_reorg makes of the pool p: the winners are out, what *)
(* else left made room or gave way, what came in is not stale, and every   *)
(* displaced transaction that can run next has its place back.             *)
(***************************************************************************)
Requeued(p, r, q) ==
    /\ SoundPool(q)
    /\ \A u \in p.by_id \ q.by_id :
          \/ u \in r.winning_tx_ids
          \/ Cardinality(q.by_id) = MempoolMax
          \/ \E v \in q.by_id : SameSlot(v, u) /\ Tip[v] > Tip[u]
    /\ \A u \in q.by_id \ p.by_id : TxNonce[u] >= nonce_of(Sender[u])
    /\ q.by_id \cap r.winning_tx_ids = {}
    /\ \A t \in r.displaced_txs \ (r.winning_tx_ids \cup Coinbase \cup BadTx) :
          TxNonce[t] = nonce_of(Sender[t]) => Served(q, t) \/ Cardinality(q.by_id) = MempoolMax

LEMMA RemoveFacts ==
    ASSUME NEW p, SoundPool(p), NEW ids
    PROVE  /\ SoundPool(M!remove_confirmed(p, ids))
           /\ M!remove_confirmed(p, ids).by_id = p.by_id \ ids
<1>1. p.by_id \ ids = p.by_id \cap (p.by_id \ ids)
    OBVIOUS
<1>2. SoundPool([by_id |-> p.by_id \ ids, order |-> M!retain(p.order, p.by_id \ ids)])
    BY <1>1, RetainSound
<1> QED BY <1>2 DEF M!remove_confirmed

LEMMA RequeueFacts ==
    ASSUME NEW p, SoundPool(p), ledger \in Block, NEW r \in ReorgRecovery,
           NEW c \in M!Candidates(r)
    PROVE  Requeued(p, r, M!requeue_after_reorg(p, r, c, Nonces))
<1> DEFINE m == M!remove_confirmed(p, r.winning_tx_ids)
           q == M!Readmit(m, c, Nonces)[Len(c)]
<1>1. M!requeue_after_reorg(p, r, c, Nonces) = q
    BY DEF M!requeue_after_reorg
<1>2. SoundPool(m) /\ m.by_id = p.by_id \ r.winning_tx_ids
    BY RemoveFacts
<1>3. c \in Seq(Tx) /\ ToSet(c) = r.displaced_txs \ (r.winning_tx_ids \cup Coinbase)
    BY CandidateFacts
<1>4. \A t \in Tx : Nonces[Sender[t]] = nonce_of(Sender[t]) /\ nonce_of(Sender[t]) \in Nat
    BY NonceFacts
<1> HIDE DEF m
<1>5. Readmits(m, c, Nonces, q)
    <2>1. \A t \in Tx : Nonces[Sender[t]] \in Nat
        BY <1>4
    <2> QED BY <2>1, <1>2, <1>3, ReadmitFacts
<1> HIDE DEF q
<1>6. /\ SoundPool(q) /\ Kept(m, q) /\ q.by_id \subseteq m.by_id \cup ToSet(c)
      /\ \A t \in q.by_id \ m.by_id : TxNonce[t] >= Nonces[Sender[t]]
      /\ \A t \in ToSet(c) \ BadTx :
            TxNonce[t] = Nonces[Sender[t]] => Served(q, t) \/ Cardinality(q.by_id) = MempoolMax
    BY <1>5 DEF Readmits
<1>7. q.by_id \subseteq Tx /\ r.displaced_txs \subseteq Tx
    BY <1>6 DEF SoundPool, M!Pool, ReorgRecovery
<1>8. \A u \in p.by_id \ q.by_id :
          \/ u \in r.winning_tx_ids
          \/ Cardinality(q.by_id) = MempoolMax
          \/ \E v \in q.by_id : SameSlot(v, u) /\ Tip[v] > Tip[u]
    BY <1>2, <1>6 DEF Kept
<1>9. \A u \in q.by_id \ p.by_id : TxNonce[u] >= nonce_of(Sender[u])
    BY <1>2, <1>4, <1>6, <1>7
<1>10. q.by_id \cap r.winning_tx_ids = {}
    BY <1>2, <1>3, <1>6
<1>11. ASSUME NEW t \in r.displaced_txs \ (r.winning_tx_ids \cup Coinbase \cup BadTx),
              TxNonce[t] = nonce_of(Sender[t])
       PROVE  Served(q, t) \/ Cardinality(q.by_id) = MempoolMax
    <2>1. t \in ToSet(c) \ BadTx /\ TxNonce[t] = Nonces[Sender[t]]
        BY <1>3, <1>4, <1>7, <1>11
    <2> QED BY <2>1, <1>6
<1> QED BY <1>1, <1>6, <1>8, <1>9, <1>10, <1>11 DEF Requeued

-----------------------------------------------------------------------------
\* The inductive invariant of the node.

\* The importer of announced blocks, or the miner, has the chain lock.
OwnCall == holder \in {Announce, Miner}

(***************************************************************************)
(* The lock is taken exactly while a call is in progress, and the block    *)
(* it is about stays put until the call has returned.                      *)
(***************************************************************************)
CallInv ==
    /\ holder \in {Free, Announce, Miner} \cup Sync
    /\ fetched \in [Sync -> Seq(Block)]
    /\ holder = Free <=> result = "idle"
    /\ holder = Free => work = <<>>
    /\ holder = Announce => inbound.at = "applying" /\ inbound.blk \in Block
    /\ holder = Miner => miner.at = "submitting" /\ miner.blk \in Block
    /\ holder \in Sync => fetched[holder] # <<>>
    /\ miner.at = "found" => miner.blk \in Block

\* x lies above a.
Below(a, x) == x # Genesis /\ Depth[a] < Depth[x] /\ Lineage[x][Depth[a]] = a

(***************************************************************************)
(* What apply_block still has to apply lies above the outermost block,     *)
(* which is canonical once the answer says so; as long as it is the tip    *)
(* its own children are all that waits.                                    *)
(***************************************************************************)
NestInv ==
    /\ OwnCall /\ result = "pending" => work = <<Outer>>
    /\ OwnCall /\ result # "pending" => \A i \in DOMAIN work : Below(Outer, work[i])
    /\ OwnCall /\ result = "CanonExtension" =>
          /\ Outer \in Canon
          /\ tip_hash = Outer => \A i \in DOMAIN work : Parent[work[i]] = Outer

\* An orphan waits under its parent's hash.
FiledOrphans ==
    \A p \in Block : \A i \in DOMAIN orphan_pool[p] :
        orphan_pool[p][i].blk # Genesis /\ Parent[orphan_pool[p][i].blk] = p

Winning == UNION {r.winning_tx_ids : r \in pending_reorg_recovery}

\* There is at most one set of recovery data, and what it calls won is on the chain.
RecoveryInv ==
    Winning \subseteq Confirmed /\ \A r, s \in pending_reorg_recovery : r = s

TaskTypes ==
    /\ inbound \in [at : {"idle", "applying", "clear_id", "clear_job"}, blk : Hash]
    /\ settling \subseteq Sync
    /\ miner \in [at : {"idle", "built", "searching", "found", "submitting"},
                  job : Job, blk : Hash]
    /\ active_job \in BOOLEAN /\ current_job \in BOOLEAN
    /\ unswept \subseteq Tx

NodeInv ==
    /\ ChainInv /\ SoundPool(pool) /\ TaskTypes
    /\ CallInv /\ NestInv /\ FiledOrphans /\ RecoveryInv

\* Recovery data on p, as the importers, the syncs and the miner take it.
LEMMA TakeRecoveryFacts ==
    ASSUME ChainInv, RecoveryInv, NEW p, SoundPool(p), TakeRecovery(p)
    PROVE  /\ SoundPool(pool')
           /\ \A u \in p.by_id \ pool'.by_id :
                 \/ u \in Winning
                 \/ Cardinality(pool'.by_id) = MempoolMax
                 \/ \E v \in pool'.by_id : SameSlot(v, u) /\ Tip[v] > Tip[u]
           /\ \A u \in pool'.by_id \ p.by_id : TxNonce[u] >= nonce_of(Sender[u])
           /\ pool'.by_id \cap Winning = {}
           /\ \A r \in pending_reorg_recovery :
                 \A t \in r.displaced_txs \ (r.winning_tx_ids \cup Coinbase \cup BadTx) :
                    TxNonce[t] = nonce_of(Sender[t]) =>
                       Served(pool', t) \/ Cardinality(pool'.by_id) = MempoolMax
<1>1. CASE pending_reorg_recovery = {}
    BY <1>1 DEF TakeRecovery, Winning
<1>2. CASE pending_reorg_recovery # {}
    <2>1. PICK r \in pending_reorg_recovery : \E c \in M!Candidates(r) :
             pool' = M!requeue_after_reorg(p, r, c, Nonces)
        BY <1>2 DEF TakeRecovery
    <2>2. r \in ReorgRecovery /\ ledger \in Block
        BY DEF ChainInv, TypeOK
    <2>3. Requeued(p, r, pool')
        BY <2>1, <2>2, RequeueFacts
    <2>4. pending_reorg_recovery = {r} /\ Winning = r.winning_tx_ids
        BY DEF RecoveryInv, Winning
    <2> QED BY <2>3, <2>4 DEF Requeued
<1> QED BY <1>1, <1>2

-----------------------------------------------------------------------------
\* What one call of apply_block does to chain, tip and recovery data.

\* b failed a check, or waits for its parent.
Passed(b) ==
    /\ Canon' = Canon /\ tip_hash' = tip_hash /\ Known' = Known
    /\ UNCHANGED pending_reorg_recovery
    /\ work' = Tail(work) /\ \E o \in {"Rejected", "StoredOrphan"} : Answer(o)

Sided(b) ==
    /\ Canon' = Canon /\ tip_hash' = tip_hash /\ Known' = Known \cup {b}
    /\ UNCHANGED pending_reorg_recovery /\ Parent[b] # tip_hash
    /\ process_orphans(b) /\ Answer("SideChain")

Extended(b) ==
    /\ Canon' = Canon \cup {b} /\ tip_hash' = b /\ Known' = Known \cup {b}
    /\ pending_reorg_recovery' = {}
    /\ process_orphans(b) /\ Answer("CanonExtension")

Switched(b) ==
    /\ tip_hash' = b /\ Known' = Known \cup {b} /\ Parent[b] # tip_hash
    /\ \A i \in 0..Depth[b] : Lineage[b][i] \in Canon'
    /\ \E r : /\ pending_reorg_recovery' = {r} /\ r.winning_tx_ids \subseteq Confirmed'
              /\ Confirmed' \subseteq Confirmed \cup r.winning_tx_ids
    /\ process_orphans(b) /\ Answer("CanonExtension")

LEMMA ReorgEffect ==
    ASSUME WellNumbered, ChainInv, NEW b \in Block, Reorganise(b)
    PROVE  Switched(b)
<1> Chained
    BY ChainInvParts
<1>1. tip_hash' = b /\ Known' = Known \cup {b}
    BY ReorgStep
<1>2. /\ b \notin Known /\ b \notin Canon /\ Parent[b] # tip_hash
      /\ process_orphans(b) /\ Answer("CanonExtension")
    BY AcceptedBlock DEF Reorganise, OnSideBranch
<1>3. PICK d \in 0..Depth[b] :
        /\ ForksAt(b, side_blocks \cup {b}, d)
        /\ LET c          == canon_index[Lineage[b][d]]
               newSegment == {Lineage[b][i] : i \in (d + 1)..Depth[b]}
               demoted    == {blocks[i] : i \in (c + 1)..top}
               winning    == UNION {Txs[x] : x \in newSegment}
           IN  /\ pending_reorg_recovery' =
                     {[displaced_txs |-> UNION {Txs[x] : x \in demoted} \ winning,
                       winning_tx_ids |-> winning]}
               /\ canon_index' =
                     [x \in Block |-> IF x \in newSegment THEN Number[x]
                                      ELSE IF x \in demoted THEN NoHeight
                                      ELSE canon_index[x]]
    BY Zenon DEF Reorganise
<1>4. /\ canon_index[Lineage[b][d]] = d /\ d \in Nat /\ d <= top /\ d < Depth[b]
      /\ \A i \in 0..d : Lineage[b][i] = blocks[i]
    <2>1. b \notin Canon /\ ForksAt(b, side_blocks \cup {b}, d)
        BY <1>2, <1>3, Zenon
    <2>2. /\ canon_index[Lineage[b][d]] = d /\ Lineage[b][d] = blocks[d]
          /\ d \in Nat /\ d <= top /\ d < Depth[b]
          /\ \A i \in 0..d : Lineage[b][i] = blocks[i]
        BY <2>1, ForkPoint
    <2> QED BY <2>2
<1> DEFINE A == Adopted(b, d)  X == Demoted(d)  W == UNION {Txs[x] : x \in A}
           r == [displaced_txs |-> UNION {Txs[x] : x \in X} \ W, winning_tx_ids |-> W]
<1>5. /\ pending_reorg_recovery' = {r}
      /\ canon_index' = [x \in Block |-> IF x \in A THEN Number[x]
                                         ELSE IF x \in X THEN NoHeight ELSE canon_index[x]]
    BY <1>3, <1>4, Zenon DEF Adopted, Demoted
<1>6. /\ \A x \in A : x \in Block
      /\ \A i \in (d + 1)..Depth[b] : Lineage[b][i] \in A
      /\ \A x \in X : x \in Block /\ x \in Canon /\ canon_index[x] > d
    BY <1>2, <1>3, MovedBlocks
<1>7. \A x \in Block : Number[x] \in Nat
    BY DepthFacts
<1> HIDE DEF A, X
<1>8. /\ \A x \in A : x \in Canon'
      /\ \A x \in Canon : x \notin X => x \in Canon'
      /\ \A x \in Canon' : x \in A \/ x \in Canon
    BY <1>5, <1>6, <1>7 DEF Canon, NoHeight
<1>9. ASSUME NEW i \in 0..Depth[b] PROVE Lineage[b][i] \in Canon'
    <2>1. CASE i > d
        BY <2>1, <1>4, <1>6, <1>8
    <2>2. CASE ~(i > d)
        <3>1. i \in 0..d /\ i \in 0..top
            BY <2>2, <1>4, TipFacts
        <3>2. Lineage[b][i] = blocks[i] /\ blocks[i] \in Canon /\ canon_index[blocks[i]] = i
            BY <3>1, <1>4, TipFacts
        <3>3. blocks[i] \notin X
            BY <3>1, <3>2, <1>4, <1>6
        <3> QED BY <3>2, <3>3, <1>8
    <2> QED BY <2>1, <2>2
<1>10. r.winning_tx_ids = W
    OBVIOUS
<1> HIDE DEF r
<1>11. W \subseteq Confirmed' /\ Confirmed' \subseteq Confirmed \cup W
    BY <1>8 DEF Confirmed
<1> QED BY <1>1, <1>2, <1>5, <1>9, <1>10, <1>11 DEF Switched

LEMMA ExtendEffect ==
    ASSUME WellNumbered, ChainInv, NEW b \in Block, ExtendCanonical(b)
    PROVE  Extended(b)
<1> Chained
    BY ChainInvParts
<1>1. tip_hash' = b /\ Known' = Known \cup {b}
    BY ExtendStep
<1>2. /\ canon_index' = [canon_index EXCEPT ![b] = Number[b]] /\ pending_reorg_recovery' = {}
      /\ process_orphans(b) /\ Answer("CanonExtension")
    BY DEF ExtendCanonical, push_canonical
<1>3. Number[b] \in Nat /\ canon_index \in [Block -> Nat \cup {NoHeight}]
    BY DepthFacts DEF Chained, Typed
<1>4. Canon' = Canon \cup {b}
    BY <1>2, <1>3 DEF Canon, NoHeight
<1> QED BY <1>1, <1>2, <1>4 DEF Extended

LEMMA StepEffects ==
    ASSUME WellNumbered, ChainInv, Step
    PROVE  /\ ChainInv'
           /\ \E b \in Block : /\ Applying(b)
                               /\ Passed(b) \/ Sided(b) \/ Extended(b) \/ Switched(b)
                               /\ Passed(b) \/ (b \notin Malformed \cup Invalid /\ b # Genesis)
<1> Chained
    BY ChainInvParts
<1>1. PICK b \in Block : \/ Reject(b) \/ RejectUnpersisted(b) \/ StoreOrphan(b)
                        \/ ExtendCanonical(b) \/ StoreSide(b) \/ Reorganise(b)
    BY DEF Step
<1>2. Applying(b)
    BY <1>1 DEF Reject, RejectUnpersisted, StoreOrphan, ExtendCanonical, StoreSide, Reorganise,
                OnSideBranch
<1>3. CASE Reject(b) \/ RejectUnpersisted(b) \/ StoreOrphan(b)
    <2>1. Quiet
        BY <1>3 DEF Quiet
    <2>2. ChainInv'
        BY <2>1, QuietSteps
    <2>3. Canon' = Canon /\ tip_hash' = tip_hash /\ Known' = Known
        BY <2>1, QuietChained
    <2>4. /\ UNCHANGED pending_reorg_recovery
          /\ work' = Tail(work) /\ \E o \in {"Rejected", "StoredOrphan"} : Answer(o)
        BY <1>3 DEF Reject, RejectUnpersisted, StoreOrphan, memVars
    <2> QED BY <1>2, <2>2, <2>3, <2>4 DEF Passed
<1>4. ASSUME ExtendCanonical(b) \/ StoreSide(b) \/ Reorganise(b)
      PROVE  b \notin Malformed \cup Invalid /\ b # Genesis
    BY <1>4, AcceptedBlock
    DEF ExtendCanonical, StoreSide, Reorganise, OnSideBranch, WellFormed, Valid
<1>5. CASE ExtendCanonical(b)
    BY <1>2, <1>4, <1>5, ExtendEffect, ExtendStep
<1>6. CASE StoreSide(b)
    <2>1. ChainInv' /\ tip_hash' = tip_hash /\ Known' = Known \cup {b}
        BY <1>6, StoreSideStep
    <2>2. Canon' = Canon
        BY <1>6 DEF StoreSide, Canon
    <2>3. /\ UNCHANGED pending_reorg_recovery /\ Parent[b] # tip_hash
          /\ process_orphans(b) /\ Answer("SideChain")
        BY <1>6 DEF StoreSide, OnSideBranch
    <2> QED BY <1>2, <1>4, <1>6, <2>1, <2>2, <2>3 DEF Sided
<1>7. CASE Reorganise(b)
    BY <1>2, <1>4, <1>7, ReorgEffect, ReorgStep
<1> QED BY <1>1, <1>3, <1>5, <1>6, <1>7

\* Children of an outermost block, and of blocks above it, lie above it.
LEMMA ChildBelow ==
    ASSUME NEW a \in Block, NEW b \in Block, b = a \/ Below(a, b),
           NEW x \in Block, x # Genesis, Parent[x] = b
    PROVE  Below(a, x)
<1>1. /\ Depth[b] \in Nat /\ Depth[x] = Depth[b] + 1
      /\ \A i \in 0..Depth[b] : Lineage[x][i] = Lineage[b][i]
    BY ParentFacts
<1>2. Depth[a] \in Nat /\ Lineage[a][Depth[a]] = a
    BY DepthFacts
<1>3. Depth[a] \in 0..Depth[b] /\ Lineage[b][Depth[a]] = a
    BY <1>1, <1>2 DEF Below
<1> QED BY <1>1, <1>2, <1>3 DEF Below

\* What is left to apply after b: its orphans, and what was left before.
LEMMA PromotedWork ==
    ASSUME TypeOK, FiledOrphans, NEW b \in Block, Applying(b), process_orphans(b),
           NEW i \in DOMAIN work'
    PROVE  \/ work'[i] \in Block /\ work'[i] # Genesis /\ Parent[work'[i]] = b
           \/ \E j \in DOMAIN Tail(work) : work'[i] = Tail(work)[j]
<1> DEFINE q == orphan_pool[b]
           p == [k \in DOMAIN q |-> q[k].blk]
<1>1. q \in Seq(Orphan) /\ work \in Seq(Block) /\ work # <<>>
    BY DEF TypeOK, Applying
<1>2. Len(q) \in Nat /\ DOMAIN q = 1..Len(q) /\ \A k \in DOMAIN q : q[k].blk \in Block
    <2>1. Len(q) \in Nat /\ DOMAIN q = 1..Len(q) /\ \A k \in DOMAIN q : q[k] \in Orphan
        <3> HIDE DEF q
        <3> QED BY <1>1
    <2> QED BY <2>1 DEF Orphan
<1>3. \A k \in DOMAIN q : p[k] \in Block /\ p[k] # Genesis /\ Parent[p[k]] = b
    BY <1>2 DEF FiledOrphans
<1>4. p \in Seq(Block) /\ Len(p) = Len(q) /\ DOMAIN p = 1..Len(q)
    <2>1. p \in [1..Len(q) -> Block]
        BY <1>2, <1>3
    <2> QED BY <2>1, <1>2
<1>5. work' = p \o Tail(work)
    BY DEF process_orphans
<1> DEFINE z == Tail(work)
<1>6. z \in Seq(Block) /\ Len(z) \in Nat /\ DOMAIN z = 1..Len(z)
    BY <1>1, HeadTailProperties
<1> HIDE DEF p, q, z
<1>7. /\ DOMAIN work' = 1..(Len(p) + Len(z))
      /\ work'[i] = IF i <= Len(p) THEN p[i] ELSE z[i - Len(p)]
    <2>1. /\ Len(p \o z) = Len(p) + Len(z) /\ DOMAIN (p \o z) = 1..(Len(p) + Len(z))
          /\ \A k \in 1..(Len(p) + Len(z)) :
                (p \o z)[k] = IF k <= Len(p) THEN p[k] ELSE z[k - Len(p)]
        <3>1. /\ p \o z \in Seq(Block) /\ Len(p \o z) = Len(p) + Len(z)
              /\ \A k \in 1..(Len(p) + Len(z)) :
                    (p \o z)[k] = IF k <= Len(p) THEN p[k] ELSE z[k - Len(p)]
            BY <1>4, <1>6, ConcatProperties
        <3>2. DOMAIN (p \o z) = 1..Len(p \o z)
            BY <3>1, LenProperties
        <3> QED BY <3>1, <3>2
    <2>2. work' = p \o z
        BY <1>5 DEF z
    <2> QED BY <2>1, <2>2
<1>8. CASE i <= Len(p)
    BY <1>8, <1>2, <1>3, <1>4, <1>6, <1>7
<1>9. CASE ~(i <= Len(p))
    <2>1. i - Len(p) \in DOMAIN z
        BY <1>9, <1>2, <1>4, <1>6, <1>7
    <2> QED BY <2>1, <1>9, <1>7 DEF z
<1> QED BY <1>8, <1>9

-----------------------------------------------------------------------------
\* Every step keeps the invariant.

LEMMA OuterIs ==
    /\ holder = Announce => Outer = inbound.blk
    /\ holder = Miner => Outer = miner.blk
    /\ holder' = Announce => Outer' = inbound'.blk
    /\ holder' = Miner => Outer' = miner'.blk
BY DEF Outer, Announce, Miner

LEMMA FiledStep ==
    ASSUME TypeOK, FiledOrphans, Step
    PROVE  FiledOrphans'
<1>1. PICK b \in Block : \/ Reject(b) \/ RejectUnpersisted(b) \/ StoreOrphan(b)
                        \/ ExtendCanonical(b) \/ StoreSide(b) \/ Reorganise(b)
    BY DEF Step
<1>2. CASE Reject(b) \/ RejectUnpersisted(b)
    <2>1. UNCHANGED orphan_pool
        BY <1>2 DEF Reject, RejectUnpersisted, memVars
    <2> QED BY <2>1 DEF FiledOrphans
<1>3. CASE StoreOrphan(b)
    <2>1. b # Genesis /\ add_orphan(b) /\ now \in Nat /\ orphan_pool \in [Block -> Seq(Orphan)]
        BY <1>3, GenesisFacts DEF StoreOrphan, TypeOK
    <2>2. \A p \in Block : \A i \in DOMAIN orphan_pool'[p] :
             \/ \E k \in DOMAIN orphan_pool[p] : orphan_pool'[p][i] = orphan_pool[p][k]
             \/ p = Parent[b] /\ orphan_pool'[p][i].blk = b
        BY <2>1, AddOrphanFacts
    <2>3. ASSUME NEW p \in Block, NEW i \in DOMAIN orphan_pool'[p]
          PROVE  orphan_pool'[p][i].blk # Genesis /\ Parent[orphan_pool'[p][i].blk] = p
        <3>1. CASE p = Parent[b] /\ orphan_pool'[p][i].blk = b
            BY <3>1, <2>1
        <3>2. CASE \E k \in DOMAIN orphan_pool[p] : orphan_pool'[p][i] = orphan_pool[p][k]
            BY <3>2 DEF FiledOrphans
        <3> QED BY <3>1, <3>2, <2>2
    <2> QED BY <2>3 DEF FiledOrphans
<1>4. CASE ExtendCanonical(b) \/ StoreSide(b) \/ Reorganise(b)
    <2>1. orphan_pool' = [orphan_pool EXCEPT ![b] = <<>>] /\ orphan_pool \in [Block -> Seq(Orphan)]
        BY <1>4 DEF ExtendCanonical, StoreSide, Reorganise, process_orphans, TypeOK
    <2>2. \A p \in Block : p # b => orphan_pool'[p] = orphan_pool[p]
        BY <2>1
    <2>3. DOMAIN orphan_pool'[b] = {}
        BY <2>1
    <2> QED BY <2>2, <2>3 DEF FiledOrphans
<1> QED BY <1>1, <1>2, <1>3, <1>4

\* The nested calls of apply_block.
LEMMA ApplyNest ==
    ASSUME WellNumbered, NodeInv, ApplyStep
    PROVE  NestInv'
<1>0. TypeOK /\ FiledOrphans /\ CallInv /\ NestInv /\ ChainInv
    BY DEF NodeInv, ChainInv
<1> SUFFICES ASSUME OwnCall' PROVE NestInv'
    BY DEF NestInv
<1>1. OwnCall /\ UNCHANGED <<holder, inbound, miner, fetched>> /\ Step
    BY DEF OwnCall, ApplyStep, TaskVars
<1> DEFINE o == Outer
<1>2. o \in Block /\ Outer' = o
    <2>1. CASE holder = Announce
        BY <2>1, <1>0, <1>1, OuterIs DEF CallInv
    <2>2. CASE holder = Miner
        BY <2>2, <1>0, <1>1, OuterIs DEF CallInv
    <2> QED BY <2>1, <2>2, <1>1 DEF OwnCall
<1> HIDE DEF o
<1>3. PICK b \in Block : Applying(b) /\ (Passed(b) \/ Sided(b) \/ Extended(b) \/ Switched(b))
    BY <1>0, <1>1, StepEffects
<1>4. /\ work \in Seq(Block) /\ work # <<>> /\ b = work[1] /\ 1 \in DOMAIN work
      /\ \A j \in DOMAIN Tail(work) : Tail(work)[j] \in Block
                                       /\ \E k \in DOMAIN work : Tail(work)[j] = work[k]
    <2>1. work \in Seq(Block) /\ work # <<>> /\ b = Head(work)
        BY <1>0, <1>3 DEF TypeOK, Applying
    <2>2. /\ Tail(work) \in Seq(Block) /\ Len(Tail(work)) = Len(work) - 1
          /\ \A j \in 1..Len(Tail(work)) : Tail(work)[j] = work[j + 1]
        BY <2>1, HeadTailProperties
    <2>3. DOMAIN work = 1..Len(work) /\ DOMAIN Tail(work) = 1..Len(Tail(work)) /\ Len(work) \in Nat
        BY <2>1, <2>2
    <2>4. Len(work) # 0
        BY <2>1, EmptySeq
    <2> QED BY <2>1, <2>2, <2>3, <2>4
<1>5. result # "idle" /\ Free # Announce /\ Free # Miner
    BY <1>0, <1>1 DEF CallInv, OwnCall, Free, Announce, Miner
<1>6. ASSUME NEW i \in DOMAIN work', ~Passed(b)
      PROVE  \/ work'[i] \in Block /\ work'[i] # Genesis /\ Parent[work'[i]] = b
             \/ \E j \in DOMAIN Tail(work) : work'[i] = Tail(work)[j]
    <2>1. process_orphans(b)
        BY <1>3, <1>6 DEF Sided, Extended, Switched
    <2> QED BY <2>1, <1>0, <1>3, PromotedWork
<1>7. CASE result = "pending"
    <2>1. b = o /\ Tail(work) = <<>>
        <3>1. work = <<o>>
            BY <1>0, <1>1, <1>7 DEF NestInv, o
        <3> QED BY <3>1, <1>4
    <2>2. CASE Passed(b)
        <3>1. work' = <<>> /\ result' \in {"Rejected", "StoredOrphan"}
            BY <2>1, <2>2, <1>7 DEF Passed, Answer
        <3> QED BY <3>1 DEF NestInv
    <2>3. CASE ~Passed(b)
        <3>1. ASSUME NEW i \in DOMAIN work'
              PROVE  Below(o, work'[i]) /\ Parent[work'[i]] = o
            <4>1. work'[i] \in Block /\ work'[i] # Genesis /\ Parent[work'[i]] = o
                BY <1>6, <2>1, <2>3
            <4> QED BY <4>1, <1>2, ChildBelow
        <3>2. result' \in {"SideChain", "CanonExtension"}
            BY <1>3, <1>7, <2>3 DEF Sided, Extended, Switched, Answer
        <3>3. ASSUME result' = "CanonExtension" PROVE o \in Canon'
            <4>1. Extended(b) \/ Switched(b)
                BY <1>3, <1>7, <2>3, <3>3 DEF Sided, Answer
            <4>2. Depth[b] \in 0..Depth[b] /\ Lineage[b][Depth[b]] = b
                BY DepthFacts
            <4> QED BY <4>1, <4>2, <2>1 DEF Extended, Switched
        <3> QED BY <3>1, <3>2, <3>3, <1>2 DEF NestInv
    <2> QED BY <2>2, <2>3
<1>8. CASE result # "pending"
    <2>1. result' = result
        BY <1>3, <1>8 DEF Passed, Sided, Extended, Switched, Answer
    <2>2. \A i \in DOMAIN work : Below(o, work[i])
        BY <1>0, <1>1, <1>8 DEF NestInv, o
    <2>3. Below(o, b)
        BY <2>2, <1>4
    <2>4. ASSUME NEW i \in DOMAIN work' PROVE Below(o, work'[i])
        <3>1. CASE \E j \in DOMAIN Tail(work) : work'[i] = Tail(work)[j]
            BY <3>1, <2>2, <1>4
        <3>2. CASE work'[i] \in Block /\ work'[i] # Genesis /\ Parent[work'[i]] = b
            BY <3>2, <2>3, <1>2, ChildBelow
        <3>3. CASE Passed(b)
            <4>1. work'[i] = Tail(work)[i] /\ i \in DOMAIN Tail(work)
                BY <3>3 DEF Passed
            <4> QED BY <4>1, <3>1
        <3> QED BY <3>1, <3>2, <3>3, <1>6
    <2>5. ASSUME result = "CanonExtension"
          PROVE  /\ o \in Canon'
                 /\ tip_hash' = o => \A i \in DOMAIN work' : Parent[work'[i]] = o
        <3>1. /\ o \in Canon
              /\ tip_hash = o => \A i \in DOMAIN work : Parent[work[i]] = o
            BY <2>5, <1>0, <1>1 DEF NestInv, o
        <3>2. o # b /\ Depth[o] \in 0..Depth[b] /\ Lineage[b][Depth[o]] = o
            <4>1. Depth[o] \in Nat /\ Depth[b] \in Nat
                BY <1>2, DepthFacts
            <4> QED BY <4>1, <2>3 DEF Below
        <3>3. CASE Passed(b)
            <4>1. ASSUME NEW i \in DOMAIN work', tip_hash = o PROVE Parent[work'[i]] = o
                <5>1. work'[i] = Tail(work)[i] /\ i \in DOMAIN Tail(work)
                    BY <3>3 DEF Passed
                <5> QED BY <5>1, <4>1, <3>1, <1>4
            <4> QED BY <3>3, <4>1, <3>1 DEF Passed
        <3>4. CASE Sided(b)
            <4>1. tip_hash # o
                BY <3>4, <3>1, <1>4 DEF Sided
            <4> QED BY <3>4, <4>1, <3>1 DEF Sided
        <3>5. CASE Extended(b)
            BY <3>5, <3>1, <3>2 DEF Extended
        <3>6. CASE Switched(b)
            BY <3>6, <3>2 DEF Switched
        <3> QED BY <1>3, <3>3, <3>4, <3>5, <3>6
    <2> QED BY <2>1, <2>4, <2>5, <1>2, <1>8 DEF NestInv
<1> QED BY <1>7, <1>8

LEMMA ApplyKeeps ==
    ASSUME WellNumbered, NodeInv, ApplyStep
    PROVE  NodeInv'
<1>0. TypeOK /\ FiledOrphans /\ CallInv /\ ChainInv /\ RecoveryInv
    BY DEF NodeInv, ChainInv
<1>1. UNCHANGED <<holder, inbound, miner, fetched, pool>> /\ Step /\ holder # Free
    BY DEF ApplyStep, TaskVars
<1>2. ChainInv'
    BY <1>0, <1>1, StepEffects
<1>3. PICK b \in Block : Applying(b) /\ (Passed(b) \/ Sided(b) \/ Extended(b) \/ Switched(b))
    BY <1>0, <1>1, StepEffects
<1>4. CallInv'
    <2>1. result # "idle"
        BY <1>0, <1>1 DEF CallInv
    <2>2. result' # "idle"
        BY <1>3, <2>1 DEF Passed, Sided, Extended, Switched, Answer
    <2> QED BY <2>2, <1>0, <1>1 DEF CallInv
<1>5. RecoveryInv'
    <2>1. CASE Passed(b) \/ Sided(b)
        <3>1. Canon' = Canon /\ UNCHANGED pending_reorg_recovery
            BY <2>1 DEF Passed, Sided
        <3> QED BY <3>1, <1>0 DEF RecoveryInv, Winning, Confirmed
    <2>2. CASE Extended(b)
        BY <2>2 DEF RecoveryInv, Winning, Extended
    <2>3. CASE Switched(b)
        BY <2>3 DEF RecoveryInv, Winning, Switched
    <2> QED BY <1>3, <2>1, <2>2, <2>3
<1>6. FiledOrphans'
    BY <1>0, <1>1, FiledStep
<1>7. SoundPool(pool)'
    BY <1>1 DEF NodeInv
<1>8. NestInv'
    BY ApplyNest
<1>9. TaskTypes'
    <2>1. UNCHANGED <<inbound, settling, miner, active_job, current_job>>
        BY DEF ApplyStep, TaskVars
    <2>2. unswept' \subseteq Confirmed'
        BY Zenon DEF ApplyStep
    <2>3. Confirmed' \subseteq Tx
        BY BlockAssumption DEF BlockAssumption, Confirmed, Canon
    <2> QED BY <2>1, <2>2, <2>3 DEF NodeInv, TaskTypes
<1> QED BY <1>2, <1>4, <1>5, <1>6, <1>7, <1>8, <1>9 DEF NodeInv

\* Steps that leave the chain and its indexes alone.
LEMMA CallFrame ==
    ASSUME ChainInv, UNCHANGED <<blocks, top, canon_index, side_blocks, seen_blocks,
                                 cumulative_work, orphan_pool, ledger, dbVars, now, faults>>,
           pending_reorg_recovery' \subseteq pending_reorg_recovery, work' \in Seq(Block),
           result' \in Outcome \cup {"idle", "pending"}
    PROVE  ChainInv' /\ Canon' = Canon /\ tip_hash' = tip_hash /\ Known' = Known
<1>1. Chained /\ WorkTyped /\ LedgerAtTip /\ StoreMatchesMemory
    BY ChainInvParts
<1>2. Typed'
    BY <1>1 DEF Chained, Typed, dbVars
<1>3. Chained' /\ tip_hash' = tip_hash /\ Canon' = Canon /\ Known' = Known
    BY <1>1, <1>2, ChainUntouched
<1>4. WorkTyped' /\ LedgerAtTip' /\ StoreMatchesMemory'
    BY <1>1, <1>3 DEF WorkTyped, LedgerAtTip, StoreMatchesMemory, dbVars
<1> QED BY <1>3, <1>4, ChainInvParts

\* The chain, for any step but a call of apply_block.
LEMMA OutsideFrame ==
    ASSUME NodeInv, UNCHANGED <<blocks, top, canon_index, side_blocks, seen_blocks,
                                cumulative_work, orphan_pool, ledger, dbVars, now, faults>>,
           pending_reorg_recovery' \in {pending_reorg_recovery, {}},
           work' \in Seq(Block), result' \in Outcome \cup {"idle", "pending"}
    PROVE  /\ ChainInv' /\ FiledOrphans' /\ RecoveryInv'
           /\ Canon' = Canon /\ tip_hash' = tip_hash /\ Confirmed' = Confirmed
<1>1. ChainInv' /\ Canon' = Canon /\ tip_hash' = tip_hash
    <2>1. pending_reorg_recovery' \subseteq pending_reorg_recovery
        OBVIOUS
    <2> QED BY <2>1, CallFrame DEF NodeInv
<1>2. Confirmed' = Confirmed
    BY <1>1 DEF Confirmed
<1>3. FiledOrphans'
    BY DEF NodeInv, FiledOrphans
<1>4. RecoveryInv'
    BY <1>2 DEF NodeInv, RecoveryInv, Winning
<1> QED BY <1>1, <1>2, <1>3, <1>4

\* A step after which nobody has the lock.
LEMMA ReleasedKeeps ==
    ASSUME NodeInv, UNCHANGED <<blocks, top, canon_index, side_blocks, seen_blocks,
                                cumulative_work, orphan_pool, ledger, dbVars, now, faults>>,
           pending_reorg_recovery' \in {pending_reorg_recovery, {}},
           work' = <<>>, result' = "idle", holder' = Free,
           SoundPool(pool'), TaskTypes', fetched' \in [Sync -> Seq(Block)],
           miner'.at = "found" => miner'.blk \in Block
    PROVE  NodeInv'
<1>1. work' \in Seq(Block)
    OBVIOUS
<1>2. ChainInv' /\ FiledOrphans' /\ RecoveryInv'
    BY <1>1, OutsideFrame
<1>3. CallInv' /\ NestInv'
    BY PoolAssumption DEF CallInv, NestInv, OwnCall, Free, Announce, Miner
<1> QED BY <1>2, <1>3 DEF NodeInv

\* A task moves on beside the chain and the pool.
Beside ==
    /\ UNCHANGED <<vars, pool, holder, unswept>>
    /\ TaskTypes' /\ fetched' \in [Sync -> Seq(Block)]
    /\ holder # Free => UNCHANGED fetched
    /\ holder = Announce => inbound' = inbound
    /\ holder = Miner => miner' = miner
    /\ miner'.at = "found" => miner'.blk \in Block

LEMMA BesideKeeps ==
    ASSUME NodeInv, Beside PROVE NodeInv'
<1>0. UNCHANGED <<vars, pool, holder>> /\ TaskTypes'
    BY DEF Beside
<1>1. work' \in Seq(Block) /\ result' \in Outcome \cup {"idle", "pending"}
    BY <1>0 DEF NodeInv, ChainInv, TypeOK, vars
<1>2. /\ ChainInv' /\ FiledOrphans' /\ RecoveryInv'
      /\ Canon' = Canon /\ tip_hash' = tip_hash
    BY <1>0, <1>1, OutsideFrame DEF vars, memVars
<1>3. CallInv'
    BY <1>0, PoolAssumption DEF Beside, NodeInv, CallInv, vars, Free
<1>4. NestInv'
    <2>1. OwnCall' => OwnCall /\ Outer' = Outer
        BY OuterIs DEF Beside, OwnCall
    <2> QED BY <2>1, <1>0, <1>2 DEF NodeInv, NestInv, vars
<1>5. SoundPool(pool')
    BY <1>0 DEF NodeInv
<1> QED BY <1>0, <1>2, <1>3, <1>4, <1>5 DEF NodeInv

\* apply_block is called: on an announced block, a fetched one or a mined one.
LEMMA CalledKeeps ==
    ASSUME NodeInv, NEW who \in {Announce, Miner} \cup Sync, NEW b \in Block,
           LockAndApply(who, b), TaskTypes', UNCHANGED fetched,
           who \in Sync => fetched[who] # <<>>,
           who = Announce => inbound'.at = "applying" /\ inbound'.blk = b,
           who = Miner => miner'.at = "submitting" /\ miner'.blk = b,
           miner'.at = "found" => miner'.blk \in Block
    PROVE  NodeInv' /\ UNCHANGED <<pool, unswept>> /\ Confirmed' = Confirmed
<1>0. /\ holder = Free /\ holder' = who /\ result' = "pending" /\ work' = <<b>>
      /\ UNCHANGED <<memVars, dbVars, now, faults, pool, unswept>>
    BY DEF LockAndApply, Submit
<1>1. work' \in Seq(Block)
    BY <1>0
<1>2. /\ ChainInv' /\ FiledOrphans' /\ RecoveryInv' /\ Confirmed' = Confirmed
    BY <1>0, <1>1, OutsideFrame DEF memVars
<1>3. who # Free
    BY PoolAssumption DEF Free, Announce, Miner
<1>4. CallInv'
    BY <1>0, <1>3 DEF CallInv, NodeInv, Free, Announce, Miner
<1>5. NestInv'
    <2>1. OwnCall' => Outer' = b
        BY <1>0, OuterIs DEF OwnCall
    <2> QED BY <2>1, <1>0 DEF NestInv
<1>6. SoundPool(pool')
    BY <1>0 DEF NodeInv
<1> QED BY <1>0, <1>2, <1>4, <1>5, <1>6 DEF NodeInv

\* A job holds transactions.
LEMMA SelectedFacts ==
    ASSUME SoundPool(pool) PROVE ToSet(Selected) \subseteq Tx
<1> DEFINE n == IF Len(pool.order) < BlockTarget THEN Len(pool.order) ELSE BlockTarget
           s == SubSeq(pool.order, 1, n)
           txs == M!select_for_block(pool, BlockTarget)
           k == IF Len(txs) < BlockTarget THEN Len(txs) ELSE BlockTarget - 1
<1>1. pool.order \in Seq(Tx) /\ BlockTarget \in Nat \ {0} /\ Len(pool.order) \in Nat
    BY PoolAssumption DEF SoundPool, M!Pool
<1>2. s \in Seq(Tx)
    <2>1. n \in 0..Len(pool.order)
        BY <1>1
    <2> HIDE DEF n
    <2> QED BY <1>1, <2>1, SubSeqProperties
<1>3. txs = M!retain(s, pool.by_id)
    BY DEF M!select_for_block
<1> HIDE DEF s
<1>4. txs \in Seq(Tx)
    BY <1>2, <1>3, RetainFacts
<1> HIDE DEF txs
<1>5. SubSeq(txs, 1, k) \in Seq(Tx)
    <2>1. Len(txs) \in Nat
        BY <1>4
    <2>2. k \in 0..Len(txs)
        BY <1>1, <2>1
    <2> HIDE DEF k
    <2> QED BY <1>4, <2>1, <2>2, SubSeqProperties
<1>6. Selected = SubSeq(txs, 1, k)
    BY DEF Selected, txs
<1> HIDE DEF k
<1>7. Selected \in Seq(Tx)
    BY <1>5, <1>6
<1> HIDE DEF Selected
<1> QED BY <1>7 DEF ToSet

\* A fetched branch is a sequence of blocks: the walk down ends at a known one.
LEMMA FetchFacts ==
    ASSUME ChainInv, NEW b \in Block
    PROVE  LET from == CHOOSE i \in 0..Depth[b] :
                         /\ Lineage[b][i] \in Known
                         /\ \A j \in (i + 1)..Depth[b] : Lineage[b][j] \notin Known
           IN  [j \in 1..(Depth[b] - from) |-> Lineage[b][from + j]] \in Seq(Block)
<1> DEFINE Met(i) == /\ Lineage[b][i] \in Known
                     /\ \A j \in (i + 1)..Depth[b] : Lineage[b][j] \notin Known
           from == CHOOSE i \in 0..Depth[b] : Met(i)
           T == {Depth[b] - i : i \in {j \in 0..Depth[b] : Lineage[b][j] \in Known}}
<1> Chained
    BY ChainInvParts
<1>1. Depth[b] \in Nat /\ \A i \in 0..Depth[b] : Lineage[b][i] \in Block
    BY DepthFacts
<1>2. Lineage[b][0] = Genesis
    <2>1. 0 \in 0..Depth[b]
        BY <1>1
    <2>2. Depth[Lineage[b][0]] = 0 /\ Lineage[b][0] \in Block
        BY <2>1, LineagePrefix
    <2>3. ASSUME Lineage[b][0] # Genesis PROVE FALSE
        BY <2>2, <2>3, ParentFacts
    <2> QED BY <2>3
<1>3. Genesis \in Known
    BY TipFacts DEF Known
<1>4. T \subseteq Nat /\ T # {}
    <2>1. T \subseteq Nat
        BY <1>1
    <2>2. Depth[b] - 0 \in T
        BY <1>1, <1>2, <1>3
    <2> QED BY <2>1, <2>2
<1>5. PICK m \in T : \A n \in T : m <= n
    <2> HIDE DEF T
    <2> QED BY <1>4, NatMin
<1>6. PICK i \in 0..Depth[b] : m = Depth[b] - i /\ Lineage[b][i] \in Known
    BY <1>5
<1>7. Met(i)
    <2>1. ASSUME NEW j \in (i + 1)..Depth[b], Lineage[b][j] \in Known PROVE FALSE
        <3>1. Depth[b] - j \in T
            BY <2>1, <1>1
        <3>2. Depth[b] - i <= Depth[b] - j
            <4> HIDE DEF T
            <4> QED BY <3>1, <1>5, <1>6
        <3> QED BY <3>2, <1>1
    <2> QED BY <1>6, <2>1
<1>8. from \in 0..Depth[b]
    <2> HIDE DEF Met
    <2> QED BY <1>7
<1> HIDE DEF from
<1>9. /\ Depth[b] - from \in Nat
      /\ \A j \in 1..(Depth[b] - from) : Lineage[b][from + j] \in Block
    BY <1>1, <1>8
<1>10. [j \in 1..(Depth[b] - from) |-> Lineage[b][from + j]] \in Seq(Block)
    <2> DEFINE n == Depth[b] - from
    <2>1. [j \in 1..n |-> Lineage[b][from + j]] \in [1..n -> Block]
        BY <1>9
    <2>2. n \in Nat
        BY <1>9
    <2> HIDE DEF n
    <2>3. [j \in 1..n |-> Lineage[b][from + j]] \in Seq(Block)
        BY <2>1, <2>2
    <2> QED BY <2>3 DEF n
<1> QED BY <1>10 DEF from

\* The tasks' own steps.
LEMMA BesideSteps ==
    ASSUME NodeInv,
           \/ ClearJobId \/ ClearJob
           \/ \E k \in Sync : SkipKnown(k) \/ \E b \in Block : Fetch(k, b)
           \/ MiningPaused \/ BuildCandidate \/ PublishJob \/ Abandon
           \/ \E b \in Block \ {Genesis} : FindBlock(b)
           \/ UNCHANGED allVars
    PROVE  Beside
<1>0. /\ TaskTypes /\ CallInv /\ ChainInv /\ SoundPool(pool)
      /\ fetched \in [Sync -> Seq(Block)]
      /\ holder = Announce => inbound.at = "applying"
      /\ holder = Miner => miner.at = "submitting"
      /\ miner.at = "found" => miner.blk \in Block
    BY DEF NodeInv, CallInv
<1>1. CASE ClearJobId \/ ClearJob
    <2>1. /\ UNCHANGED <<vars, pool, holder, unswept, fetched, settling, miner>>
          /\ holder # Announce
        BY <1>0, <1>1 DEF ClearJobId, ClearJob
    <2>2. TaskTypes'
        <3>1. inbound' \in [at : {"idle", "applying", "clear_id", "clear_job"}, blk : Hash]
            BY <1>0, <1>1 DEF TaskTypes, ClearJobId, ClearJob, Hash
        <3>2. active_job' \in BOOLEAN /\ current_job' \in BOOLEAN
            BY <1>0, <1>1, Zenon DEF TaskTypes, ClearJobId, ClearJob
        <3> QED BY <1>0, <2>1, <3>1, <3>2 DEF TaskTypes
    <2> QED BY <2>1, <2>2, <1>0 DEF Beside
<1>2. ASSUME NEW k \in Sync, SkipKnown(k) \/ \E b \in Block : Fetch(k, b) PROVE Beside
    <2>1. /\ UNCHANGED <<vars, pool, holder, unswept, inbound, settling, miner, active_job,
                         current_job>>
          /\ holder = Free
        BY <1>2 DEF SkipKnown, Fetch
    <2>2. TaskTypes'
        BY <1>0, <2>1 DEF TaskTypes
    <2>3. fetched' \in [Sync -> Seq(Block)]
        <3>1. CASE SkipKnown(k)
            <4>1. fetched[k] # <<>> /\ fetched' = [fetched EXCEPT ![k] = Tail(fetched[k])]
                BY <3>1 DEF SkipKnown
            <4>2. Tail(fetched[k]) \in Seq(Block)
                BY <4>1, <1>0, HeadTailProperties
            <4> QED BY <4>1, <4>2, <1>0
        <3>2. ASSUME NEW b \in Block, Fetch(k, b) PROVE fetched' \in [Sync -> Seq(Block)]
            <4> DEFINE from == CHOOSE i \in 0..Depth[b] :
                                  /\ Lineage[b][i] \in Known
                                  /\ \A j \in (i + 1)..Depth[b] : Lineage[b][j] \notin Known
                       q == [j \in 1..(Depth[b] - from) |-> Lineage[b][from + j]]
            <4>1. fetched' = [fetched EXCEPT ![k] = q]
                BY <3>2, Zenon DEF Fetch
            <4>2. q \in Seq(Block)
                BY <1>0, FetchFacts
            <4> HIDE DEF q
            <4> QED BY <4>1, <4>2, <1>0
        <3> QED BY <3>1, <3>2, <1>2
    <2> QED BY <2>1, <2>2, <2>3, <1>0 DEF Beside
<1>3. CASE MiningPaused
    <2>1. UNCHANGED <<vars, pool, holder, unswept, inbound, fetched, settling, miner>>
        BY <1>3 DEF MiningPaused
    <2>2. TaskTypes'
        BY <1>0, <1>3 DEF TaskTypes, MiningPaused
    <2> QED BY <2>1, <2>2, <1>0 DEF Beside
<1>4. CASE BuildCandidate
    <2>1. UNCHANGED <<vars, pool, holder, unswept, inbound, fetched, settling,
                      active_job, current_job>>
        BY <1>4 DEF BuildCandidate
    <2>2. tip_hash \in Block
        BY <1>0, ChainInvParts, TipFacts
    <2>3. [parent |-> tip_hash, txs |-> ToSet(Selected)] \in Job
        BY <1>0, <2>2, SelectedFacts DEF Job, Hash
    <2>4. miner' = [at |-> "built", job |-> [parent |-> tip_hash, txs |-> ToSet(Selected)],
                    blk |-> NoBlock] /\ miner.at = "idle"
        BY <1>4 DEF BuildCandidate
    <2>5. TaskTypes'
        BY <1>0, <2>1, <2>3, <2>4 DEF TaskTypes, Hash
    <2> QED BY <2>1, <2>4, <2>5, <1>0 DEF Beside
<1>5. CASE PublishJob
    <2>1. UNCHANGED <<vars, pool, holder, unswept, inbound, fetched, settling>>
        BY <1>5 DEF PublishJob
    <2>2. TaskTypes' /\ miner.at = "built" /\ miner'.at = "searching"
        BY <1>0, <1>5 DEF TaskTypes, PublishJob
    <2> QED BY <2>1, <2>2, <1>0 DEF Beside
<1>6. CASE Abandon
    <2>1. UNCHANGED <<vars, pool, holder, unswept, inbound, fetched, settling,
                      active_job, current_job>>
        BY <1>6 DEF Abandon
    <2>2. NoJob \in Job
        BY DEF NoJob, Job, Hash
    <2>3. miner' = [at |-> "idle", job |-> NoJob, blk |-> NoBlock] /\ miner.at = "searching"
        BY <1>6 DEF Abandon
    <2>4. TaskTypes' /\ miner'.at = "idle"
        BY <1>0, <2>1, <2>2, <2>3 DEF TaskTypes, Hash
    <2> QED BY <2>1, <2>3, <2>4, <1>0 DEF Beside
<1>7. ASSUME NEW b \in Block \ {Genesis}, FindBlock(b) PROVE Beside
    <2>1. UNCHANGED <<vars, pool, holder, unswept, inbound, fetched, settling,
                      active_job, current_job>>
        BY <1>7 DEF FindBlock
    <2>2. miner' = [miner EXCEPT !.at = "found", !.blk = b] /\ miner.at = "searching"
        BY <1>7 DEF FindBlock
    <2>3. TaskTypes' /\ miner'.blk = b
        BY <1>0, <2>1, <2>2 DEF TaskTypes, Hash
    <2> QED BY <2>1, <2>2, <2>3, <1>0 DEF Beside
<1>8. CASE UNCHANGED allVars
    <2>1. UNCHANGED <<vars, pool, holder, unswept, inbound, fetched, settling, miner, active_job,
                      current_job>>
        BY <1>8 DEF allVars, NodeVars
    <2>2. TaskTypes'
        BY <1>0, <2>1 DEF TaskTypes
    <2> QED BY <2>1, <2>2, <1>0 DEF Beside
<1> QED BY <1>1, <1>2, <1>3, <1>4, <1>5, <1>6, <1>7, <1>8

(***************************************************************************)
(* What happens to the pool when the importer or the miner lets go: only   *)
(* a canonical block is swept, and its recovery data is taken with it.     *)
(***************************************************************************)
LEMMA SettleFacts ==
    ASSUME NodeInv, OwnCall, SettleUnderLock(Outer), work = <<>>
    PROVE  /\ SoundPool(pool')
           /\ pending_reorg_recovery' \in {pending_reorg_recovery, {}}
           /\ \A u \in pool.by_id \ pool'.by_id :
                 \/ u \in Confirmed
                 \/ Cardinality(pool'.by_id) = MempoolMax
                 \/ \E v \in pool'.by_id : SameSlot(v, u) /\ Tip[v] > Tip[u]
           /\ \A u \in pool'.by_id \ pool.by_id : TxNonce[u] >= nonce_of(Sender[u])
           /\ pending_reorg_recovery' = {} =>
                 \A r \in pending_reorg_recovery :
                 \A t \in r.displaced_txs \ (r.winning_tx_ids \cup Coinbase \cup BadTx) :
                    TxNonce[t] = nonce_of(Sender[t]) =>
                       Served(pool', t) \/ Cardinality(pool'.by_id) = MempoolMax
           /\ result = "CanonExtension" =>
                 \A u \in pool'.by_id \cap (Txs[Outer] \cup Winning) :
                    TxNonce[u] >= nonce_of(Sender[u])
<1>0. ChainInv /\ RecoveryInv /\ SoundPool(pool) /\ NestInv
    BY DEF NodeInv
<1>1. CASE result # "CanonExtension"
    <2>1. UNCHANGED <<pool, pending_reorg_recovery>>
        BY <1>1 DEF SettleUnderLock
    <2> QED BY <2>1, <1>0, <1>1
<1>2. CASE result = "CanonExtension"
    <2> DEFINE p == M!remove_confirmed(pool, Txs[Outer])
    <2>1. TakeRecovery(p)
        BY <1>2 DEF SettleUnderLock
    <2>2. SoundPool(p) /\ p.by_id = pool.by_id \ Txs[Outer]
        BY <1>0, RemoveFacts
    <2> HIDE DEF p
    <2>3. /\ SoundPool(pool')
          /\ \A u \in p.by_id \ pool'.by_id :
                \/ u \in Winning
                \/ Cardinality(pool'.by_id) = MempoolMax
                \/ \E v \in pool'.by_id : SameSlot(v, u) /\ Tip[v] > Tip[u]
          /\ \A u \in pool'.by_id \ p.by_id : TxNonce[u] >= nonce_of(Sender[u])
          /\ pool'.by_id \cap Winning = {}
          /\ \A r \in pending_reorg_recovery :
                \A t \in r.displaced_txs \ (r.winning_tx_ids \cup Coinbase \cup BadTx) :
                   TxNonce[t] = nonce_of(Sender[t]) =>
                      Served(pool', t) \/ Cardinality(pool'.by_id) = MempoolMax
        BY <1>0, <2>1, <2>2, TakeRecoveryFacts
    <2>4. pending_reorg_recovery' = {}
        BY <2>1 DEF TakeRecovery
    <2>5. Txs[Outer] \subseteq Confirmed
        <3>1. Outer \in Canon
            BY <1>0, <1>2 DEF NestInv
        <3> QED BY <3>1 DEF Confirmed
    <2>6. Winning \subseteq Confirmed
        BY <1>0 DEF RecoveryInv
    <2>7. \A u \in pool.by_id \ pool'.by_id :
             \/ u \in Confirmed
             \/ Cardinality(pool'.by_id) = MempoolMax
             \/ \E v \in pool'.by_id : SameSlot(v, u) /\ Tip[v] > Tip[u]
        BY <2>2, <2>3, <2>5, <2>6
    <2>8. \A u \in pool'.by_id \ pool.by_id : TxNonce[u] >= nonce_of(Sender[u])
        BY <2>2, <2>3
    <2>9. \A u \in pool'.by_id \cap (Txs[Outer] \cup Winning) :
             TxNonce[u] >= nonce_of(Sender[u])
        BY <2>2, <2>3
    <2> QED BY <2>3, <2>4, <2>7, <2>8, <2>9
<1> QED BY <1>1, <1>2

\* The importer of announced blocks and the miner let the lock go.
LEMMA SettleKeeps ==
    ASSUME NodeInv, Imported \/ Submitted
    PROVE  /\ NodeInv' /\ OwnCall /\ SettleUnderLock(Outer) /\ work = <<>>
           /\ UNCHANGED <<unswept, ledger>> /\ Confirmed' = Confirmed /\ holder' = Free
           /\ result \in Outcome
<1>0. TaskTypes /\ CallInv /\ fetched \in [Sync -> Seq(Block)] /\ ChainInv
    BY DEF NodeInv, CallInv
<1>1. /\ OwnCall /\ SettleUnderLock(Outer) /\ work = <<>> /\ result \in Outcome
      /\ UNCHANGED <<fetched, settling, active_job, current_job, unswept>>
    BY OuterIs DEF Imported, Submitted, Returned, OwnCall
<1>2. /\ UNCHANGED <<blocks, top, canon_index, side_blocks, seen_blocks, cumulative_work,
                     orphan_pool, ledger, dbVars, work, now, faults>>
      /\ result' = "idle" /\ holder' = Free
    BY <1>1 DEF SettleUnderLock
<1>3. SoundPool(pool') /\ pending_reorg_recovery' \in {pending_reorg_recovery, {}}
    BY <1>1, SettleFacts
<1>4. TaskTypes' /\ (miner'.at = "found" => miner'.blk \in Block)
    <2>1. CASE Imported
        <3>1. UNCHANGED miner
            BY <2>1 DEF Imported
        <3>2. inbound' \in [at : {"idle", "applying", "clear_id", "clear_job"}, blk : Hash]
            BY <2>1, <1>0 DEF Imported, TaskTypes, Hash
        <3> QED BY <3>1, <3>2, <1>0, <1>1 DEF TaskTypes, CallInv
    <2>2. CASE Submitted
        <3>1. UNCHANGED inbound /\ miner' = [at |-> "idle", job |-> NoJob, blk |-> NoBlock]
            BY <2>2 DEF Submitted
        <3>2. NoJob \in Job
            BY DEF NoJob, Job, Hash
        <3>3. /\ miner'.at = "idle"
              /\ miner' \in [at : {"idle", "built", "searching", "found", "submitting"},
                             job : Job, blk : Hash]
            BY <3>1, <3>2 DEF Hash
        <3> QED BY <3>1, <3>3, <1>0, <1>1 DEF TaskTypes
    <2> QED BY <2>1, <2>2
<1>5. fetched' \in [Sync -> Seq(Block)] /\ work' = <<>>
    BY <1>0, <1>1, <1>2
<1>6. NodeInv'
    BY <1>2, <1>3, <1>4, <1>5, ReleasedKeeps
<1>7. Confirmed' = Confirmed
    BY <1>2 DEF Confirmed, Canon
<1> QED BY <1>1, <1>2, <1>6, <1>7

\* A sync gives the lock back, and takes the recovery data later.
LEMMA SyncKeeps ==
    ASSUME NodeInv, NEW k \in Sync, SyncApplied(k) \/ SyncSettle(k)
    PROVE  NodeInv'
<1>0. /\ TaskTypes /\ CallInv /\ fetched \in [Sync -> Seq(Block)] /\ ChainInv
      /\ RecoveryInv /\ SoundPool(pool) /\ (miner.at = "found" => miner.blk \in Block)
    BY DEF NodeInv, CallInv
<1>1. CASE SyncApplied(k)
    <2>1. /\ UNCHANGED <<memVars, dbVars, work, now, faults, pool, inbound, miner, active_job,
                         current_job, unswept>>
          /\ holder' = Free /\ result' = "idle" /\ work = <<>>
        BY <1>1 DEF SyncApplied, Returned
    <2>2. fetched' \in [Sync -> Seq(Block)]
        <3> DEFINE q == IF result \in {"StoredOrphan", "Rejected"} THEN <<>> ELSE Tail(fetched[k])
        <3>1. fetched' = [fetched EXCEPT ![k] = q]
            BY <1>1 DEF SyncApplied
        <3>2. fetched[k] # <<>> \/ result \in {"StoredOrphan", "Rejected"} => q \in Seq(Block)
            <4>1. fetched[k] \in Seq(Block)
                BY <1>0
            <4>2. fetched[k] # <<>> => Tail(fetched[k]) \in Seq(Block)
                BY <4>1, HeadTailProperties
            <4> QED BY <4>2
        <3>3. fetched[k] # <<>>
            <4>1. holder = k /\ k \notin {Free, Announce, Miner}
                BY <1>1, PoolAssumption DEF SyncApplied, Returned, Free, Announce, Miner
            <4> QED BY <4>1, <1>0 DEF CallInv
        <3> HIDE DEF q
        <3> QED BY <3>1, <3>2, <3>3, <1>0
    <2>3. settling' \subseteq Sync
        BY <1>0, <1>1 DEF TaskTypes, SyncApplied
    <2>4. TaskTypes'
        BY <1>0, <2>1, <2>3 DEF TaskTypes
    <2>5. SoundPool(pool')
        BY <1>0, <2>1
    <2> QED BY <1>0, <2>1, <2>2, <2>4, <2>5, ReleasedKeeps DEF memVars
<1>2. CASE SyncSettle(k)
    <2>1. /\ UNCHANGED <<blocks, top, canon_index, side_blocks, seen_blocks, cumulative_work,
                         orphan_pool, ledger, dbVars, work, result, now, faults,
                         holder, inbound, fetched, miner, active_job, current_job, unswept>>
          /\ holder = Free /\ TakeRecovery(pool) /\ settling' \subseteq settling
        BY <1>2 DEF SyncSettle
    <2>2. SoundPool(pool') /\ pending_reorg_recovery' = {}
        BY <1>0, <2>1, TakeRecoveryFacts DEF TakeRecovery
    <2>3. TaskTypes'
        BY <1>0, <2>1 DEF TaskTypes
    <2>4. work' = <<>> /\ result' = "idle" /\ holder' = Free
        BY <1>0, <2>1 DEF CallInv
    <2> QED BY <1>0, <2>1, <2>2, <2>3, <2>4, ReleasedKeeps
<1> QED BY <1>1, <1>2

\* The API puts a transaction to admission.
LEMMA AdmissionKeeps ==
    ASSUME NodeInv, NEW t \in Tx, submit_transaction(t)
    PROVE  /\ NodeInv' /\ Admits(pool, t, nonce_of(Sender[t]), pool')
           /\ UNCHANGED <<vars, unswept, holder>> /\ holder = Free
<1>0. /\ TaskTypes /\ CallInv /\ fetched \in [Sync -> Seq(Block)] /\ ChainInv
      /\ SoundPool(pool) /\ ledger \in Block /\ (miner.at = "found" => miner.blk \in Block)
    BY DEF NodeInv, CallInv, ChainInv, TypeOK
<1>1. /\ UNCHANGED <<vars, holder, TaskVars, unswept>> /\ holder = Free
      /\ pool' = M!admit(pool, t, nonce_of(Sender[t]))
    BY DEF submit_transaction
<1>2. nonce_of(Sender[t]) \in Nat
    BY <1>0, NonceFacts
<1>3. Admits(pool, t, nonce_of(Sender[t]), pool')
    BY <1>0, <1>1, <1>2, AdmitFacts
<1>4. SoundPool(pool')
    BY <1>3 DEF Admits
<1>5. UNCHANGED <<inbound, fetched, settling, miner, active_job, current_job>>
    BY <1>1 DEF TaskVars
<1>6. TaskTypes'
    BY <1>0, <1>1, <1>5 DEF TaskTypes
<1>7. /\ work' = <<>> /\ result' = "idle" /\ holder' = Free
      /\ UNCHANGED <<blocks, top, canon_index, side_blocks, seen_blocks,
                     cumulative_work, orphan_pool, ledger, dbVars, now, faults>>
      /\ pending_reorg_recovery' = pending_reorg_recovery
    BY <1>0, <1>1 DEF CallInv, vars, memVars
<1>8. NodeInv'
    BY <1>0, <1>4, <1>5, <1>6, <1>7, ReleasedKeeps
<1> QED BY <1>1, <1>3, <1>8

\* The three calls of apply_block.
LEMMA CallStarts ==
    ASSUME NodeInv,
           \/ \E b \in Block : ReceiveBlock(b)
           \/ \E k \in Sync : SyncApply(k)
           \/ SubmitSolution
    PROVE  NodeInv' /\ UNCHANGED <<pool, unswept>> /\ Confirmed' = Confirmed /\ holder = Free
           /\ result' = "pending" /\ UNCHANGED pending_reorg_recovery
<1>0. /\ TaskTypes /\ fetched \in [Sync -> Seq(Block)]
      /\ (miner.at = "found" => miner.blk \in Block)
    BY DEF NodeInv, CallInv
<1>1. ASSUME NEW who, NEW b, LockAndApply(who, b)
      PROVE  /\ holder = Free /\ result' = "pending"
             /\ UNCHANGED pending_reorg_recovery /\ UNCHANGED unswept
    BY <1>1 DEF LockAndApply, Submit, memVars
<1>2. /\ Announce # Miner /\ Announce \notin Sync /\ Miner \notin Sync
    BY PoolAssumption DEF Announce, Miner
<1>3. ASSUME NEW b \in Block, ReceiveBlock(b)
      PROVE  NodeInv' /\ UNCHANGED <<pool, unswept>> /\ Confirmed' = Confirmed
    <2>1. /\ inbound' = [at |-> "applying", blk |-> b] /\ LockAndApply(Announce, b)
          /\ UNCHANGED <<fetched, settling, miner, active_job, current_job>>
        BY <1>3 DEF ReceiveBlock
    <2>2. TaskTypes' /\ inbound'.at = "applying" /\ inbound'.blk = b
        BY <1>0, <1>1, <2>1 DEF TaskTypes, Hash
    <2> QED BY <2>1, <2>2, <1>0, <1>2, CalledKeeps
<1>4. ASSUME NEW k \in Sync, SyncApply(k)
      PROVE  NodeInv' /\ UNCHANGED <<pool, unswept>> /\ Confirmed' = Confirmed
    <2>1. /\ fetched[k] # <<>> /\ LockAndApply(k, Head(fetched[k]))
          /\ UNCHANGED <<inbound, fetched, settling, miner, active_job, current_job>>
        BY <1>4 DEF SyncApply, TaskVars
    <2>2. Head(fetched[k]) \in Block
        BY <2>1, <1>0, HeadTailProperties
    <2>3. TaskTypes'
        BY <1>0, <1>1, <2>1 DEF TaskTypes
    <2> QED BY <2>1, <2>2, <2>3, <1>0, <1>2, CalledKeeps
<1>5. ASSUME SubmitSolution
      PROVE  NodeInv' /\ UNCHANGED <<pool, unswept>> /\ Confirmed' = Confirmed
    <2>1. /\ miner.at = "found" /\ miner' = [miner EXCEPT !.at = "submitting"]
          /\ LockAndApply(Miner, miner.blk)
          /\ UNCHANGED <<inbound, fetched, settling, active_job, current_job>>
        BY <1>5 DEF SubmitSolution
    <2>2. TaskTypes' /\ miner'.at = "submitting" /\ miner'.blk = miner.blk
        BY <1>0, <1>1, <2>1 DEF TaskTypes, Hash
    <2> QED BY <2>1, <2>2, <1>0, <1>2, CalledKeeps
<1> QED BY <1>1, <1>3, <1>4, <1>5 DEF ReceiveBlock, SyncApply, SubmitSolution

\* The steps of the node, sorted by what they do to chain and pool.
LEMMA NodeSteps ==
    ASSUME [NodeNext]_allVars
    PROVE  \/ ApplyStep
           \/ \E t \in Tx : submit_transaction(t)
           \/ \/ \E b \in Block : ReceiveBlock(b)
              \/ \E k \in Sync : SyncApply(k)
              \/ SubmitSolution
           \/ Imported \/ Submitted
           \/ \E k \in Sync : SyncApplied(k) \/ SyncSettle(k)
           \/ \/ ClearJobId \/ ClearJob
              \/ \E k \in Sync : SkipKnown(k) \/ \E b \in Block : Fetch(k, b)
              \/ MiningPaused \/ BuildCandidate \/ PublishJob \/ Abandon
              \/ \E b \in Block \ {Genesis} : FindBlock(b)
              \/ UNCHANGED allVars
BY DEF NodeNext, SyncStep, MinerStep

LEMMA NextNodeInv ==
    ASSUME WellNumbered, NodeInv, [NodeNext]_allVars
    PROVE  NodeInv'
BY NodeSteps, ApplyKeeps, AdmissionKeeps, CallStarts, SettleKeeps, SyncKeeps, BesideSteps,
   BesideKeeps

LEMMA InitNodeInv ==
    ASSUME WellNumbered, NodeInit
    PROVE  NodeInv
<1>1. ChainInv /\ Init
    BY InitChainInv DEF NodeInit
<1>2. SoundPool(pool)
    <2>1. pool.by_id = {} /\ pool.order = <<>> /\ pool \in M!Pool
        BY DEF NodeInit, M!EmptyPool, M!Pool
    <2>2. IsFiniteSet({}) /\ Cardinality({}) = 0
        BY FS_EmptySet
    <2>3. 0 <= MempoolMax
        BY PoolAssumption
    <2>4. ToSet(<<>>) = {} /\ IsInjective(<<>>)
        BY DEF ToSet, IsInjective
    <2> QED BY <2>1, <2>2, <2>3, <2>4 DEF SoundPool
<1>3. TaskTypes
    <2>1. NoJob \in Job
        BY DEF NoJob, Job, Hash
    <2> QED BY <2>1 DEF NodeInit, TaskTypes, Hash
<1>4. CallInv /\ NestInv
    BY <1>1, PoolAssumption DEF NodeInit, Init, CallInv, NestInv, OwnCall, Free, Announce, Miner
<1>5. FiledOrphans /\ RecoveryInv
    BY <1>1 DEF Init, FiledOrphans, RecoveryInv, Winning
<1> QED BY <1>1, <1>2, <1>3, <1>4, <1>5 DEF NodeInv

-----------------------------------------------------------------------------
\* The theorems.

(***************************************************************************)
(* The chain keeps its structural invariant, and the lock, the calls in    *)
(* progress, the recovery data and the pool agree, whatever the importer,  *)
(* the syncs, the miner and the API do between each other's steps.         *)
(***************************************************************************)
THEOREM NodeInvariant ==
    ASSUME WellNumbered PROVE NodeSpec => []NodeInv
<1>1. NodeInit => NodeInv
    BY InitNodeInv
<1>2. NodeInv /\ [NodeNext]_allVars => NodeInv'
    BY NextNodeInv
<1> QED BY <1>1, <1>2, PTL DEF NodeSpec

(***************************************************************************)
(* Type correctness of the shared state and of every task's own.           *)
(***************************************************************************)
THEOREM NodeTypeCorrect ==
    ASSUME WellNumbered PROVE NodeSpec => []NodeTypeOK
<1>1. NodeInv => NodeTypeOK
    BY DEF NodeInv, NodeTypeOK, ChainInv, SoundPool, TaskTypes, CallInv
<1> QED BY <1>1, NodeInvariant, PTL

(***************************************************************************)
(* Queue and index of the pool hold the same transactions, each once,      *)
(* within MEMPOOL_MAX and one per sender and nonce, through admission,     *)
(* replacement, eviction, the sweep and the requeue (pool.rs).             *)
(***************************************************************************)
THEOREM PoolSoundHolds ==
    ASSUME WellNumbered PROVE NodeSpec => []PoolSound
<1>1. ASSUME NodeInv PROVE PoolSound
    <2>1. SoundPool(pool)
        BY <1>1 DEF NodeInv
    <2>2. pool.order \in Seq(Tx) /\ ToSet(pool.order) = pool.by_id /\ IsInjective(pool.order)
        BY <2>1 DEF SoundPool, M!Pool
    <2>3. Cardinality(pool.by_id) = Len(pool.order)
        BY <2>2, SeqCardinality
    <2> QED BY <2>1, <2>2, <2>3 DEF PoolSound, SoundPool, SameSlot
<1> QED BY <1>1, NodeInvariant, PTL

\* What each step takes out of the pool.
LEMMA StepPending ==
    ASSUME WellNumbered, NodeInv, [NodeNext]_allVars,
           NEW t \in pool.by_id \ pool'.by_id
    PROVE  \/ t \in Confirmed'
           \/ Cardinality(pool'.by_id) = MempoolMax
           \/ \E u \in pool'.by_id : SameSlot(u, t) /\ Tip[u] > Tip[t]
<1>0. ChainInv /\ RecoveryInv /\ SoundPool(pool)
    BY DEF NodeInv
<1>1. CASE ApplyStep
    BY <1>1 DEF ApplyStep
<1>2. ASSUME NEW x \in Tx, submit_transaction(x)
      PROVE  \/ Cardinality(pool'.by_id) = MempoolMax
             \/ \E u \in pool'.by_id : SameSlot(u, t) /\ Tip[u] > Tip[t]
    BY <1>2, AdmissionKeeps DEF Admits, Kept
<1>3. CASE \/ \E b \in Block : ReceiveBlock(b)
           \/ \E k \in Sync : SyncApply(k)
           \/ SubmitSolution
    BY <1>3, CallStarts
<1>4. CASE Imported \/ Submitted
    BY <1>4, SettleKeeps, SettleFacts
<1>5. ASSUME NEW k \in Sync, SyncApplied(k) \/ SyncSettle(k)
      PROVE  \/ t \in Confirmed'
             \/ Cardinality(pool'.by_id) = MempoolMax
             \/ \E u \in pool'.by_id : SameSlot(u, t) /\ Tip[u] > Tip[t]
    <2>1. CASE SyncApplied(k)
        BY <2>1 DEF SyncApplied
    <2>2. CASE SyncSettle(k)
        <3>1. TakeRecovery(pool) /\ UNCHANGED canon_index
            BY <2>2 DEF SyncSettle
        <3>2. Confirmed' = Confirmed /\ Winning \subseteq Confirmed
            BY <1>0, <3>1 DEF Confirmed, Canon, RecoveryInv
        <3> QED BY <1>0, <3>1, <3>2, TakeRecoveryFacts
    <2> QED BY <1>5, <2>1, <2>2
<1>6. CASE \/ ClearJobId \/ ClearJob
           \/ \E k \in Sync : SkipKnown(k) \/ \E b \in Block : Fetch(k, b)
           \/ MiningPaused \/ BuildCandidate \/ PublishJob \/ Abandon
           \/ \E b \in Block \ {Genesis} : FindBlock(b)
           \/ UNCHANGED allVars
    BY <1>6, BesideSteps DEF Beside
<1> QED BY <1>1, <1>2, <1>3, <1>4, <1>5, <1>6, NodeSteps

(***************************************************************************)
(* A pending transaction leaves only for the chain, for a better one or    *)
(* because the pool is full.  The importer sweeps the block's own          *)
(* transactions, and by NestInv that block is canonical even after the     *)
(* orphans it brought along.                                               *)
(***************************************************************************)
THEOREM PendingKeptHolds ==
    ASSUME WellNumbered PROVE NodeSpec => PendingKept
<1>1. NodeInv /\ [NodeNext]_allVars =>
        [\A t \in pool.by_id \ pool'.by_id :
          \/ t \in Confirmed'
          \/ Cardinality(pool'.by_id) = MempoolMax
          \/ \E u \in pool'.by_id :
                Sender[u] = Sender[t] /\ TxNonce[u] = TxNonce[t] /\ Tip[u] > Tip[t]]_allVars
    BY StepPending DEF SameSlot
<1> QED BY <1>1, NodeInvariant, PTL DEF NodeSpec, PendingKept

\* What each step that consumes recovery data puts back.
LEMMA StepDisplaced ==
    ASSUME WellNumbered, NodeInv, [NodeNext]_allVars, NEW r \in pending_reorg_recovery,
           work = <<>>, pending_reorg_recovery' = {},
           NEW t \in r.displaced_txs \ (Confirmed \cup Coinbase \cup BadTx),
           TxNonce[t] = nonce_of(Sender[t])
    PROVE  Served(pool', t) \/ Cardinality(pool'.by_id) = MempoolMax
<1>0. ChainInv /\ RecoveryInv /\ SoundPool(pool)
    BY DEF NodeInv
<1>1. t \in r.displaced_txs \ (r.winning_tx_ids \cup Coinbase \cup BadTx)
    BY <1>0 DEF RecoveryInv, Winning
<1>2. ~UNCHANGED pending_reorg_recovery
    OBVIOUS
<1>3. ~ApplyStep
    BY DEF ApplyStep, Step, Reject, RejectUnpersisted, StoreOrphan, ExtendCanonical, StoreSide,
           Reorganise, OnSideBranch, Applying
<1>4. ~\E x \in Tx : submit_transaction(x)
    BY <1>2 DEF submit_transaction, vars, memVars
<1>5. ~(\/ \E b \in Block : ReceiveBlock(b)
        \/ \E k \in Sync : SyncApply(k)
        \/ SubmitSolution)
    BY <1>2, CallStarts
<1>6. CASE Imported \/ Submitted
    <2>1. /\ OwnCall /\ SettleUnderLock(Outer)
        BY <1>6, SettleKeeps
    <2> QED BY <2>1, <1>1, SettleFacts
<1>7. ASSUME NEW k \in Sync, SyncApplied(k) \/ SyncSettle(k)
      PROVE  Served(pool', t) \/ Cardinality(pool'.by_id) = MempoolMax
    <2>1. ~SyncApplied(k)
        BY <1>2 DEF SyncApplied, memVars
    <2>2. TakeRecovery(pool)
        BY <1>7, <2>1 DEF SyncSettle
    <2> QED BY <2>2, <1>0, <1>1, TakeRecoveryFacts
<1>8. ~(\/ ClearJobId \/ ClearJob
        \/ \E k \in Sync : SkipKnown(k) \/ \E b \in Block : Fetch(k, b)
        \/ MiningPaused \/ BuildCandidate \/ PublishJob \/ Abandon
        \/ \E b \in Block \ {Genesis} : FindBlock(b)
        \/ UNCHANGED allVars)
    BY <1>2, BesideSteps DEF Beside, vars, memVars
<1> QED BY <1>3, <1>4, <1>5, <1>6, <1>7, <1>8, NodeSteps

(***************************************************************************)
(* When recovery data is consumed, every displaced transaction its sender  *)
(* could have executed next is pending again or has given way              *)
(* (requeue_after_reorg), under the lock or after it.                      *)
(***************************************************************************)
THEOREM DisplacedReturnsHolds ==
    ASSUME WellNumbered PROVE NodeSpec => DisplacedReturns
<1>1. NodeInv /\ [NodeNext]_allVars =>
        [\A r \in pending_reorg_recovery :
          work = <<>> /\ pending_reorg_recovery' = {} =>
             \A t \in r.displaced_txs \ (Confirmed \cup Coinbase \cup BadTx) :
                TxNonce[t] = nonce_of(Sender[t]) =>
                   \/ Cardinality(pool'.by_id) = MempoolMax
                   \/ \E u \in pool'.by_id :
                         /\ Sender[u] = Sender[t] /\ TxNonce[u] = TxNonce[t]
                         /\ Tip[u] >= Tip[t]]_allVars
    BY StepDisplaced DEF Served, SameSlot
<1> QED BY <1>1, NodeInvariant, PTL DEF NodeSpec, DisplacedReturns

-----------------------------------------------------------------------------
\* Confirmed transactions in the pool.

Checked == \A b \in Known : b \notin Malformed \cup Invalid

\* The pending transactions on the chain that PendingConfirmedKnown does not excuse.
Uncovered == (pool.by_id \cap Confirmed) \ unswept

(***************************************************************************)
(* Only a call of the importer or of the miner that moved the chain leaves *)
(* any, and it will sweep them: they are its block's own, or, while that   *)
(* block is the tip, the branch's in the recovery data.                    *)
(***************************************************************************)
SweepInv ==
    /\ ~(OwnCall /\ result = "CanonExtension") => Uncovered = {}
    /\ OwnCall /\ result = "CanonExtension" =>
          Uncovered \subseteq Txs[Outer] \cup (IF tip_hash = Outer THEN Winning ELSE {})

LEMMA ConfirmedNonce ==
    ASSUME NoncesInOrder, NodeInv, Checked, NEW u \in Confirmed
    PROVE  u \in Tx /\ ~(TxNonce[u] >= nonce_of(Sender[u]))
<1> Chained
    BY ChainInvParts DEF NodeInv
<1>1. PICK x \in Canon : u \in Txs[x]
    BY DEF Confirmed
<1>2. ledger = tip_hash /\ tip_hash \in Block /\ top = Depth[tip_hash] /\ top \in Nat
    BY TipFacts DEF NodeInv, ChainInv, LedgerAtTip
<1>3. PICK i \in 0..top : x = Lineage[tip_hash][i] /\ x \in Block
    BY TipFacts
<1>4. \A j \in 0..top : Lineage[tip_hash][j] \notin Malformed \cup Invalid
    BY TipFacts DEF Checked, Known
<1>5. TxNonce[u] < Cardinality({t \in UNION {Txs[Lineage[ledger][j]] : j \in 0..Depth[ledger]} :
                                  Sender[t] = Sender[u]})
    BY <1>1, <1>2, <1>3, <1>4 DEF NoncesInOrder
<1>6. TxNonce[u] < nonce_of(Sender[u])
    BY <1>5, Zenon DEF nonce_of
<1>7. u \in Tx
    BY <1>1, <1>3, BlockAssumption DEF BlockAssumption
<1>8. TxNonce[u] \in Nat /\ nonce_of(Sender[u]) \in Nat
    BY <1>2, <1>7, NonceFacts, PoolAssumption
<1> QED BY <1>6, <1>7, <1>8

LEMMA ApplySweep ==
    ASSUME WellNumbered, NodeInv, SweepInv, Checked, ApplyStep
    PROVE  SweepInv' /\ Checked'
<1>0. TypeOK /\ CallInv /\ NestInv /\ ChainInv
    BY DEF NodeInv, ChainInv
<1>1. UNCHANGED <<holder, inbound, miner, fetched, pool>> /\ Step /\ holder # Free
    BY DEF ApplyStep, TaskVars
<1>2. PICK b \in Block :
         /\ Applying(b)
         /\ Passed(b) \/ Sided(b) \/ Extended(b) \/ Switched(b)
         /\ Passed(b) \/ (b \notin Malformed \cup Invalid /\ b # Genesis)
    BY <1>0, <1>1, StepEffects
<1>3. Checked'
    BY <1>2 DEF Checked, Passed, Sided, Extended, Switched
<1>4. OwnCall' <=> OwnCall
    BY <1>1 DEF OwnCall
<1>5. b = Head(work) /\ work \in Seq(Block) /\ work # <<>>
    BY <1>0, <1>2 DEF Applying, TypeOK
<1>6. ASSUME NEW t \in Uncovered'
      PROVE  /\ t \in pool.by_id /\ t \in Confirmed' /\ t \notin unswept
             /\ pending_reorg_recovery' = {} => t \notin Winning
             /\ holder \in Sync \/ b # Outer => t \in Confirmed
    <2> DEFINE lost == IF pending_reorg_recovery' = {} THEN Winning ELSE {}
               more == IF holder \in Sync \/ Head(work) # Outer THEN Confirmed' \ Confirmed ELSE {}
    <2>1. unswept' = (unswept \cup lost \cup more) \cap Confirmed'
        BY Zenon DEF ApplyStep, Winning
    <2>2. t \in pool.by_id /\ t \in Confirmed' /\ t \notin unswept'
        BY <1>1 DEF Uncovered
    <2> QED BY <2>1, <2>2, <1>5
<1>7. CASE ~OwnCall
    <2>1. holder \in Sync
        BY <1>0, <1>1, <1>7 DEF CallInv, OwnCall
    <2>2. Uncovered = {}
        BY <1>7 DEF SweepInv
    <2>3. Uncovered' = {}
        BY <1>6, <2>1, <2>2 DEF Uncovered
    <2> QED BY <2>3, <1>3, <1>4, <1>7 DEF SweepInv
<1>8. CASE OwnCall
    <2>1. Outer \in Block /\ Outer' = Outer
        <3>1. CASE holder = Announce
            BY <3>1, <1>0, <1>1, OuterIs DEF CallInv
        <3>2. CASE holder = Miner
            BY <3>2, <1>0, <1>1, OuterIs DEF CallInv
        <3> QED BY <3>1, <3>2, <1>8 DEF OwnCall
    <2>2. CASE result = "pending"
        <3>1. b = Outer /\ Uncovered = {}
            BY <1>0, <1>5, <1>8, <2>2 DEF NestInv, SweepInv
        <3>2. \A t \in Uncovered' : t \in Confirmed' /\ t \notin Confirmed
            BY <1>6, <3>1 DEF Uncovered
        <3>3. CASE Passed(b) \/ Sided(b)
            <4>1. Confirmed' = Confirmed
                BY <3>3 DEF Passed, Sided, Confirmed
            <4>2. Uncovered' = {}
                BY <3>2, <4>1
            <4> QED BY <4>2, <1>3 DEF SweepInv
        <3>4. CASE Extended(b)
            <4>1. Uncovered' \subseteq Txs[Outer]
                BY <3>1, <3>2, <3>4 DEF Extended, Confirmed
            <4>2. result' = "CanonExtension"
                BY <2>2, <3>4 DEF Extended, Answer
            <4> QED BY <4>1, <4>2, <2>1, <1>3, <1>4, <1>8 DEF SweepInv
        <3>5. CASE Switched(b)
            <4>1. Uncovered' \subseteq Winning' /\ tip_hash' = Outer
                BY <3>1, <3>2, <3>5 DEF Switched, Winning
            <4>2. result' = "CanonExtension"
                BY <2>2, <3>5 DEF Switched, Answer
            <4> QED BY <4>1, <4>2, <2>1, <1>3, <1>4, <1>8 DEF SweepInv
        <3> QED BY <1>2, <3>3, <3>4, <3>5
    <2>3. CASE result # "pending"
        <3>1. b = work[1] /\ 1 \in DOMAIN work
            <4>1. Len(work) \in Nat /\ Len(work) # 0 /\ DOMAIN work = 1..Len(work)
                BY <1>5, EmptySeq
            <4> QED BY <4>1, <1>5, HeadTailProperties
        <3>2. b # Outer
            <4>1. Below(Outer, b)
                BY <1>0, <1>8, <2>3, <3>1 DEF NestInv
            <4>2. Depth[b] \in Nat
                BY DepthFacts
            <4> QED BY <4>1, <4>2 DEF Below
        <3>3. result' = result
            BY <1>2, <2>3 DEF Passed, Sided, Extended, Switched, Answer
        <3>4. \A t \in Uncovered' :
                 t \in Uncovered /\ (pending_reorg_recovery' = {} => t \notin Winning)
            BY <1>6, <3>2 DEF Uncovered
        <3>5. CASE result # "CanonExtension"
            <4>1. Uncovered' = {}
                BY <3>4, <3>5 DEF SweepInv
            <4> QED BY <4>1, <1>3 DEF SweepInv
        <3>6. CASE result = "CanonExtension"
            <4>1. ASSUME NEW t \in Uncovered', t \notin Txs[Outer]
                  PROVE  tip_hash' = Outer /\ t \in Winning'
                <5>1. tip_hash = Outer /\ t \in Winning
                    BY <4>1, <3>4, <3>6, <1>8 DEF SweepInv
                <5>2. Parent[b] = tip_hash
                    BY <5>1, <3>1, <3>6, <1>0, <1>8 DEF NestInv
                <5>3. ~Sided(b) /\ ~Switched(b)
                    BY <5>2 DEF Sided, Switched
                <5>4. ~Extended(b)
                    BY <5>1, <3>4, <4>1 DEF Extended
                <5>5. Passed(b)
                    BY <1>2, <5>3, <5>4
                <5> QED BY <5>1, <5>5 DEF Passed, Winning
            <4>2. Uncovered' \subseteq Txs[Outer] \cup (IF tip_hash' = Outer THEN Winning' ELSE {})
                BY <4>1
            <4> QED BY <4>2, <2>1, <3>3, <3>6, <1>3, <1>4, <1>8 DEF SweepInv
        <3> QED BY <3>5, <3>6
    <2> QED BY <2>2, <2>3
<1> QED BY <1>7, <1>8

LEMMA NextSweep ==
    ASSUME WellNumbered, NoncesInOrder, NodeInv, SweepInv, Checked, [NodeNext]_allVars
    PROVE  SweepInv' /\ Checked'
<1>0. CallInv /\ RecoveryInv /\ ChainInv /\ SoundPool(pool)
    BY DEF NodeInv
<1>1. \A u \in Confirmed : ~(TxNonce[u] >= nonce_of(Sender[u]))
    BY ConfirmedNonce
<1>2. /\ Free # Announce /\ Free # Miner /\ Free \notin Sync
      /\ Announce \notin Sync /\ Miner \notin Sync
    BY PoolAssumption DEF Free, Announce, Miner
<1>3. ASSUME UNCHANGED <<canon_index, side_blocks>> PROVE Checked' /\ Confirmed' = Confirmed
    BY <1>3 DEF Checked, Known, Canon, Confirmed
<1>4. ASSUME NEW t \in Tx, submit_transaction(t) PROVE SweepInv' /\ Checked'
    <2>1. /\ Admits(pool, t, nonce_of(Sender[t]), pool')
          /\ UNCHANGED <<vars, unswept, holder>> /\ holder = Free
        BY <1>4, AdmissionKeeps
    <2>2. Confirmed' = Confirmed /\ Checked' /\ ~OwnCall /\ ~OwnCall'
        BY <2>1, <1>2, <1>3 DEF vars, memVars, OwnCall
    <2>3. Uncovered = {}
        BY <2>2 DEF SweepInv
    <2>4. Uncovered' = {}
        <3>1. /\ pool'.by_id \subseteq pool.by_id \cup {t}
              /\ t \in pool'.by_id \ pool.by_id => TxNonce[t] >= nonce_of(Sender[t])
            BY <2>1 DEF Admits
        <3> QED BY <3>1, <2>1, <2>2, <2>3, <1>1 DEF Uncovered
    <2> QED BY <2>2, <2>4 DEF SweepInv
<1>5. CASE \/ \E b \in Block : ReceiveBlock(b)
           \/ \E k \in Sync : SyncApply(k)
           \/ SubmitSolution
    <2>1. /\ UNCHANGED <<pool, unswept>> /\ Confirmed' = Confirmed /\ holder = Free
          /\ result' = "pending"
        BY <1>5, CallStarts
    <2>2. UNCHANGED <<canon_index, side_blocks>>
        BY <1>5 DEF ReceiveBlock, SyncApply, SubmitSolution, LockAndApply, Submit, memVars
    <2>3. Uncovered = {}
        BY <2>1, <1>2 DEF SweepInv, OwnCall
    <2>4. Uncovered' = {}
        BY <2>1, <2>3 DEF Uncovered
    <2> QED BY <2>2, <2>4, <1>3 DEF SweepInv
<1>6. CASE Imported \/ Submitted
    <2>1. /\ OwnCall /\ SettleUnderLock(Outer) /\ work = <<>>
          /\ UNCHANGED unswept /\ Confirmed' = Confirmed /\ holder' = Free
        BY <1>6, SettleKeeps
    <2>2. /\ \A u \in pool'.by_id \ pool.by_id : TxNonce[u] >= nonce_of(Sender[u])
          /\ result = "CanonExtension" =>
                \A u \in pool'.by_id \cap (Txs[Outer] \cup Winning) :
                   TxNonce[u] >= nonce_of(Sender[u])
        BY <2>1, SettleFacts
    <2>3. ASSUME NEW u \in Uncovered' PROVE FALSE
        <3>1. u \in pool'.by_id /\ u \in Confirmed /\ u \notin unswept
            BY <2>1 DEF Uncovered
        <3>2. u \in Uncovered
            BY <3>1, <2>2, <1>1 DEF Uncovered
        <3>3. result = "CanonExtension" /\ u \in Txs[Outer] \cup Winning
            BY <3>2, <2>1 DEF SweepInv
        <3> QED BY <3>1, <3>3, <2>2, <1>1
    <2>4. UNCHANGED <<canon_index, side_blocks>>
        BY <2>1 DEF SettleUnderLock
    <2>5. ~OwnCall'
        BY <2>1, <1>2 DEF OwnCall
    <2> QED BY <2>3, <2>4, <2>5, <1>3 DEF SweepInv
<1>7. ASSUME NEW k \in Sync, SyncApplied(k) PROVE SweepInv' /\ Checked'
    <2>1. /\ holder = k /\ holder' = Free /\ UNCHANGED <<memVars, pool, unswept>>
        BY <1>7 DEF SyncApplied, Returned
    <2>2. Confirmed' = Confirmed /\ Checked' /\ ~OwnCall /\ ~OwnCall'
        BY <2>1, <1>2, <1>3 DEF memVars, OwnCall
    <2>3. Uncovered' = {}
        BY <2>1, <2>2 DEF SweepInv, Uncovered
    <2> QED BY <2>2, <2>3 DEF SweepInv
<1>8. ASSUME NEW k \in Sync, SyncSettle(k) PROVE SweepInv' /\ Checked'
    <2>1. /\ holder = Free /\ TakeRecovery(pool)
          /\ UNCHANGED <<canon_index, side_blocks, holder, unswept>>
        BY <1>8 DEF SyncSettle
    <2>2. Confirmed' = Confirmed /\ Checked' /\ ~OwnCall /\ ~OwnCall'
        BY <2>1, <1>2, <1>3 DEF OwnCall
    <2>3. \A u \in pool'.by_id \ pool.by_id : TxNonce[u] >= nonce_of(Sender[u])
        BY <1>0, <2>1, TakeRecoveryFacts
    <2>4. Uncovered' = {}
        BY <2>1, <2>2, <2>3, <1>1 DEF SweepInv, Uncovered
    <2> QED BY <2>2, <2>4 DEF SweepInv
<1>9. CASE \/ ClearJobId \/ ClearJob
           \/ \E k \in Sync : SkipKnown(k) \/ \E b \in Block : Fetch(k, b)
           \/ MiningPaused \/ BuildCandidate \/ PublishJob \/ Abandon
           \/ \E b \in Block \ {Genesis} : FindBlock(b)
           \/ UNCHANGED allVars
    <2>1. Beside
        BY <1>9, BesideSteps
    <2>2. UNCHANGED <<vars, pool, holder, unswept>>
        BY <2>1 DEF Beside
    <2>3. Confirmed' = Confirmed /\ Checked' /\ tip_hash' = tip_hash /\ Winning' = Winning
        BY <2>2, <1>3 DEF vars, memVars, tip_hash, Winning
    <2>4. (OwnCall' <=> OwnCall) /\ (OwnCall => Outer' = Outer)
        BY <2>1, <2>2, OuterIs DEF Beside, OwnCall
    <2>5. Uncovered' = Uncovered /\ result' = result
        BY <2>2, <2>3 DEF Uncovered, vars
    <2> QED BY <2>3, <2>4, <2>5 DEF SweepInv
<1> QED BY <1>4, <1>5, <1>6, <1>7, <1>8, <1>9, NodeSteps, ApplySweep

(***************************************************************************)
(* A pending transaction the chain already has came there by a sync, by a  *)
(* promoted orphan, or in a branch whose recovery data a nested call threw *)
(* away: the importer and the miner leave none, and neither admission nor  *)
(* the requeue lets one in (import_announced_blocks, submit_transaction).  *)
(***************************************************************************)
THEOREM PendingConfirmedKnownHolds ==
    ASSUME WellNumbered, NoncesInOrder PROVE NodeSpec => []PendingConfirmedKnown
<1> DEFINE I == NodeInv /\ SweepInv /\ Checked
<1>1. NodeInit => I
    <2>1. ASSUME NodeInit PROVE SweepInv /\ Checked
        <3>1. Known = {Genesis} /\ pool.by_id = {}
            BY <2>1, GenesisFacts DEF NodeInit, Init, Known, Canon, NoHeight, M!EmptyPool
        <3>2. Uncovered = {}
            BY <3>1 DEF Uncovered
        <3>3. Checked
            BY <3>1, BlockAssumption DEF Checked, BlockAssumption
        <3> QED BY <3>2, <3>3 DEF SweepInv
    <2> QED BY <2>1, InitNodeInv
<1>2. I /\ [NodeNext]_allVars => I'
    BY NextNodeInv, NextSweep
<1>3. I => PendingConfirmedKnown
    <2>1. ASSUME SweepInv, holder = Free PROVE Uncovered = {}
        BY <2>1 DEF SweepInv, OwnCall, Free, Announce, Miner
    <2> QED BY <2>1 DEF PendingConfirmedKnown, Uncovered
<1> QED BY <1>1, <1>2, <1>3, PTL DEF NodeSpec

-----------------------------------------------------------------------------
\* Restart: what the database holds, and what startup makes of it.


(***************************************************************************)
(* A stored block passed every check when it was accepted, and passes them *)
(* again unless the clock was set back.                                    *)
(***************************************************************************)
Vetted(b) == b = Genesis \/ (b \notin Malformed \cup Invalid /\ (ClockBack \/ ReadyAt[b] <= now))

(***************************************************************************)
(* An image, by its keys: block:{hash}, height:{n}, tip pointer, snapshots *)
(* and genesis_hash.  Before bootstrap is through it has neither tip nor   *)
(* genesis hash; after that the heights up to its tip are the path to it.  *)
(* Above the tip anything may be left from a replay that was cut off.      *)
(***************************************************************************)
PathTo(T, H, B) ==
    /\ T \in [height : Nat, hash : Block]
    /\ T.height = Depth[T.hash]
    /\ \A h \in 0..T.height : H[h] = Lineage[T.hash][h] /\ H[h] \in B

GoodImage(B, H, T, S, G) ==
    /\ B \subseteq Block /\ H \in [Heights -> Hash] /\ S \in [Heights -> Snapshot]
    /\ \A b \in B : Vetted(b)
    /\ \/ G = NoBlock /\ T = EmptyImage.tip
       \/ G = Genesis /\ PathTo(T, H, B)

GoodDisk == GoodImage(db_blocks, db_height, db_tip, db_snap, db_genesis)
GoodDurable == GoodImage(durable.blocks, durable.height, durable.tip, durable.snap, durable.genesis)

(***************************************************************************)
(* Memory with nothing in it, and memory without forks and orphans.        *)
(***************************************************************************)
Emptied ==
    /\ blocks = <<>> /\ top = -1 /\ canon_index = [b \in Block |-> NoHeight]
    /\ side_blocks = {} /\ seen_blocks = {} /\ orphan_pool = [b \in Block |-> <<>>]
    /\ ledger = Genesis /\ pending_reorg_recovery = {}

Unforked == side_blocks = {} /\ orphan_pool = [b \in Block |-> <<>>]

Waiting == work = <<>> /\ result = "idle"

(***************************************************************************)
(* The records below the tip are those of the chain in memory.             *)
(***************************************************************************)
Filed ==
    /\ db_tip = [height |-> top, hash |-> tip_hash]
    /\ \A h \in 0..top : db_height[h] = blocks[h]
    /\ Known \subseteq db_blocks

\* The chain read back from disk, with the account state still that of genesis.
Loaded == Chained /\ Unforked /\ ledger = Genesis /\ tip_hash = db_tip.hash

\* Memory is the stored chain up to height k, with its account state.
Replayed(k) ==
    \/ k = -1 /\ Emptied
    \/ k \in 0..target /\ Chained /\ LedgerAtTip /\ Unforked /\ tip_hash = Lineage[goal][k]

(***************************************************************************)
(* The replay: the stored path to the tip named when the database was      *)
(* opened is all there, and memory is that path up to the block in hand.   *)
(***************************************************************************)
Replaying ==
    /\ db_genesis = Genesis
    /\ goal \in Block /\ target = Depth[goal] /\ next \in 0..target
    /\ \A h \in 0..target : db_height[h] = Lineage[goal][h] /\ Lineage[goal][h] \in db_blocks
    /\ \/ Waiting /\ Replayed(next - 1)
       \/ work = <<Lineage[goal][next]>> /\ result = "pending" /\ Replayed(next - 1)
       \/ work = <<>> /\ result = "CanonExtension" /\ Replayed(next) /\ Filed
       \/ work = <<>> /\ result = "Rejected" /\ (faults > 0 \/ ClockBack)

(***************************************************************************)
(* The inductive invariant.                                                *)
(***************************************************************************)
Base ==
    /\ work \in Seq(Block) /\ result \in Outcome \cup {"idle", "pending"}
    /\ now \in Nat /\ faults \in Nat

Opened ==
    Waiting /\ \/ db_genesis = NoBlock /\ goal = NoBlock /\ Emptied
               \/ db_genesis = Genesis /\ goal = db_tip.hash /\ Loaded

Booted ==
    /\ Waiting /\ db_genesis = Genesis /\ Loaded
    /\ goal = db_tip.hash \/ (goal = NoBlock /\ db_tip.hash = Genesis)

Running == db_genesis = Genesis /\ Chained /\ LedgerAtTip /\ Filed

RestartInv ==
    /\ Base /\ GoodDisk /\ GoodDurable /\ phase \in Phase
    /\ phase = "down" => Waiting /\ Emptied
    /\ phase = "opened" => Opened
    /\ phase = "booted" => Booted
    /\ phase = "replay" => Replaying
    /\ phase = "up" => Running
    /\ phase = "failed" => faults > 0 \/ ClockBack

-----------------------------------------------------------------------------
\* Lemmas.

(***************************************************************************)
(* The path to a block: its heights, and that one starts at genesis.       *)
(***************************************************************************)
Path(m) == {Lineage[m][i] : i \in 0..Depth[m]}

LEMMA PathFacts ==
    ASSUME WellNumbered, NEW m \in Block
    PROVE  /\ Depth[m] \in Nat /\ Path(m) \subseteq Block
           /\ \A i \in 0..Depth[m] :
                 /\ i \in Heights /\ Lineage[m][i] \in Path(m) /\ Lineage[m][i] \in Block
                 /\ Number[Lineage[m][i]] = i /\ Depth[Lineage[m][i]] = i
           /\ \A b \in Path(m) : /\ Number[b] \in 0..Depth[m] /\ Number[b] = Depth[b]
                                  /\ Lineage[m][Number[b]] = b
           /\ m \in Path(m) /\ Genesis \in Path(m) /\ Lineage[m][0] = Genesis
           /\ Lineage[m][Depth[m]] = m
<1>1. Depth[m] \in Nat /\ Lineage[m][Depth[m]] = m
    BY DepthFacts
<1>2. ASSUME NEW i \in 0..Depth[m]
      PROVE  /\ i \in Heights /\ Lineage[m][i] \in Path(m) /\ Lineage[m][i] \in Block
             /\ Number[Lineage[m][i]] = i /\ Depth[Lineage[m][i]] = i
    <2>1. Lineage[m][i] \in Block /\ Depth[Lineage[m][i]] = i
        BY LineagePrefix
    <2>2. Number[Lineage[m][i]] = i
        BY <2>1 DEF WellNumbered
    <2> QED BY <2>1, <2>2 DEF Heights, Path
<1>3. ASSUME NEW b \in Path(m)
      PROVE  Number[b] \in 0..Depth[m] /\ Number[b] = Depth[b] /\ Lineage[m][Number[b]] = b
    <2>1. PICK i \in 0..Depth[m] : b = Lineage[m][i]
        BY DEF Path
    <2> QED BY <2>1, <1>2
<1>4. 0 \in 0..Depth[m]
    BY <1>1
<1>5. Lineage[m][0] = Genesis
    <2>1. Lineage[m][0] \in Block /\ Depth[Lineage[m][0]] = 0
        BY <1>2, <1>4
    <2>2. ASSUME Lineage[m][0] # Genesis PROVE FALSE
        BY <2>1, <2>2, ParentFacts
    <2> QED BY <2>2
<1>6. Path(m) \subseteq Block
    BY <1>2 DEF Path
<1>7. m \in Path(m) /\ Genesis \in Path(m)
    <2>1. Depth[m] \in 0..Depth[m]
        BY <1>1
    <2> QED BY <2>1, <1>1, <1>4, <1>5 DEF Path
<1> QED BY <1>1, <1>2, <1>3, <1>5, <1>6, <1>7

(***************************************************************************)
(* A memory that holds the path to m and nothing else is a sound chain.    *)
(***************************************************************************)
LEMMA StraightChain ==
    ASSUME WellNumbered, NEW m \in Block, Typed',
           top' = Depth[m], \A i \in 0..Depth[m] : blocks'[i] = Lineage[m][i],
           canon_index' = [b \in Block |-> IF b \in Path(m) THEN Number[b] ELSE NoHeight],
           side_blocks' = {}, seen_blocks' \cup {Genesis} = Path(m)
    PROVE  Chained' /\ tip_hash' = m /\ Known' = Path(m)
<1>1. /\ Depth[m] \in Nat /\ Path(m) \subseteq Block
      /\ \A i \in 0..Depth[m] : Lineage[m][i] \in Path(m) /\ Number[Lineage[m][i]] = i
      /\ \A b \in Path(m) : Number[b] \in 0..Depth[m] /\ Lineage[m][Number[b]] = b
      /\ Lineage[m][Depth[m]] = m
    BY PathFacts
<1>2. tip_hash' = m
    BY <1>1 DEF tip_hash
<1>3. \A b \in Path(m) : canon_index'[b] = Number[b]
    BY <1>1
<1>4. Canon' = Path(m)
    BY <1>1, <1>3 DEF Canon, NoHeight
<1>5. Known' = Path(m)
    BY <1>4 DEF Known
<1>6. CanonicalPath'
    BY <1>1, <1>2, <1>3, <1>4 DEF CanonicalPath
<1>7. SideBranches'
    BY <1>5 DEF SideBranches
<1> QED BY <1>2, <1>5, <1>6, <1>7 DEF Chained

\* What the indexes are, but for the recorded work.
LEMMA IndexFacts ==
    ASSUME NEW f, NEW n, IndexesOf(f, n)
    PROVE  /\ blocks' = [i \in 0..n |-> f[i]] /\ top' = n
           /\ canon_index' = [b \in Block |-> IF b \in {f[i] : i \in 0..n}
                                              THEN Number[b] ELSE NoHeight]
           /\ seen_blocks' = {f[i] : i \in 0..n}
BY Zenon DEF IndexesOf

(***************************************************************************)
(* load_canon_chain and restore_snapshot_at, given the path to m, leave    *)
(* that chain.                                                             *)
(***************************************************************************)
LEMMA IndexedChain ==
    ASSUME WellNumbered, NEW m \in Block, NEW f,
           \A i \in 0..Depth[m] : f[i] = Lineage[m][i],
           IndexesOf(f, Depth[m]), side_blocks' = {},
           /\ orphan_pool' \in [Block -> Seq(Orphan)] /\ ledger' \in Block
           /\ pending_reorg_recovery' \subseteq ReorgRecovery
           /\ db_blocks' \subseteq Block /\ db_height' \in [Heights -> Hash]
           /\ db_tip' \in [height : Nat, hash : Block] /\ db_snap' \in [Heights -> Snapshot]
           /\ Base'
    PROVE  Chained' /\ tip_hash' = m /\ Known' = Path(m)
<1>1. {f[i] : i \in 0..Depth[m]} = Path(m)
    BY DEF Path
<1>2. /\ blocks' = [i \in 0..Depth[m] |-> f[i]] /\ top' = Depth[m]
      /\ canon_index' = [b \in Block |-> IF b \in Path(m) THEN Number[b] ELSE NoHeight]
      /\ seen_blocks' = Path(m)
    BY <1>1, IndexFacts, ZenonT(60)
<1>3. /\ Depth[m] \in Nat /\ Path(m) \subseteq Block /\ Genesis \in Path(m)
      /\ \A i \in 0..Depth[m] : Lineage[m][i] \in Block
      /\ \A b \in Path(m) : Number[b] \in Nat
    BY PathFacts
<1>4. blocks' \in [0..Depth[m] -> Block] /\ \A i \in 0..Depth[m] : blocks'[i] = Lineage[m][i]
    BY <1>2, <1>3
<1>5. canon_index' \in [Block -> Nat \cup {NoHeight}]
    BY <1>2, <1>3
<1>6. Typed'
    BY <1>2, <1>3, <1>4, <1>5 DEF Typed, Base
<1>7. seen_blocks' \cup {Genesis} = Path(m)
    BY <1>2, <1>3
<1> QED BY <1>2, <1>4, <1>6, <1>7, StraightChain

(***************************************************************************)
(* The running sum of load_canon_chain and restore_snapshot_at, over the   *)
(* path to m, records the exact work of every block on it.                 *)
(***************************************************************************)
LEMMA RunningSum ==
    ASSUME WellNumbered, NEW m \in Block, NEW f,
           \A i \in 0..Depth[m] : f[i] = Lineage[m][i],
           IndexesOf(f, Depth[m])
    PROVE  cumulative_work' = [b \in Block |-> IF b \in Path(m) THEN TotalWork[b] ELSE 0]
<1> DEFINE n == Depth[m]
           members == {f[i] : i \in 0..n}
           At(b) == CHOOSE i \in 0..n : f[i] = b
           Rec(k) == [i \in 0..n |-> IF i = 0 THEN Work[f[0]] ELSE k[i - 1] + Work[f[i]]]
           K == CHOOSE k : k = Rec(k)
           F == [i \in 0..n |-> TotalWork[Lineage[m][i]]]
<1>1. cumulative_work' = [b \in Block |-> IF b \in members THEN K[At(b)] ELSE 0]
    BY Zenon DEF IndexesOf
<1>2. members = Path(m)
    BY DEF Path
<1> HIDE DEF members
<1>3. n \in Nat /\ \A i \in 0..n : f[i] = Lineage[m][i] /\ f[i] \in Block
    BY PathFacts
<1>4. TotalWork[f[0]] = Work[f[0]]
    BY <1>3, PathFacts, TotalWorkAssumption DEF TotalWorkAssumption
<1>5. ASSUME NEW i \in 1..n PROVE TotalWork[f[i]] = TotalWork[f[i - 1]] + Work[f[i]]
    <2>1. i \in 0..n /\ i - 1 \in 0..n
        BY <1>3
    <2>2. f[i] # Genesis /\ Parent[f[i]] = f[i - 1]
        BY <1>3, <2>1, LineageParent
    <2> QED BY <1>3, <2>1, <2>2, ParentFacts
<1>6. F = Rec(F)
    <2>1. \A i \in 0..n : F[i] = TotalWork[f[i]]
        BY <1>3
    <2> HIDE DEF F, n
    <2>2. ASSUME NEW i \in 0..n
          PROVE  F[i] = IF i = 0 THEN Work[f[0]] ELSE F[i - 1] + Work[f[i]]
        BY <1>3, <1>4, <1>5, <2>1
    <2>3. F = [i \in 0..n |-> F[i]]
        BY DEF F
    <2> QED BY <2>2, <2>3
<1>7. K = Rec(K)
    <2> HIDE DEF Rec
    <2> QED BY <1>6
<1> HIDE DEF K
<1>8. \A i \in 0..n : K[i] = F[i]
    <2>1. K[0] = F[0] /\ \A i \in 1..n : K[i - 1] = F[i - 1] => K[i] = F[i]
        <3> HIDE DEF F, n
        <3> QED BY <1>3, <1>6, <1>7
    <2> HIDE DEF F, n
    <2> QED BY <1>3, <2>1, LoopUnique
<1>9. ASSUME NEW b \in members PROVE K[At(b)] = TotalWork[b]
    <2>1. \E i \in 0..n : f[i] = b
        BY DEF members
    <2>2. At(b) \in 0..n /\ f[At(b)] = b
        BY <2>1, Zenon
    <2> HIDE DEF At
    <2>3. K[At(b)] = F[At(b)]
        <3> HIDE DEF F, n
        <3> QED BY <1>8, <2>2
    <2>4. F[At(b)] = TotalWork[f[At(b)]]
        BY <1>3, <2>2
    <2> QED BY <2>2, <2>3, <2>4
<1> HIDE DEF At
<1> QED BY <1>1, <1>2, <1>9

LEMMA IndexedWork ==
    ASSUME WellNumbered, NEW m \in Block, NEW f,
           \A i \in 0..Depth[m] : f[i] = Lineage[m][i],
           IndexesOf(f, Depth[m]), Known' = Path(m)
    PROVE  WorkTyped' /\ WorkIsExact'
<1>1. cumulative_work' = [b \in Block |-> IF b \in Path(m) THEN TotalWork[b] ELSE 0]
    BY RunningSum
<1>2. Path(m) \subseteq Block /\ \A b \in Block : TotalWork[b] \in Nat
    BY PathFacts, DepthFacts
<1> QED BY <1>1, <1>2 DEF WorkTyped, WorkIsExact

(***************************************************************************)
(* Blocks stay vetted while the clock is not set back.                     *)
(***************************************************************************)
LEMMA VettedKept ==
    ASSUME Base, now' \in Nat, ClockBack \/ now <= now', NEW b \in Block, Vetted(b)
    PROVE  Vetted(b)'
<1>1. ReadyAt[b] \in Nat /\ now \in Nat
    BY BlockAssumption DEF BlockAssumption, Base
<1> QED BY <1>1 DEF Vetted

LEMMA ImageKept ==
    ASSUME Base, now' \in Nat, ClockBack \/ now <= now',
           NEW B, NEW H, NEW T, NEW S, NEW G, GoodImage(B, H, T, S, G)
    PROVE  /\ B \subseteq Block /\ H \in [Heights -> Hash] /\ S \in [Heights -> Snapshot]
           /\ \A b \in B : Vetted(b)'
           /\ \/ G = NoBlock /\ T = EmptyImage.tip
              \/ G = Genesis /\ PathTo(T, H, B)
BY VettedKept DEF GoodImage

LEMMA DiskKept ==
    ASSUME Base, GoodDisk, now' \in Nat, ClockBack \/ now <= now',
           UNCHANGED <<db_blocks, db_height, db_tip, db_snap, db_genesis>>
    PROVE  GoodDisk'
<1>1. /\ db_blocks \subseteq Block /\ db_height \in [Heights -> Hash]
      /\ db_snap \in [Heights -> Snapshot]
      /\ \A b \in db_blocks : Vetted(b)'
      /\ \/ db_genesis = NoBlock /\ db_tip = EmptyImage.tip
         \/ db_genesis = Genesis /\ PathTo(db_tip, db_height, db_blocks)
    BY ImageKept DEF GoodDisk
<1> QED BY <1>1 DEF GoodDisk, GoodImage

LEMMA DurableKept ==
    ASSUME Base, GoodDurable, now' \in Nat, ClockBack \/ now <= now', durable' = durable
    PROVE  GoodDurable'
<1>1. /\ durable.blocks \subseteq Block /\ durable.height \in [Heights -> Hash]
      /\ durable.snap \in [Heights -> Snapshot]
      /\ \A b \in durable.blocks : Vetted(b)'
      /\ \/ durable.genesis = NoBlock /\ durable.tip = EmptyImage.tip
         \/ durable.genesis = Genesis /\ PathTo(durable.tip, durable.height, durable.blocks)
    BY ImageKept DEF GoodDurable
<1> QED BY <1>1 DEF GoodDurable, GoodImage

-----------------------------------------------------------------------------
\* A running node.

(***************************************************************************)
(* A block that stage 6 let through is vetted.                             *)
(***************************************************************************)
LEMMA AcceptedVetted ==
    ASSUME NEW b, WellFormed(b), Valid(b) PROVE Vetted(b)
BY DEF WellFormed, Valid, Vetted

(***************************************************************************)
(* apply_block keeps chain, account state and records together, also when  *)
(* stale heights are left above the tip, and stores only vetted blocks.    *)
(***************************************************************************)
LEMMA FiledSteps ==
    ASSUME WellNumbered, Chained, LedgerAtTip, Filed, Step
    PROVE  /\ Chained' /\ LedgerAtTip' /\ Filed' /\ now' = now
           /\ \A x \in db_blocks' : x \in db_blocks \/ Vetted(x)
<1> DEFINE Goal == /\ Chained' /\ LedgerAtTip' /\ Filed' /\ now' = now
                   /\ \A x \in db_blocks' : x \in db_blocks \/ Vetted(x)
<1>1. CASE \E b \in Block : Reject(b) \/ RejectUnpersisted(b) \/ StoreOrphan(b)
    <2>1. Quiet
        BY <1>1 DEF Quiet
    <2>2. now' = now
        BY <1>1 DEF Reject, RejectUnpersisted, StoreOrphan
    <2>3. /\ Chained' /\ tip_hash' = tip_hash /\ Known' = Known
          /\ UNCHANGED <<blocks, top, ledger, db_blocks, db_height, db_tip>>
        BY <2>1, QuietChained, QuietFrame
    <2> QED BY <2>2, <2>3 DEF LedgerAtTip, Filed
<1>2. ASSUME NEW b \in Block, StoreSide(b) PROVE Goal
    <2>1. /\ Chained' /\ tip_hash' = tip_hash /\ Known' = Known \cup {b}
          /\ db_blocks' = db_blocks \cup {b}
          /\ UNCHANGED <<blocks, top, ledger, db_height, db_tip, now>>
        BY <1>2, SideChained
    <2>2. Vetted(b)
        BY <1>2, AcceptedVetted DEF StoreSide, OnSideBranch
    <2> QED BY <2>1, <2>2 DEF LedgerAtTip, Filed
<1>3. ASSUME NEW b \in Block, ExtendCanonical(b) PROVE Goal
    <2>1. /\ Chained' /\ tip_hash' = b /\ Known' = Known \cup {b}
          /\ ledger' = b /\ top' = top + 1 /\ now' = now
          /\ blocks'[top + 1] = b /\ \A i \in 0..top : blocks'[i] = blocks[i]
          /\ db_blocks' = db_blocks \cup {b} /\ db_tip' = [height |-> top + 1, hash |-> b]
          /\ db_height'[top + 1] = b
          /\ \A h \in Heights : h # top + 1 => db_height'[h] = db_height[h]
        BY <1>3, ExtendChained
    <2>2. Vetted(b)
        BY <1>3, AcceptedVetted DEF ExtendCanonical
    <2>3. top \in Nat /\ tip_hash \in Block /\ top = Depth[tip_hash]
        BY TipFacts
    <2>4. \A h \in 0..top : h \in Heights
        BY <2>3, PathFacts
    <2>5. ASSUME NEW h \in 0..(top + 1) PROVE db_height'[h] = blocks'[h]
        <3>1. CASE h = top + 1
            BY <3>1, <2>1
        <3>2. CASE h # top + 1
            <4>1. h \in 0..top
                BY <3>2, <2>3
            <4> QED BY <3>2, <4>1, <2>1, <2>4 DEF Filed
        <3> QED BY <3>1, <3>2
    <2> QED BY <2>1, <2>2, <2>5 DEF LedgerAtTip, Filed
<1>4. ASSUME NEW b \in Block, Reorganise(b) PROVE Goal
    <2>1. /\ Chained' /\ tip_hash' = b /\ Known' = Known \cup {b}
          /\ ledger' = b /\ top' = Depth[b] /\ now' = now
          /\ db_blocks' = db_blocks \cup {blocks'[i] : i \in 0..Depth[b]}
          /\ db_tip' = [height |-> Depth[b], hash |-> b]
          /\ \A h \in Heights :
                db_height'[h] = IF h <= Depth[b] THEN blocks'[h]
                                ELSE IF h <= top THEN NoBlock ELSE db_height[h]
        BY <1>4, ReorgChained
    <2>2. Vetted(b)
        BY <1>4, AcceptedVetted DEF Reorganise, OnSideBranch
    <2>3. Depth[b] \in Nat /\ \A h \in 0..Depth[b] : h \in Heights /\ h <= Depth[b]
        BY PathFacts
    <2>4. \A h \in 0..Depth[b] : db_height'[h] = blocks'[h]
        BY <2>1, <2>3
    <2>5. \A i \in 0..Depth[b] : blocks'[i] \in Canon'
        <3>1. CanonicalPath' /\ Typed'
            BY <2>1 DEF Chained
        <3>2. \A i \in 0..Depth[b] : canon_index'[blocks'[i]] = i /\ blocks'[i] \in Block
            BY <3>1, <2>1 DEF CanonicalPath, Typed
        <3> QED BY <3>2, <2>3 DEF Canon, NoHeight
    <2>6. \A i \in 0..Depth[b] : blocks'[i] \in Known \cup {b}
        BY <2>1, <2>5 DEF Known
    <2>7. blocks'[Depth[b]] = b
        BY <2>1, <2>3 DEF tip_hash
    <2>8. Known' \subseteq db_blocks'
        BY <2>1, <2>3, <2>7 DEF Filed
    <2>9. \A x \in db_blocks' : x \in db_blocks \/ Vetted(x)
        BY <2>1, <2>2, <2>6 DEF Filed
    <2> QED BY <2>1, <2>4, <2>8, <2>9 DEF LedgerAtTip, Filed
<1> QED BY <1>1, <1>2, <1>3, <1>4 DEF Step

(***************************************************************************)
(* Chain and records together make a good image.                           *)
(***************************************************************************)
LEMMA FiledImage ==
    ASSUME Chained', Filed', db_genesis' = Genesis, \A x \in db_blocks' : Vetted(x)'
    PROVE  GoodDisk'
<1>1. Typed' /\ CanonicalPath'
    BY DEF Chained
<1>2. top' \in Nat /\ tip_hash' = blocks'[top'] /\ tip_hash' \in Block
    BY <1>1 DEF Typed, tip_hash
<1>3. /\ top' = Depth[tip_hash']
      /\ \A i \in 0..top' : /\ blocks'[i] = Lineage[tip_hash'][i] /\ blocks'[i] \in Block
                            /\ canon_index'[blocks'[i]] = i
    BY <1>1, <1>2 DEF CanonicalPath, Typed
<1>4. \A i \in 0..top' : blocks'[i] \in Known'
    BY <1>2, <1>3 DEF Known, Canon, NoHeight
<1>5. /\ db_tip' = [height |-> top', hash |-> tip_hash']
      /\ \A h \in 0..top' : db_height'[h] = blocks'[h] /\ db_height'[h] \in db_blocks'
    BY <1>4 DEF Filed
<1>6. /\ db_tip' \in [height : Nat, hash : Block]
      /\ db_tip'.height = top' /\ db_tip'.hash = tip_hash'
    BY <1>2, <1>5
<1>7. PathTo(db_tip', db_height', db_blocks')
    BY <1>3, <1>5, <1>6 DEF PathTo
<1>8. /\ db_blocks' \subseteq Block /\ db_height' \in [Heights -> Hash]
      /\ db_snap' \in [Heights -> Snapshot]
    BY <1>1 DEF Typed
<1> QED BY <1>7, <1>8 DEF GoodDisk, GoodImage

(***************************************************************************)
(* What a crash between the inserts of a snapshot leaves is as good as     *)
(* what is on disk after them: the snapshot's parts are of the new tip.    *)
(***************************************************************************)
LEMMA TornImage ==
    ASSUME GoodDisk, GoodDisk', db_genesis' = db_genesis, db_tip'.hash \in Block,
           durable' \in TornSnapshots
    PROVE  GoodDurable'
<1> DEFINE b == db_tip'.hash
<1>1. PICK n \in 0..3 :
        durable' = [blocks |-> db_blocks', height |-> db_height', tip |-> db_tip',
                    snap |-> [db_snap EXCEPT ![Number[b]] = SnapshotParts(@, b, n)],
                    genesis |-> db_genesis]
    <2>1. db_snap' # db_snap
        BY DEF TornSnapshots
    <2> QED BY <2>1, Zenon DEF TornSnapshots
<1> DEFINE S == [db_snap EXCEPT ![Number[b]] = SnapshotParts(@, b, n)]
<1>2. Number[b] \in Heights /\ db_snap \in [Heights -> Snapshot]
    BY DepthFacts DEF GoodDisk, GoodImage
<1>3. SnapshotParts(db_snap[Number[b]], b, n) \in Snapshot
    BY <1>2 DEF SnapshotParts, Snapshot, Hash
<1>4. S \in [Heights -> Snapshot]
    BY <1>2, <1>3
<1>5. /\ durable'.blocks = db_blocks' /\ durable'.height = db_height' /\ durable'.tip = db_tip'
      /\ durable'.snap = S /\ durable'.genesis = db_genesis'
    BY <1>1
<1> HIDE DEF S
<1> QED BY <1>4, <1>5 DEF GoodDisk, GoodDurable, GoodImage

(***************************************************************************)
(* apply_block while the node is up.                                       *)
(***************************************************************************)
LEMMA ApplyUp ==
    ASSUME WellNumbered, RestartInv, phase = "up", Apply
    PROVE  RestartInv'
<1>1. Base /\ GoodDisk /\ GoodDurable /\ Running
    BY DEF RestartInv
<1>2. /\ Chained /\ LedgerAtTip /\ Filed /\ db_genesis = Genesis
    BY <1>1 DEF Running
<1>3. Step
    <2>1. ~\E b \in Block : ApplyGenesis(b)
        BY <1>2 DEF ApplyGenesis, FirstGenesis, Chained, Typed
    <2> QED BY <2>1 DEF Apply
<1>4. /\ Chained' /\ LedgerAtTip' /\ Filed' /\ now' = now
      /\ \A x \in db_blocks' : x \in db_blocks \/ Vetted(x)
    BY <1>2, <1>3, FiledSteps
<1>5. UNCHANGED <<db_genesis, phase>> /\ durable' \in {durable} \cup TornSnapshots
    BY DEF Apply, bootVars
<1>6. Base' /\ Typed'
    BY <1>4 DEF Chained, Typed, Base
<1>7. \A x \in db_blocks' : Vetted(x)'
    <2>1. \A x \in db_blocks : Vetted(x)
        BY <1>1 DEF GoodDisk, GoodImage
    <2>2. \A x : Vetted(x)' <=> Vetted(x)
        BY <1>4 DEF Vetted
    <2> QED BY <1>4, <2>1, <2>2
<1>8. GoodDisk'
    BY <1>2, <1>4, <1>5, <1>7, FiledImage
<1>9. GoodDurable'
    <2>1. CASE durable' = durable
        <3>1. now <= now' /\ now' \in Nat
            BY <1>1, <1>4 DEF Base
        <3> QED BY <1>1, <2>1, <3>1, DurableKept
    <2>2. CASE durable' \in TornSnapshots
        <3>1. db_tip'.hash \in Block
            BY <1>6 DEF Typed
        <3> QED BY <1>1, <1>5, <1>8, <2>2, <3>1, TornImage
    <2> QED BY <1>5, <2>1, <2>2
<1>10. Running' /\ phase' = "up"
    BY <1>2, <1>4, <1>5 DEF Running
<1> QED BY <1>6, <1>8, <1>9, <1>10 DEF RestartInv, Phase

LEMMA ServeUp ==
    ASSUME WellNumbered, RestartInv, Serve
    PROVE  RestartInv'
<1>1. Base /\ GoodDisk /\ GoodDurable /\ Running /\ phase = "up"
    BY DEF RestartInv, Serve
<1>2. Chained /\ LedgerAtTip /\ Filed /\ db_genesis = Genesis
    BY <1>1 DEF Running
<1>3. Quiet /\ now' = now /\ UNCHANGED <<db_genesis, durable, phase>>
    BY DEF Serve, Quiet, Submit, Return, diskVars, bootVars
<1>4. /\ Chained' /\ tip_hash' = tip_hash /\ Known' = Known
      /\ UNCHANGED <<blocks, top, ledger, db_blocks, db_height, db_tip, db_snap>>
    BY <1>2, <1>3, QuietChained, QuietFrame
<1>5. LedgerAtTip' /\ Filed'
    BY <1>2, <1>4 DEF LedgerAtTip, Filed
<1>6. now' \in Nat /\ now <= now'
    BY <1>1, <1>3 DEF Base
<1>7. GoodDisk' /\ GoodDurable'
    BY <1>1, <1>3, <1>4, <1>6, DiskKept, DurableKept
<1>8. Base'
    BY <1>4 DEF Chained, Typed, Base
<1>9. Running' /\ phase' = "up"
    BY <1>1, <1>2, <1>3, <1>4, <1>5 DEF Running
<1> QED BY <1>7, <1>8, <1>9 DEF RestartInv, Phase

(***************************************************************************)
(* The clock, a flush and a stutter leave memory, records and the state of *)
(* startup alone.                                                          *)
(***************************************************************************)
LEMMA FrameKept ==
    ASSUME RestartInv, GoodDurable', now' \in Nat, now <= now',
           UNCHANGED <<memVars, dbVars, work, result, faults, db_genesis, bootVars>>
    PROVE  RestartInv'
<1> USE DEF memVars, dbVars, bootVars
<1>1. Base /\ GoodDisk
    BY DEF RestartInv
<1>2. Base' /\ GoodDisk'
    BY <1>1, DiskKept DEF Base
<1>3. /\ Waiting' <=> Waiting
      /\ Emptied' <=> Emptied
      /\ Unforked' <=> Unforked
      /\ tip_hash' = tip_hash /\ Known' = Known
    BY DEF Waiting, Emptied, Unforked, tip_hash, Known, Canon
<1>4. Chained => Chained'
    <2>1. Typed => Typed'
        BY DEF Typed
    <2> QED BY <2>1, ChainUntouched DEF Chained
<1>5. (LedgerAtTip' <=> LedgerAtTip) /\ (Filed' <=> Filed)
    BY <1>3 DEF LedgerAtTip, Filed
<1>6. Loaded => Loaded'
    BY <1>3, <1>4 DEF Loaded
<1>7. \A k : Replayed(k) => Replayed(k)'
    BY <1>3, <1>4, <1>5 DEF Replayed
<1>8. Opened => Opened'
    BY <1>3, <1>6 DEF Opened
<1>9. Booted => Booted'
    BY <1>3, <1>6 DEF Booted
<1>10. Replaying => Replaying'
    BY <1>3, <1>5, <1>7 DEF Replaying
<1>11. Running => Running'
    BY <1>4, <1>5 DEF Running
<1> QED BY <1>2, <1>3, <1>8, <1>9, <1>10, <1>11 DEF RestartInv

LEMMA AdvanceFlush ==
    ASSUME RestartInv, Advance \/ Flush \/ UNCHANGED nodeVars
    PROVE  RestartInv'
<1>1. Base /\ GoodDisk /\ GoodDurable /\ now \in Nat
    BY DEF RestartInv, Base
<1>2. CASE Advance \/ UNCHANGED nodeVars
    <2>1. /\ now' \in Nat /\ now <= now' /\ durable' = durable
          /\ UNCHANGED <<memVars, dbVars, work, result, faults, db_genesis, bootVars>>
        BY <1>1, <1>2 DEF Advance, Tick, nodeVars, vars, diskVars
    <2> QED BY <1>1, <2>1, DurableKept, FrameKept
<1>3. CASE Flush
    <2>1. /\ now' = now /\ durable' = Image
          /\ UNCHANGED <<memVars, dbVars, work, result, faults, db_genesis, bootVars>>
        BY <1>3 DEF Flush, vars
    <2>2. /\ durable'.blocks = db_blocks /\ durable'.height = db_height
          /\ durable'.tip = db_tip /\ durable'.snap = db_snap /\ durable'.genesis = db_genesis
        BY <2>1 DEF Image
    <2>3. now' \in Nat /\ now <= now'
        BY <1>1, <2>1
    <2>4. GoodDisk'
        BY <1>1, <2>1, <2>3, DiskKept DEF dbVars
    <2>5. GoodDurable'
        BY <2>1, <2>2, <2>4 DEF GoodDisk, GoodDurable, dbVars
    <2> QED BY <2>1, <2>3, <2>5, FrameKept
<1> QED BY <1>2, <1>3

-----------------------------------------------------------------------------
\* The end of the process.

LEMMA LostProcess ==
    ASSUME RestartInv, Crash \/ Relaunch
    PROVE  RestartInv'
<1>1. Base /\ GoodDurable /\ now \in Nat
    BY DEF RestartInv, Base
<1>2. Lost
    BY DEF Crash, Relaunch
<1>3. /\ Emptied' /\ Waiting' /\ phase' = "down"
      /\ faults' = faults /\ durable' = durable
      /\ db_blocks' = durable.blocks /\ db_height' = durable.height
      /\ db_tip' = durable.tip /\ db_snap' = durable.snap /\ db_genesis' = durable.genesis
    BY <1>2 DEF Lost, ClearMemory, DiskBecomes, Emptied, Waiting
<1>4. now' \in Nat /\ (ClockBack \/ now <= now')
    BY <1>1, RestartAssumption DEF Crash, Relaunch, RestartAssumption
<1>5. GoodDurable'
    BY <1>1, <1>3, <1>4, DurableKept
<1>6. GoodDisk'
    BY <1>3, <1>5 DEF GoodDisk, GoodDurable
<1>7. Base'
    BY <1>1, <1>3, <1>4 DEF Base, Waiting
<1> QED BY <1>3, <1>5, <1>6, <1>7 DEF RestartInv, Phase

-----------------------------------------------------------------------------
\* Startup, up to the replay.

LEMMA OpenEmptyStep ==
    ASSUME RestartInv, OpenEmpty
    PROVE  RestartInv'
<1>1. Base /\ GoodDisk /\ GoodDurable /\ Waiting /\ Emptied
    BY DEF RestartInv, OpenEmpty
<1>2. /\ UNCHANGED <<memVars, dbVars, work, result, now, faults, db_genesis, durable>>
      /\ goal' = NoBlock /\ phase' = "opened"
    BY DEF OpenEmpty, vars, diskVars
<1>3. db_genesis = NoBlock
    BY <1>1 DEF OpenEmpty, GoodDisk, GoodImage, PathTo, NoHeight
<1>4. now' \in Nat /\ now <= now'
    BY <1>1, <1>2 DEF Base
<1>5. GoodDisk' /\ GoodDurable'
    BY <1>1, <1>2, <1>4, DiskKept, DurableKept DEF dbVars
<1>6. Base' /\ Waiting' /\ Emptied'
    BY <1>1, <1>2 DEF Base, Waiting, Emptied, memVars
<1> QED BY <1>2, <1>3, <1>5, <1>6 DEF RestartInv, Phase, Opened

(***************************************************************************)
(* A database that has a tip has the path to it.                           *)
(***************************************************************************)
LEMMA StoredPath ==
    ASSUME GoodDisk, db_tip.height # NoHeight \/ db_genesis # NoBlock
    PROVE  db_genesis = Genesis /\ PathTo(db_tip, db_height, db_blocks)
BY DEF GoodDisk, GoodImage, EmptyImage

LEMMA EmptiedTyped ==
    ASSUME Emptied
    PROVE  /\ orphan_pool \in [Block -> Seq(Orphan)] /\ ledger \in Block
           /\ pending_reorg_recovery \subseteq ReorgRecovery /\ side_blocks = {}
           /\ Unforked
<1>1. << >> \in Seq(Orphan)
    OBVIOUS
<1> QED BY <1>1, GenesisFacts DEF Emptied, Unforked

LEMMA OpenStep ==
    ASSUME WellNumbered, RestartInv, Open
    PROVE  RestartInv' /\ WorkTyped' /\ WorkIsExact'
<1>1. Base /\ GoodDisk /\ GoodDurable /\ Waiting /\ Emptied
    BY DEF RestartInv, Open
<1>2. db_genesis = Genesis /\ PathTo(db_tip, db_height, db_blocks)
    BY <1>1, StoredPath DEF Open
<1> DEFINE m == db_tip.hash
<1>3. /\ m \in Block /\ db_tip.height = Depth[m] /\ db_tip \in [height : Nat, hash : Block]
      /\ \A h \in 0..Depth[m] : db_height[h] = Lineage[m][h] /\ db_height[h] \in db_blocks
    BY <1>2 DEF PathTo
<1>4. \A h \in 0..db_tip.height : Stored(h)
    BY <1>3, PathFacts DEF Stored
<1>5. /\ IndexesOf(db_height, Depth[m]) /\ goal' = m /\ phase' = "opened"
      /\ UNCHANGED <<side_blocks, orphan_pool, ledger, pending_reorg_recovery, dbVars,
                     work, result, now, faults, db_genesis, durable>>
    BY <1>3, <1>4 DEF Open, diskVars
<1>6. now' \in Nat /\ now <= now' /\ Base'
    BY <1>1, <1>5 DEF Base
<1>7. GoodDisk' /\ GoodDurable'
    BY <1>1, <1>5, <1>6, DiskKept, DurableKept DEF dbVars
<1>8. /\ orphan_pool' \in [Block -> Seq(Orphan)] /\ ledger' \in Block
      /\ pending_reorg_recovery' \subseteq ReorgRecovery /\ side_blocks' = {}
      /\ orphan_pool' = [b \in Block |-> <<>>] /\ ledger' = Genesis
    BY <1>1, <1>5, EmptiedTyped DEF Emptied
<1>9. /\ db_blocks' \subseteq Block /\ db_height' \in [Heights -> Hash]
      /\ db_tip' \in [height : Nat, hash : Block] /\ db_snap' \in [Heights -> Snapshot]
    BY <1>3, <1>7, <1>5 DEF GoodDisk, GoodImage, dbVars
<1>10. \A i \in 0..Depth[m] : db_height[i] = Lineage[m][i]
    BY <1>3
<1>11. Chained' /\ tip_hash' = m /\ WorkTyped' /\ WorkIsExact'
    <2> HIDE DEF m
    <2> QED BY <1>3, <1>5, <1>6, <1>8, <1>9, <1>10, IndexedChain, IndexedWork
<1>12. Loaded' /\ goal' = db_tip'.hash
    BY <1>5, <1>8, <1>11 DEF Loaded, Unforked, dbVars
<1>13. Opened'
    BY <1>1, <1>2, <1>5, <1>12 DEF Opened, Waiting
<1> QED BY <1>5, <1>6, <1>7, <1>11, <1>13 DEF RestartInv, Phase

(***************************************************************************)
(* The images between bootstrap's inserts, key by key.                     *)
(***************************************************************************)
LEMMA BootstrapKeys ==
    ASSUME NEW n \in 0..5
    PROVE  LET im == BootstrapImage(n) IN
           /\ im.blocks = IF n >= 1 THEN db_blocks \cup {Genesis} ELSE db_blocks
           /\ im.height = IF n >= 2 THEN [db_height EXCEPT ![0] = Genesis] ELSE db_height
           /\ im.tip = [height |-> IF n >= 3 THEN 0 ELSE db_tip.height,
                        hash |-> IF n >= 4 THEN Genesis ELSE db_tip.hash]
           /\ im.snap = db_snap
           /\ im.genesis = IF n >= 5 THEN Genesis ELSE db_genesis
BY DEF BootstrapImage, Image

LEMMA ZeroHeight ==
    0 \in Heights
BY GenesisFacts DEF Heights

(***************************************************************************)
(* A bootstrap cut before the tip pointer leaves an image without a chain. *)
(***************************************************************************)
LEMMA CutImage ==
    ASSUME Base, GoodDisk, db_genesis = NoBlock, now' = now, NEW n \in 0..2
    PROVE  LET im == BootstrapImage(n) IN
           /\ im.blocks \subseteq Block /\ im.height \in [Heights -> Hash]
           /\ im.snap \in [Heights -> Snapshot]
           /\ \A b \in im.blocks : Vetted(b)'
           /\ im.genesis = NoBlock /\ im.tip = EmptyImage.tip
<1> DEFINE im == BootstrapImage(n)
<1>1. n \in 0..5 /\ ~(n >= 3) /\ ~(n >= 4) /\ ~(n >= 5)
    OBVIOUS
<1>2. /\ im.blocks = IF n >= 1 THEN db_blocks \cup {Genesis} ELSE db_blocks
      /\ im.height = IF n >= 2 THEN [db_height EXCEPT ![0] = Genesis] ELSE db_height
      /\ im.tip = [height |-> db_tip.height, hash |-> db_tip.hash]
      /\ im.snap = db_snap /\ im.genesis = db_genesis
    BY <1>1, BootstrapKeys
<1> HIDE DEF im
<1>3. /\ db_blocks \subseteq Block /\ db_height \in [Heights -> Hash]
      /\ db_snap \in [Heights -> Snapshot] /\ \A b \in db_blocks : Vetted(b)
      /\ db_tip = [height |-> NoHeight, hash |-> NoBlock]
    BY GenesisFacts DEF GoodDisk, GoodImage, EmptyImage
<1>4. \A b : Vetted(b)' <=> Vetted(b)
    BY DEF Vetted
<1>5. Vetted(Genesis)
    BY DEF Vetted
<1>6. im.tip = EmptyImage.tip
    BY <1>2, <1>3 DEF EmptyImage
<1>7. im.height \in [Heights -> Hash]
    BY <1>2, <1>3, GenesisFacts, ZeroHeight DEF Hash
<1>8. im.blocks \subseteq Block /\ \A b \in im.blocks : Vetted(b)'
    BY <1>2, <1>3, <1>4, <1>5, GenesisFacts
<1> QED BY <1>2, <1>3, <1>6, <1>7, <1>8 DEF im

LEMMA WriteGenesisStep ==
    ASSUME WellNumbered, BootstrapCut \subseteq 0..2, RestartInv, WriteGenesis
    PROVE  RestartInv'
<1>1. Base /\ GoodDisk /\ GoodDurable /\ Opened /\ db_genesis = NoBlock
    BY DEF RestartInv, WriteGenesis
<1>2. Waiting /\ Emptied /\ goal = NoBlock
    BY <1>1, GenesisFacts DEF Opened
<1>3. /\ DiskBecomes(BootstrapImage(5))
      /\ durable' \in {durable} \cup {BootstrapImage(n) : n \in BootstrapCut}
      /\ blocks' = [i \in 0..(top + 1) |-> IF i <= top THEN blocks[i] ELSE Genesis]
      /\ top' = top + 1
      /\ canon_index' = [canon_index EXCEPT ![Genesis] = 0]
      /\ phase' = "booted"
      /\ UNCHANGED <<side_blocks, seen_blocks, orphan_pool, ledger, pending_reorg_recovery,
                     work, result, now, faults, goal>>
    BY DEF WriteGenesis
<1>4. /\ db_blocks' = db_blocks \cup {Genesis}
      /\ db_height' = [db_height EXCEPT ![0] = Genesis]
      /\ db_tip' = [height |-> 0, hash |-> Genesis]
      /\ db_snap' = db_snap /\ db_genesis' = Genesis
    BY <1>3, BootstrapKeys DEF DiskBecomes
<1>5. /\ db_blocks \subseteq Block /\ db_height \in [Heights -> Hash]
      /\ db_snap \in [Heights -> Snapshot] /\ \A b \in db_blocks : Vetted(b)
    BY <1>1 DEF GoodDisk, GoodImage
<1>6. \A b : Vetted(b)' <=> Vetted(b)
    BY <1>3 DEF Vetted
<1>7. Vetted(Genesis)
    BY DEF Vetted
<1>8. /\ db_blocks' \subseteq Block /\ db_height' \in [Heights -> Hash]
      /\ db_snap' \in [Heights -> Snapshot] /\ \A b \in db_blocks' : Vetted(b)'
      /\ db_tip' \in [height : Nat, hash : Block]
    BY <1>4, <1>5, <1>6, <1>7, GenesisFacts, ZeroHeight DEF Hash
<1>9. /\ Depth[Genesis] = 0 /\ Lineage[Genesis][0] = Genesis /\ Path(Genesis) = {Genesis}
    BY GenesisFacts, PathFacts DEF Path
<1>10. PathTo(db_tip', db_height', db_blocks')
    <2>1. db_height'[0] = Genesis /\ Genesis \in db_blocks'
        BY <1>4, <1>5, ZeroHeight
    <2>2. db_tip'.height = 0 /\ db_tip'.hash = Genesis
        BY <1>4
    <2>3. \A h \in 0..0 : h = 0
        OBVIOUS
    <2> QED BY <1>8, <1>9, <2>1, <2>2, <2>3 DEF PathTo
<1>11. GoodDisk'
    BY <1>4, <1>8, <1>10 DEF GoodDisk, GoodImage
<1>12. GoodDurable'
    <2>1. CASE durable' = durable
        <3>1. now' \in Nat /\ now <= now'
            BY <1>1, <1>3 DEF Base
        <3> QED BY <1>1, <2>1, <3>1, DurableKept
    <2>2. ASSUME NEW n \in BootstrapCut, durable' = BootstrapImage(n) PROVE GoodDurable'
        <3>1. n \in 0..2
            OBVIOUS
        <3> QED BY <1>1, <1>3, <2>2, <3>1, CutImage DEF GoodDurable, GoodImage
    <2> QED BY <1>3, <2>1, <2>2
<1>13. Base' /\ Waiting'
    BY <1>1, <1>2, <1>3 DEF Base, Waiting
<1>14. /\ top' = 0 /\ blocks' \in [0..0 -> Block] /\ blocks'[0] = Genesis
    <2>1. top + 1 = 0 /\ \A i \in 0..0 : ~(i <= top)
        BY <1>2 DEF Emptied
    <2>2. blocks' = [i \in 0..0 |-> Genesis]
        BY <1>3, <2>1
    <2> QED BY <1>3, <2>1, <2>2, GenesisFacts
<1>15. canon_index' = [b \in Block |-> IF b \in Path(Genesis) THEN Number[b] ELSE NoHeight]
    BY <1>2, <1>3, <1>9, GenesisFacts DEF Emptied
<1>16. /\ side_blocks' = {} /\ seen_blocks' = {} /\ orphan_pool' = [b \in Block |-> <<>>]
       /\ ledger' = Genesis /\ pending_reorg_recovery' = {}
       /\ orphan_pool' \in [Block -> Seq(Orphan)]
    BY <1>2, <1>3, EmptiedTyped DEF Emptied
<1>17. canon_index' \in [Block -> Nat \cup {NoHeight}]
    BY <1>15, BlockAssumption DEF BlockAssumption
<1>18. Typed'
    BY <1>8, <1>13, <1>14, <1>16, <1>17, GenesisFacts DEF Typed, Base
<1>19. \A i \in 0..0 : blocks'[i] = Lineage[Genesis][i]
    BY <1>9, <1>14
<1>20. Chained' /\ tip_hash' = Genesis
    BY <1>9, <1>14, <1>15, <1>16, <1>18, <1>19, GenesisFacts, StraightChain
<1>21. db_tip'.hash = Genesis
    BY <1>4
<1>22. Booted'
    BY <1>2, <1>3, <1>4, <1>13, <1>16, <1>20, <1>21 DEF Booted, Loaded, Unforked
<1> QED BY <1>3, <1>11, <1>12, <1>13, <1>22 DEF RestartInv, Phase

LEMMA WriteGenesisFailsStep ==
    ASSUME BootstrapCut \subseteq 0..2, RestartInv, WriteGenesisFails
    PROVE  RestartInv'
<1>1. Base /\ GoodDisk /\ GoodDurable /\ db_genesis = NoBlock
    BY DEF RestartInv, WriteGenesisFails
<1>2. PICK n \in 0..2 : DiskBecomes(BootstrapImage(n))
    BY DEF WriteGenesisFails
<1>3. /\ faults' = faults + 1 /\ phase' = "failed"
      /\ UNCHANGED <<work, result, now, durable>>
    BY DEF WriteGenesisFails
<1>4. GoodDisk'
    BY <1>1, <1>2, <1>3, CutImage DEF DiskBecomes, GoodDisk, GoodImage
<1>5. now' \in Nat /\ now <= now' /\ faults' > 0 /\ Base'
    BY <1>1, <1>3 DEF Base
<1>6. GoodDurable'
    BY <1>1, <1>3, <1>5, DurableKept
<1> QED BY <1>3, <1>4, <1>5, <1>6 DEF RestartInv, Phase

LEMMA VerifyGenesisStep ==
    ASSUME RestartInv, VerifyGenesis
    PROVE  RestartInv'
<1>1. Base /\ GoodDisk /\ GoodDurable /\ Opened /\ db_genesis # NoBlock
    BY DEF RestartInv, VerifyGenesis
<1>2. Waiting /\ db_genesis = Genesis /\ goal = db_tip.hash /\ Loaded
    BY <1>1 DEF Opened
<1>3. /\ phase' = "booted"
      /\ UNCHANGED <<memVars, dbVars, work, result, now, faults, db_genesis, durable, goal>>
    BY <1>2 DEF VerifyGenesis, verify_stored_genesis, vars, diskVars
<1>4. now' \in Nat /\ now <= now' /\ Base'
    BY <1>1, <1>3 DEF Base
<1>5. GoodDisk' /\ GoodDurable'
    BY <1>1, <1>3, <1>4, DiskKept, DurableKept DEF dbVars
<1>6. Chained' /\ tip_hash' = tip_hash
    <2>1. Typed'
        BY <1>2, <1>3 DEF Loaded, Chained, Typed, memVars, dbVars
    <2> QED BY <1>2, <1>3, <2>1, ChainUntouched DEF Loaded, memVars
<1>7. Loaded' /\ Waiting'
    BY <1>2, <1>3, <1>6 DEF Loaded, Unforked, Waiting, memVars, dbVars
<1>8. Booted'
    BY <1>2, <1>3, <1>7 DEF Booted, dbVars
<1> QED BY <1>3, <1>4, <1>5, <1>8 DEF RestartInv, Phase

-----------------------------------------------------------------------------
\* From the loaded chain to a running node or to the replay.

(***************************************************************************)
(* Memory and disk once bootstrap is through: both hold the path to the    *)
(* stored tip.                                                             *)
(***************************************************************************)
LEMMA BootedFacts ==
    ASSUME WellNumbered, GoodDisk, Booted
    PROVE  /\ Chained /\ db_genesis = Genesis /\ PathTo(db_tip, db_height, db_blocks)
           /\ db_tip.hash \in Block /\ tip_hash = db_tip.hash
           /\ db_tip = [height |-> top, hash |-> tip_hash]
           /\ top \in Nat /\ top = Depth[db_tip.hash] /\ db_tip.height = top
           /\ current_height = top
           /\ \A h \in 0..top : /\ blocks[h] = Lineage[db_tip.hash][h]
                                /\ db_height[h] = blocks[h] /\ db_height[h] \in db_blocks
           /\ goal # db_tip.hash => goal = NoBlock /\ top = 0
<1>1. Chained /\ tip_hash = db_tip.hash /\ db_genesis = Genesis
    BY DEF Booted, Loaded
<1>2. PathTo(db_tip, db_height, db_blocks)
    BY <1>1, GenesisFacts, StoredPath
<1>3. /\ db_tip \in [height : Nat, hash : Block] /\ db_tip.height = Depth[db_tip.hash]
      /\ \A h \in 0..db_tip.height : /\ db_height[h] = Lineage[db_tip.hash][h]
                                     /\ db_height[h] \in db_blocks
    BY <1>2 DEF PathTo
<1>4. /\ top = Depth[tip_hash] /\ top \in Nat /\ tip_hash \in Block
      /\ \A i \in 0..top : blocks[i] = Lineage[tip_hash][i]
    BY <1>1, TipFacts
<1>5. current_height = top
    BY <1>4 DEF current_height, WellNumbered
<1>6. db_tip = [height |-> top, hash |-> tip_hash]
    BY <1>1, <1>3, <1>4
<1>7. goal # db_tip.hash => goal = NoBlock /\ top = 0
    BY <1>1, <1>4, GenesisFacts DEF Booted
<1> QED BY <1>1, <1>2, <1>3, <1>4, <1>5, <1>6, <1>7

LEMMA StartAtGenesisStep ==
    ASSUME WellNumbered, RestartInv, StartAtGenesis
    PROVE  RestartInv' /\ (goal # NoBlock => tip_hash' = goal)
<1>1. Base /\ GoodDisk /\ GoodDurable /\ Booted
    BY DEF RestartInv, StartAtGenesis
<1>2. /\ Chained /\ db_genesis = Genesis
      /\ tip_hash = db_tip.hash /\ db_tip = [height |-> top, hash |-> tip_hash]
      /\ tip_hash \in Block /\ top = Depth[tip_hash] /\ current_height = top
      /\ \A h \in 0..top : db_height[h] = blocks[h] /\ db_height[h] \in db_blocks
      /\ goal # db_tip.hash => goal = NoBlock
    BY <1>1, BootedFacts
<1>3. /\ phase' = "up"
      /\ UNCHANGED <<memVars, dbVars, work, result, now, faults, db_genesis, durable, goal>>
    BY DEF StartAtGenesis, vars, diskVars
<1>4. top = 0
    BY <1>2 DEF StartAtGenesis
<1>5. tip_hash = Genesis
    <2>1. ASSUME tip_hash # Genesis PROVE FALSE
        BY <1>2, <1>4, <2>1, ParentFacts
    <2> QED BY <2>1
<1>6. now' \in Nat /\ now <= now' /\ Base'
    BY <1>1, <1>3 DEF Base
<1>7. GoodDisk' /\ GoodDurable'
    BY <1>1, <1>3, <1>6, DiskKept, DurableKept DEF dbVars
<1>8. Chained' /\ tip_hash' = tip_hash /\ Known' = Known
    <2>1. Typed'
        BY <1>2, <1>3 DEF Chained, Typed, memVars, dbVars
    <2> QED BY <1>2, <1>3, <2>1, ChainUntouched DEF memVars
<1>9. LedgerAtTip'
    BY <1>1, <1>3, <1>5, <1>8 DEF Booted, Loaded, LedgerAtTip, memVars
<1>10. Known \subseteq db_blocks
    <2>1. side_blocks = {}
        BY <1>1 DEF Booted, Loaded, Unforked
    <2>2. \A x \in Canon : canon_index[x] \in 0..top /\ blocks[canon_index[x]] = x
        BY <1>2, TipFacts
    <2> QED BY <2>1, <2>2, <1>2 DEF Known
<1>11. Filed'
    BY <1>2, <1>3, <1>8, <1>10 DEF Filed, memVars, dbVars
<1>12. Running'
    BY <1>2, <1>3, <1>8, <1>9, <1>11 DEF Running
<1> QED BY <1>2, <1>3, <1>6, <1>7, <1>8, <1>12 DEF RestartInv, Phase

LEMMA RebuildStep ==
    ASSUME WellNumbered, RestartInv, RebuildFromGenesis
    PROVE  RestartInv' /\ phase' # "up"
<1>1. Base /\ GoodDisk /\ GoodDurable /\ Booted
    BY DEF RestartInv, RebuildFromGenesis
<1>2. /\ db_genesis = Genesis /\ db_tip.hash \in Block
      /\ top \in Nat /\ top = Depth[db_tip.hash] /\ db_tip.height = top /\ current_height = top
      /\ \A h \in 0..top : /\ db_height[h] = Lineage[db_tip.hash][h]
                           /\ db_height[h] \in db_blocks
      /\ goal # db_tip.hash => top = 0
    BY <1>1, BootedFacts
<1>3. top > 0 /\ goal = db_tip.hash
    BY <1>2 DEF RebuildFromGenesis
<1>4. \A h \in 0..db_tip.height : Stored(h) /\ Number[db_height[h]] = h
    BY <1>2, PathFacts DEF Stored
<1>5. /\ phase' = "replay" /\ next' = 0 /\ target' = db_tip.height /\ ClearMemory
      /\ UNCHANGED <<dbVars, work, result, now, faults, db_genesis, durable, goal>>
    BY <1>4 DEF RebuildFromGenesis, diskVars
<1>6. now' \in Nat /\ now <= now' /\ Base' /\ Waiting'
    BY <1>1, <1>5 DEF Base, Booted, Waiting
<1>7. GoodDisk' /\ GoodDurable'
    BY <1>1, <1>5, <1>6, DiskKept, DurableKept DEF dbVars
<1>8. Emptied' /\ next' - 1 = -1
    BY <1>5 DEF ClearMemory, Emptied
<1>9. Replayed(next - 1)'
    BY <1>8 DEF Replayed
<1>10. /\ goal' \in Block /\ target' = Depth[goal'] /\ next' \in 0..target'
       /\ db_genesis' = Genesis
       /\ \A h \in 0..target' : /\ db_height'[h] = Lineage[goal'][h]
                                /\ Lineage[goal'][h] \in db_blocks'
    BY <1>2, <1>3, <1>5 DEF dbVars
<1>11. Replaying'
    BY <1>6, <1>9, <1>10 DEF Replaying
<1> QED BY <1>5, <1>6, <1>7, <1>11 DEF RestartInv, Phase

(***************************************************************************)
(* A snapshot that is accepted is one of the stored chain, so what is left *)
(* of memory is that chain up to it, with the state after it.              *)
(***************************************************************************)
LEMMA RestoreStep ==
    ASSUME WellNumbered, RestartInv, RestoreSnapshot
    PROVE  /\ RestartInv' /\ (phase' = "up" /\ goal # NoBlock => tip_hash' = goal)
           /\ WorkTyped' /\ WorkIsExact'
<1>1. Base /\ GoodDisk /\ GoodDurable /\ Booted
    BY DEF RestartInv, RestoreSnapshot
<1> DEFINE m == db_tip.hash
<1>2. /\ Chained /\ db_genesis = Genesis /\ m \in Block
      /\ db_tip = [height |-> top, hash |-> m]
      /\ top \in Nat /\ top = Depth[m] /\ db_tip.height = top /\ current_height = top
      /\ \A h \in 0..top : /\ blocks[h] = Lineage[m][h]
                           /\ db_height[h] = blocks[h] /\ db_height[h] \in db_blocks
      /\ goal # m => goal = NoBlock /\ top = 0
    BY <1>1, BootedFacts
<1> HIDE DEF m
<1>3. PICK h \in Heights :
        /\ Restorable(h)
        /\ IndexesOf(blocks, IF h < top THEN h ELSE top)
        /\ ledger' = db_snap[h].hash
        /\ next' = h + 1
        /\ target' = db_tip.height
        /\ phase' = IF db_tip.height <= h THEN "up" ELSE "replay"
    BY DEF RestoreSnapshot
<1>4. UNCHANGED <<side_blocks, orphan_pool, pending_reorg_recovery, dbVars, work, result,
                  now, faults, db_genesis, durable, goal>>
    BY DEF RestoreSnapshot, diskVars
<1>5. h \in 0..top
    <2>1. h \in Nat
        BY BlockAssumption DEF BlockAssumption, Heights
    <2>2. h <= current_height
        BY <1>3 DEF Restorable
    <2> QED BY <2>1, <2>2, <1>2
<1>6. db_snap[h].hash = db_height[h]
    BY <1>3, Zenon DEF Restorable
<1>7. PICK x \in Block : /\ x = Lineage[m][h] /\ Depth[x] = h
                         /\ \A k \in 0..h : Lineage[x][k] = Lineage[m][k]
    BY <1>2, <1>5, LineagePrefix
<1>8. IndexesOf(blocks, Depth[x])
    <2>1. (IF h < top THEN h ELSE top) = Depth[x]
        BY <1>2, <1>5, <1>7
    <2>2. IndexesOf(blocks, IF h < top THEN h ELSE top)
        BY <1>3
    <2> QED BY <2>1, <2>2
<1>9. \A i \in 0..Depth[x] : blocks[i] = Lineage[x][i]
    BY <1>2, <1>5, <1>7
<1>10. ledger' = x
    BY <1>2, <1>3, <1>5, <1>6, <1>7
<1>11. now' \in Nat /\ now <= now' /\ Base' /\ Waiting'
    BY <1>1, <1>4 DEF Base, Booted, Waiting
<1>12. GoodDisk' /\ GoodDurable'
    BY <1>1, <1>4, <1>11, DiskKept, DurableKept DEF dbVars
<1>13. /\ side_blocks' = {} /\ orphan_pool' = [b \in Block |-> <<>>]
       /\ orphan_pool' \in [Block -> Seq(Orphan)] /\ ledger' \in Block
       /\ pending_reorg_recovery' \subseteq ReorgRecovery
       /\ db_blocks' \subseteq Block /\ db_height' \in [Heights -> Hash]
       /\ db_tip' \in [height : Nat, hash : Block] /\ db_snap' \in [Heights -> Snapshot]
    BY <1>1, <1>4, <1>10 DEF Booted, Loaded, Unforked, Chained, Typed, dbVars
<1>14. Chained' /\ tip_hash' = x /\ Known' = Path(x)
    BY <1>8, <1>9, <1>11, <1>13, IndexedChain
<1>15. WorkTyped' /\ WorkIsExact'
    BY <1>8, <1>9, <1>14, IndexedWork
<1>16. LedgerAtTip' /\ Unforked'
    BY <1>10, <1>13, <1>14 DEF LedgerAtTip, Unforked
<1>17. CASE db_tip.height <= h
    <2>1. h = top /\ x = m /\ phase' = "up"
        BY <1>2, <1>3, <1>5, <1>7, <1>17, DepthFacts
    <2>2. /\ blocks' = [i \in 0..Depth[x] |-> blocks[i]] /\ top' = Depth[x]
        BY <1>8, IndexFacts
    <2>3. Path(x) \subseteq db_blocks
        BY <1>2, <2>1 DEF Path
    <2>4. top' = top /\ \A i \in 0..top : blocks'[i] = blocks[i]
        BY <1>2, <2>1, <2>2
    <2>5. Filed'
        BY <1>2, <1>4, <1>14, <2>1, <2>3, <2>4 DEF Filed, dbVars
    <2>6. Running'
        BY <1>2, <1>4, <1>14, <1>16, <2>5 DEF Running
    <2>7. goal # NoBlock => tip_hash' = goal
        BY <1>2, <1>14, <2>1
    <2> QED BY <1>11, <1>12, <1>15, <2>1, <2>6, <2>7 DEF RestartInv, Phase
<1>18. CASE ~(db_tip.height <= h)
    <2>1. phase' = "replay" /\ h < top /\ goal = m
        BY <1>2, <1>3, <1>5, <1>18
    <2>2. next' - 1 = h /\ next' \in 0..top /\ target' = top /\ h \in 0..target'
        BY <1>2, <1>3, <1>5, <2>1
    <2>3. Replayed(next - 1)'
        BY <1>4, <1>7, <1>14, <1>16, <2>1, <2>2 DEF Replayed
    <2>4. /\ goal' \in Block /\ target' = Depth[goal'] /\ next' \in 0..target'
          /\ db_genesis' = Genesis
          /\ \A k \in 0..target' : /\ db_height'[k] = Lineage[goal'][k]
                                   /\ Lineage[goal'][k] \in db_blocks'
        BY <1>2, <1>4, <2>1, <2>2 DEF dbVars
    <2>5. Replaying'
        BY <1>11, <2>3, <2>4 DEF Replaying
    <2> QED BY <1>11, <1>12, <1>15, <2>1, <2>5 DEF RestartInv, Phase
<1> QED BY <1>17, <1>18

-----------------------------------------------------------------------------
\* The replay.

LEMMA ReplayFrame ==
    ASSUME UNCHANGED <<memVars, dbVars, now, faults, target, goal>>, Base'
    PROVE  /\ \A k : Replayed(k) => Replayed(k)'
           /\ Chained => Chained'
           /\ LedgerAtTip' <=> LedgerAtTip
           /\ Filed' <=> Filed
           /\ tip_hash' = tip_hash
<1> USE DEF memVars, dbVars
<1>1. /\ Emptied' <=> Emptied
      /\ Unforked' <=> Unforked
      /\ tip_hash' = tip_hash /\ Known' = Known
    BY DEF Emptied, Unforked, tip_hash, Known, Canon
<1>2. Chained => Chained'
    <2>1. Typed => Typed'
        BY DEF Typed, Base
    <2> QED BY <2>1, ChainUntouched DEF Chained
<1>3. (LedgerAtTip' <=> LedgerAtTip) /\ (Filed' <=> Filed)
    BY <1>1 DEF LedgerAtTip, Filed
<1> QED BY <1>1, <1>2, <1>3 DEF Replayed

LEMMA ReplayBlockStep ==
    ASSUME WellNumbered, RestartInv, ReplayBlock
    PROVE  RestartInv' /\ phase' # "up"
<1>1. Base /\ GoodDisk /\ GoodDurable /\ Replaying /\ phase = "replay" /\ result = "idle"
    BY DEF RestartInv, ReplayBlock
<1>2. /\ goal \in Block /\ target = Depth[goal] /\ next \in 0..target
      /\ \A h \in 0..target : db_height[h] = Lineage[goal][h] /\ Lineage[goal][h] \in db_blocks
      /\ Replayed(next - 1)
    BY <1>1 DEF Replaying
<1> DEFINE b == Lineage[goal][next]
<1>3. b \in Block /\ Stored(next) /\ Number[db_height[next]] = next /\ db_height[next] = b
    BY <1>2, PathFacts DEF Stored
<1>4. /\ phase' = phase /\ work' = <<b>> /\ result' = "pending"
      /\ UNCHANGED <<memVars, dbVars, now, faults, db_genesis, durable, next, target, goal>>
    BY <1>3 DEF ReplayBlock, diskVars
<1>5. Base' /\ now' \in Nat /\ now <= now'
    BY <1>1, <1>3, <1>4 DEF Base
<1>6. GoodDisk' /\ GoodDurable'
    BY <1>1, <1>4, <1>5, DiskKept, DurableKept DEF dbVars
<1>7. Replayed(next - 1)'
    BY <1>2, <1>4, <1>5, ReplayFrame DEF Replayed
<1>8. Replaying'
    BY <1>1, <1>2, <1>4, <1>7 DEF Replaying, dbVars
<1> QED BY <1>1, <1>4, <1>5, <1>6, <1>8 DEF RestartInv, Phase

LEMMA ReplayResultStep ==
    ASSUME WellNumbered, RestartInv, ReplayResult
    PROVE  RestartInv' /\ (phase' = "up" /\ goal # NoBlock => tip_hash' = goal)
<1>1. /\ Base /\ GoodDisk /\ GoodDurable /\ Replaying /\ phase = "replay"
      /\ work = <<>> /\ result \in Outcome
    BY DEF RestartInv, ReplayResult
<1>2. /\ db_genesis = Genesis
      /\ goal \in Block /\ target = Depth[goal] /\ next \in 0..target
      /\ \A h \in 0..target : db_height[h] = Lineage[goal][h] /\ Lineage[goal][h] \in db_blocks
    BY <1>1 DEF Replaying
<1>3. /\ result' = "idle" /\ next' = next + 1
      /\ phase' = IF result # "CanonExtension" THEN "failed"
                  ELSE IF next = target THEN "up" ELSE "replay"
      /\ UNCHANGED <<memVars, dbVars, work, now, faults, db_genesis, durable, target, goal>>
    BY DEF ReplayResult, diskVars
<1>4. Base' /\ now' \in Nat /\ now <= now' /\ Waiting'
    BY <1>1, <1>3 DEF Base, Waiting
<1>5. GoodDisk' /\ GoodDurable'
    BY <1>1, <1>3, <1>4, DiskKept, DurableKept DEF dbVars
<1>6. CASE result # "CanonExtension"
    <2>1. faults > 0 \/ ClockBack
        BY <1>1, <1>6 DEF Replaying, Waiting, Outcome
    <2> QED BY <1>3, <1>4, <1>5, <1>6, <2>1 DEF RestartInv, Phase
<1>7. CASE result = "CanonExtension"
    <2>1. Replayed(next) /\ Filed
        BY <1>1, <1>7 DEF Replaying, Waiting
    <2>2. next # -1 /\ next \in Nat /\ target \in Nat
        BY <1>2, DepthFacts
    <2>3. Chained /\ LedgerAtTip /\ Unforked /\ tip_hash = Lineage[goal][next]
        BY <2>1, <2>2 DEF Replayed
    <2>4. /\ Chained' /\ LedgerAtTip' /\ Filed' /\ tip_hash' = tip_hash
          /\ Replayed(next)
        BY <1>3, <1>4, <2>1, <2>3, ReplayFrame
    <2>5. Unforked'
        BY <1>3, <2>3 DEF Unforked, memVars
    <2>6. CASE next = target
        <3>1. phase' = "up" /\ tip_hash' = goal
            BY <1>2, <1>3, <1>7, <2>3, <2>4, <2>6, DepthFacts
        <3>2. Running'
            BY <1>2, <1>3, <2>4 DEF Running
        <3> QED BY <1>4, <1>5, <3>1, <3>2 DEF RestartInv, Phase
    <2>7. CASE next # target
        <3>1. phase' = "replay" /\ next' \in 0..target /\ next' - 1 = next /\ next \in 0..target
            BY <1>2, <1>3, <1>7, <2>2, <2>7
        <3>2. Replayed(next - 1)'
            BY <1>3, <2>3, <2>4, <2>5, <3>1 DEF Replayed
        <3>3. Replaying'
            BY <1>2, <1>3, <1>4, <3>1, <3>2 DEF Replaying, dbVars
        <3> QED BY <1>4, <1>5, <3>1, <3>3 DEF RestartInv, Phase
    <2> QED BY <2>6, <2>7
<1> QED BY <1>6, <1>7

(***************************************************************************)
(* A replayed block that is refused leaves everything as it was.           *)
(***************************************************************************)
LEMMA ReplayRefused ==
    ASSUME RestartInv, phase = "replay", Apply, work' = <<>>, result' = "Rejected",
           UNCHANGED <<memVars, dbVars, now>>, faults' \in Nat, faults' > 0 \/ ClockBack
    PROVE  RestartInv'
<1>1. Base /\ GoodDisk /\ GoodDurable /\ Replaying
    BY DEF RestartInv
<1>2. /\ durable' \in {durable} \cup TornSnapshots /\ phase' = phase
      /\ UNCHANGED <<db_genesis, next, target, goal>>
    BY DEF Apply, bootVars
<1>3. durable' = durable
    BY <1>2 DEF TornSnapshots, dbVars
<1>4. Base' /\ now' \in Nat /\ now <= now'
    <2>1. work' \in Seq(Block)
        OBVIOUS
    <2>2. now' \in Nat /\ now <= now'
        BY <1>1 DEF Base
    <2> QED BY <2>1, <2>2 DEF Base, Outcome
<1>5. GoodDisk' /\ GoodDurable'
    BY <1>1, <1>2, <1>3, <1>4, DiskKept, DurableKept DEF dbVars
<1>6. Replaying'
    BY <1>1, <1>2 DEF Replaying, dbVars
<1> QED BY <1>2, <1>4, <1>5, <1>6 DEF RestartInv, Phase

(***************************************************************************)
(* A replayed block that becomes the new tip writes what was there.        *)
(***************************************************************************)
LEMMA ReplayAccepted ==
    ASSUME WellNumbered, RestartInv, phase = "replay", Apply,
           work' = <<>>, result' = "CanonExtension", now' = now,
           Chained', LedgerAtTip', Unforked', tip_hash' = Lineage[goal][next],
           db_tip' = [height |-> next, hash |-> Lineage[goal][next]],
           db_blocks' = db_blocks \cup {Lineage[goal][next]},
           \A h \in Heights : db_height'[h] = IF h = next THEN Lineage[goal][next]
                                              ELSE db_height[h]
    PROVE  RestartInv'
<1> DEFINE b == Lineage[goal][next]
<1>1. Base /\ GoodDisk /\ GoodDurable /\ Replaying
    BY DEF RestartInv
<1>2. /\ db_genesis = Genesis
      /\ goal \in Block /\ target = Depth[goal] /\ next \in 0..target
      /\ \A h \in 0..target : db_height[h] = Lineage[goal][h] /\ Lineage[goal][h] \in db_blocks
    BY <1>1 DEF Replaying
<1>3. /\ durable' \in {durable} \cup TornSnapshots /\ phase' = phase
      /\ UNCHANGED <<db_genesis, next, target, goal>>
    BY DEF Apply, bootVars
<1>4. b \in Block /\ Depth[b] = next /\ \A k \in 0..next : Lineage[b][k] = Lineage[goal][k]
    BY <1>2, LineagePrefix
<1>5. db_blocks' = db_blocks
    BY <1>2
<1>6. \A h \in 0..target : db_height'[h] = Lineage[goal][h]
    <2>1. \A h \in 0..target : h \in Heights
        BY <1>2, PathFacts
    <2> QED BY <1>2, <2>1
<1> HIDE DEF b
<1>7. Typed' /\ CanonicalPath'
    BY DEF Chained
<1>8. /\ top' = next /\ top' \in Nat
      /\ \A i \in 0..next : blocks'[i] = Lineage[b][i] /\ blocks'[i] \in Block
      /\ \A x \in Canon' : x \in Block /\ canon_index'[x] \in 0..next
                           /\ blocks'[canon_index'[x]] = x
    <2>1. tip_hash' = b
        BY DEF b
    <2>2. top' = next /\ top' \in Nat /\ next \in Nat
        BY <1>4, <1>7, <2>1 DEF CanonicalPath, Typed
    <2>3. \A i \in 0..next : blocks'[i] = Lineage[b][i] /\ blocks'[i] \in Block
        BY <1>7, <2>1, <2>2 DEF CanonicalPath, Typed
    <2>4. \A x \in Canon' : /\ x \in Block /\ canon_index'[x] \in Nat
                             /\ canon_index'[x] <= next /\ blocks'[canon_index'[x]] = x
        BY <1>7, <2>2 DEF CanonicalPath, Typed, Canon
    <2> QED BY <2>2, <2>3, <2>4
<1>9. \A i \in 0..next : /\ i \in 0..target /\ blocks'[i] = Lineage[goal][i]
                         /\ db_height'[i] = blocks'[i]
    BY <1>2, <1>4, <1>6, <1>8, DepthFacts
<1>10. Known' \subseteq db_blocks'
    <2>1. \A x \in Canon' : x \in db_blocks
        BY <1>2, <1>8, <1>9
    <2> QED BY <1>5, <2>1 DEF Known, Unforked
<1>11. Filed'
    BY <1>8, <1>9, <1>10 DEF Filed, b
<1>12. \A x \in db_blocks' : Vetted(x)'
    <2>1. \A x \in db_blocks : Vetted(x)
        BY <1>1 DEF GoodDisk, GoodImage
    <2> QED BY <1>5, <2>1 DEF Vetted
<1>13. GoodDisk'
    BY <1>2, <1>3, <1>11, <1>12, FiledImage
<1>14. GoodDurable'
    <2>1. CASE durable' = durable
        <3>1. now <= now' /\ now' \in Nat
            BY <1>1 DEF Base
        <3> QED BY <1>1, <2>1, <3>1, DurableKept
    <2>2. CASE durable' \in TornSnapshots
        <3>1. db_tip'.hash \in Block
            BY <1>7 DEF Typed
        <3> QED BY <1>1, <1>3, <1>13, <2>2, <3>1, TornImage
    <2> QED BY <1>3, <2>1, <2>2
<1>15. Replayed(next)'
    BY <1>2, <1>3 DEF Replayed
<1>16. Replaying'
    BY <1>2, <1>3, <1>5, <1>6, <1>11, <1>15 DEF Replaying
<1>17. Base'
    BY <1>7 DEF Typed, Base
<1> QED BY <1>3, <1>13, <1>14, <1>16, <1>17 DEF RestartInv, Phase

(***************************************************************************)
(* The first block of a rebuild can only be genesis on an empty chain: it  *)
(* takes the shortcut, unless its batch fails.                             *)
(***************************************************************************)
LEMMA ReplayGenesis ==
    ASSUME WellNumbered, RestartInv, phase = "replay", Apply, next = 0, Emptied,
           work = <<Lineage[goal][next]>>, result = "pending"
    PROVE  RestartInv'
<1>1. Base /\ GoodDisk /\ Replaying
    BY DEF RestartInv
<1>2. goal \in Block /\ next \in 0..target /\ target = Depth[goal]
    BY <1>1 DEF Replaying
<1>3. Lineage[goal][next] = Genesis
    BY <1>2, PathFacts
<1>4. Head(work) = Genesis /\ Tail(work) = <<>> /\ work # <<>>
    BY <1>3
<1>5. Number[Genesis] = 0 /\ WellFormed(Genesis) /\ FirstGenesis(Genesis) /\ ~ParentKnown(Genesis)
    BY GenesisFacts, BlockAssumption
    DEF BlockAssumption, WellFormed, FirstGenesis, ParentKnown, Emptied
<1>6. CASE RejectUnpersisted(Genesis)
    <2>1. /\ faults' = faults + 1 /\ work' = <<>> /\ result' = "Rejected"
          /\ UNCHANGED <<memVars, dbVars, now>>
        BY <1>4, <1>6 DEF RejectUnpersisted, Answer
    <2>2. faults' \in Nat /\ faults' > 0
        BY <1>1, <2>1 DEF Base
    <2> QED BY <2>1, <2>2, ReplayRefused
<1>7. CASE ApplyGenesis(Genesis)
    <2>1. /\ persist_canonical_extension(Genesis) /\ push_canonical(Genesis, Work[Genesis])
          /\ work' = <<>> /\ result' = "CanonExtension"
          /\ UNCHANGED <<side_blocks, orphan_pool, ledger, db_snap, now, faults>>
        BY <1>4, <1>7 DEF ApplyGenesis, Answer
    <2>2. /\ db_blocks' = db_blocks \cup {Genesis}
          /\ db_height' = [db_height EXCEPT ![0] = Genesis]
          /\ db_tip' = [height |-> 0, hash |-> Genesis]
        BY <2>1, GenesisFacts DEF persist_canonical_extension, store_block
    <2>3. /\ pending_reorg_recovery' = {} /\ seen_blocks' = {Genesis}
          /\ canon_index' = [canon_index EXCEPT ![Genesis] = 0]
          /\ top' = top + 1
          /\ blocks' = [i \in 0..(top + 1) |-> IF i <= top THEN blocks[i] ELSE Genesis]
        BY <2>1, GenesisFacts DEF push_canonical, Emptied
    <2>4. top' = 0 /\ blocks' \in [0..0 -> Block] /\ blocks'[0] = Genesis
        <3>1. top + 1 = 0 /\ \A i \in 0..0 : ~(i <= top)
            BY DEF Emptied
        <3>2. blocks' = [i \in 0..0 |-> Genesis]
            BY <2>3, <3>1
        <3> QED BY <2>3, <3>1, <3>2, GenesisFacts
    <2>5. Depth[Genesis] = 0 /\ Lineage[Genesis][0] = Genesis /\ Path(Genesis) = {Genesis}
        BY GenesisFacts, PathFacts DEF Path
    <2>6. canon_index' = [b \in Block |-> IF b \in Path(Genesis) THEN Number[b] ELSE NoHeight]
        BY <2>3, <2>5, GenesisFacts DEF Emptied
    <2>7. canon_index' \in [Block -> Nat \cup {NoHeight}]
        BY <2>6, BlockAssumption DEF BlockAssumption
    <2>8. /\ side_blocks' = {} /\ orphan_pool' = [b \in Block |-> <<>>]
          /\ orphan_pool' \in [Block -> Seq(Orphan)] /\ ledger' = Genesis
        BY <2>1, EmptiedTyped DEF Emptied
    <2>9. /\ db_blocks \subseteq Block /\ db_height \in [Heights -> Hash]
          /\ db_snap \in [Heights -> Snapshot]
        BY <1>1 DEF GoodDisk, GoodImage
    <2>10. /\ db_blocks' \subseteq Block /\ db_height' \in [Heights -> Hash]
           /\ db_tip' \in [height : Nat, hash : Block] /\ db_snap' \in [Heights -> Snapshot]
        BY <2>1, <2>2, <2>9, GenesisFacts, ZeroHeight DEF Hash
    <2>11. work' \in Seq(Block) /\ result' \in Outcome /\ now' \in Nat /\ faults' \in Nat
        BY <1>1, <2>1 DEF Base, Outcome
    <2>12. Typed'
        BY <2>3, <2>4, <2>7, <2>8, <2>10, <2>11, GenesisFacts DEF Typed
    <2>13. \A i \in 0..0 : blocks'[i] = Lineage[Genesis][i]
        BY <2>4, <2>5
    <2>14. seen_blocks' \cup {Genesis} = Path(Genesis)
        BY <2>3, <2>5
    <2>15. Chained' /\ tip_hash' = Genesis
        BY <2>4, <2>5, <2>6, <2>8, <2>12, <2>13, <2>14, GenesisFacts, StraightChain
    <2>16. LedgerAtTip' /\ Unforked'
        BY <2>8, <2>15 DEF LedgerAtTip, Unforked
    <2>17. \A h \in Heights : db_height'[h] = IF h = next THEN Lineage[goal][next]
                                              ELSE db_height[h]
        BY <1>3, <2>2, <2>9
    <2> QED BY <1>3, <2>1, <2>2, <2>15, <2>16, <2>17, ReplayAccepted
<1>8. ASSUME NEW b \in Block,
             \/ Reject(b) \/ RejectUnpersisted(b) \/ StoreOrphan(b)
             \/ ExtendCanonical(b) \/ StoreSide(b) \/ Reorganise(b) \/ ApplyGenesis(b)
      PROVE  RestartInv'
    <2>1. b = Genesis
        BY <1>4, <1>8 DEF Reject, RejectUnpersisted, StoreOrphan, ExtendCanonical, StoreSide,
                          Reorganise, OnSideBranch, ApplyGenesis, Applying
    <2>2. ~Reject(Genesis)
        BY <1>5 DEF Reject
    <2>3. ~StoreOrphan(Genesis)
        BY <1>5 DEF StoreOrphan
    <2>4. ~ExtendCanonical(Genesis) /\ ~StoreSide(Genesis) /\ ~Reorganise(Genesis)
        BY <1>5 DEF ExtendCanonical, StoreSide, Reorganise, OnSideBranch
    <2> QED BY <1>6, <1>7, <1>8, <2>1, <2>2, <2>3, <2>4
<1> QED BY <1>8 DEF Apply, Step

(***************************************************************************)
(* Any other stored block extends the chain replayed so far.  It is        *)
(* refused only if its batch fails or the clock was set back.              *)
(***************************************************************************)
LEMMA ReplayTail ==
    ASSUME WellNumbered, RestartInv, phase = "replay", Apply, next - 1 \in 0..target,
           Chained, LedgerAtTip, Unforked, tip_hash = Lineage[goal][next - 1],
           work = <<Lineage[goal][next]>>, result = "pending"
    PROVE  RestartInv'
<1> DEFINE b == Lineage[goal][next]
<1>1. Base /\ GoodDisk /\ Replaying
    BY DEF RestartInv
<1>2. /\ goal \in Block /\ next \in 0..target /\ target = Depth[goal] /\ b \in db_blocks
      /\ db_height[next] = b
    BY <1>1 DEF Replaying
<1>3. next \in 1..Depth[goal] /\ target \in Nat /\ next \in Nat
    BY <1>2, DepthFacts
<1>4. b \in Block /\ b # Genesis /\ Parent[b] = tip_hash
    BY <1>2, <1>3, LineageParent
<1>5. Depth[b] = next /\ Number[b] = next
    BY <1>2, PathFacts
<1>6. Head(work) = b /\ Tail(work) = <<>> /\ work # <<>>
    OBVIOUS
<1> HIDE DEF b
<1>7. /\ top \in Nat /\ tip_hash \in Canon /\ tip_hash \in Block /\ top = Depth[tip_hash]
      /\ \A x \in Canon : canon_index[x] \in 0..top /\ blocks[canon_index[x]] = x
      /\ \A i \in 0..top : Depth[blocks[i]] = i
    BY TipFacts
<1>8. Depth[b] = top + 1
    BY <1>4, <1>7, ParentFacts
<1>9. b \notin seen_blocks
    <2>1. b \notin Canon
        BY <1>7, <1>8
    <2> QED BY <2>1 DEF Chained, SideBranches, Known, Unforked
<1>10. ParentKnown(b)
    BY <1>3, <1>4, <1>5, <1>7 DEF ParentKnown, Known
<1>11. ParentState(b) = Parent[b]
    BY <1>4 DEF ParentState, LedgerAtTip
<1>12. ClockBack \/ (WellFormed(b) /\ Valid(b))
    <2>1. Vetted(b)
        BY <1>1, <1>2 DEF GoodDisk, GoodImage
    <2> QED BY <1>4, <1>9, <1>11, <2>1 DEF Vetted, WellFormed, Valid
<1>13. CASE Reject(b)
    <2>1. ClockBack
        BY <1>3, <1>5, <1>10, <1>12, <1>13 DEF Reject
    <2>2. /\ work' = <<>> /\ result' = "Rejected" /\ faults' = faults
          /\ UNCHANGED <<memVars, dbVars, now>>
        BY <1>6, <1>13 DEF Reject, Answer
    <2>3. faults' \in Nat
        BY <1>1, <2>2 DEF Base
    <2> QED BY <2>1, <2>2, <2>3, ReplayRefused
<1>14. CASE RejectUnpersisted(b)
    <2>1. /\ faults' = faults + 1 /\ work' = <<>> /\ result' = "Rejected"
          /\ UNCHANGED <<memVars, dbVars, now>>
        BY <1>6, <1>14 DEF RejectUnpersisted, Answer
    <2>2. faults' \in Nat /\ faults' > 0
        BY <1>1, <2>1 DEF Base
    <2> QED BY <2>1, <2>2, ReplayRefused
<1>15. CASE ExtendCanonical(b)
    <2>1. /\ Chained' /\ tip_hash' = b /\ ledger' = b /\ UNCHANGED <<side_blocks, now>>
          /\ db_blocks' = db_blocks \cup {b} /\ db_tip' = [height |-> top + 1, hash |-> b]
          /\ db_height'[top + 1] = b
          /\ \A h \in Heights : h # top + 1 => db_height'[h] = db_height[h]
        BY <1>4, <1>15, ExtendChained
    <2>2. process_orphans(b) /\ result' = "CanonExtension"
        BY <1>15 DEF ExtendCanonical, Answer
    <2>3. orphan_pool[b] = <<>> /\ orphan_pool' = orphan_pool
        BY <1>4, <2>2 DEF process_orphans, Unforked
    <2>4. work' = <<>>
        <3>1. [i \in DOMAIN << >> |-> orphan_pool[b][i].blk] = << >>
            OBVIOUS
        <3>2. work' = << >> \o << >>
            BY <1>6, <2>2, <2>3, <3>1 DEF process_orphans
        <3> QED BY <3>2
    <2>5. LedgerAtTip' /\ Unforked'
        BY <2>1, <2>3 DEF LedgerAtTip, Unforked
    <2>6. top + 1 = next
        BY <1>5, <1>8
    <2>7. \A h \in Heights : db_height'[h] = IF h = next THEN b ELSE db_height[h]
        BY <2>1, <2>6
    <2> QED BY <2>1, <2>2, <2>4, <2>5, <2>6, <2>7, ReplayAccepted DEF b
<1>16. ASSUME NEW c \in Block,
              \/ Reject(c) \/ RejectUnpersisted(c) \/ StoreOrphan(c)
              \/ ExtendCanonical(c) \/ StoreSide(c) \/ Reorganise(c) \/ ApplyGenesis(c)
       PROVE  RestartInv'
    <2>1. c = b
        BY <1>6, <1>16 DEF Reject, RejectUnpersisted, StoreOrphan, ExtendCanonical, StoreSide,
                           Reorganise, OnSideBranch, ApplyGenesis, Applying
    <2>2. ~StoreOrphan(b)
        BY <1>10 DEF StoreOrphan
    <2>3. ~StoreSide(b) /\ ~Reorganise(b)
        BY <1>4 DEF StoreSide, Reorganise, OnSideBranch
    <2>4. ~ApplyGenesis(b)
        BY <1>4 DEF ApplyGenesis, FirstGenesis
    <2> QED BY <1>13, <1>14, <1>15, <1>16, <2>1, <2>2, <2>3, <2>4
<1> QED BY <1>16 DEF Apply, Step

LEMMA ApplyReplay ==
    ASSUME WellNumbered, RestartInv, phase = "replay", Apply
    PROVE  RestartInv'
<1>1. Replaying
    BY DEF RestartInv
<1>2. work # <<>>
    BY DEF Apply, Step, Reject, RejectUnpersisted, StoreOrphan, ExtendCanonical, StoreSide,
           Reorganise, OnSideBranch, ApplyGenesis, Applying
<1>3. work = <<Lineage[goal][next]>> /\ result = "pending" /\ Replayed(next - 1)
    BY <1>1, <1>2 DEF Replaying, Waiting
<1>4. CASE next - 1 = -1 /\ Emptied
    <2>1. next = 0
        BY <1>1, <1>4 DEF Replaying
    <2> QED BY <1>3, <1>4, <2>1, ReplayGenesis
<1>5. CASE /\ next - 1 \in 0..target /\ Chained /\ LedgerAtTip /\ Unforked
           /\ tip_hash = Lineage[goal][next - 1]
    BY <1>3, <1>5, ReplayTail
<1> QED BY <1>3, <1>4, <1>5 DEF Replayed

-----------------------------------------------------------------------------
\* The theorems.

LEMMA RestartStarts ==
    ASSUME RestartInit PROVE RestartInv
<1>1. /\ durable.blocks = {} /\ durable.height = [h \in Heights |-> NoBlock]
      /\ durable.tip = [height |-> NoHeight, hash |-> NoBlock]
      /\ durable.snap = [h \in Heights |-> NoSnapshot] /\ durable.genesis = NoBlock
    BY DEF RestartInit, EmptyImage
<1>2. /\ db_blocks = {} /\ db_height = [h \in Heights |-> NoBlock]
      /\ db_tip = [height |-> NoHeight, hash |-> NoBlock]
      /\ db_snap = [h \in Heights |-> NoSnapshot] /\ db_genesis = NoBlock
    BY DEF RestartInit, EmptyImage
<1>3. NoSnapshot \in Snapshot
    BY DEF NoSnapshot, Snapshot, Hash
<1>4. GoodDisk /\ GoodDurable
    BY <1>1, <1>2, <1>3 DEF GoodDisk, GoodDurable, GoodImage, EmptyImage, Hash
<1>5. Base /\ Waiting /\ Emptied /\ phase = "down"
    BY DEF RestartInit, Base, Waiting, Emptied
<1> QED BY <1>4, <1>5 DEF RestartInv, Phase

LEMMA RestartStep ==
    ASSUME WellNumbered, BootstrapCut \subseteq 0..2, RestartInv, [RestartNext]_nodeVars
    PROVE  RestartInv'
<1>1. CASE Startup
    BY <1>1, OpenEmptyStep, OpenStep, WriteGenesisStep, WriteGenesisFailsStep,
       VerifyGenesisStep, RestoreStep, RebuildStep, StartAtGenesisStep, ReplayBlockStep,
       ReplayResultStep DEF Startup
<1>2. CASE Apply
    <2>1. phase = "up" \/ phase = "replay"
        BY <1>2 DEF Apply
    <2> QED BY <1>2, <2>1, ApplyUp, ApplyReplay
<1>3. CASE Serve
    BY <1>3, ServeUp
<1>4. CASE Advance \/ Flush \/ UNCHANGED nodeVars
    BY <1>4, AdvanceFlush
<1>5. CASE Crash \/ Relaunch
    BY <1>5, LostProcess
<1> QED BY <1>1, <1>2, <1>3, <1>4, <1>5 DEF RestartNext

(***************************************************************************)
(* Whatever is written, cut, replayed and written again, memory and disk   *)
(* are what the phase of initialize_chain_state says, and every image a    *)
(* crash can leave is one the next start can read.                         *)
(***************************************************************************)
THEOREM RestartInvariant ==
    ASSUME WellNumbered, BootstrapCut \subseteq 0..2
    PROVE  RestartSpec => []RestartInv
<1>1. RestartInit => RestartInv
    BY RestartStarts
<1>2. RestartInv /\ [RestartNext]_nodeVars => RestartInv'
    BY RestartStep
<1> QED BY <1>1, <1>2, PTL DEF RestartSpec

(***************************************************************************)
(* Whenever services run, the chain in memory is sound, after any number   *)
(* of crashes, through a snapshot, a tail or a rebuild.                    *)
(***************************************************************************)
THEOREM ChainWhenUpHolds ==
    ASSUME WellNumbered, BootstrapCut \subseteq 0..2
    PROVE  RestartSpec => []ChainWhenUp
<1>1. RestartInv => ChainWhenUp
    BY DEF RestartInv, Running, Chained, ChainWhenUp
<1> QED BY <1>1, RestartInvariant, PTL

(***************************************************************************)
(* At every moment the image a crash would leave names a complete chain up *)
(* to its tip height.                                                      *)
(***************************************************************************)
THEOREM DurableChainHolds ==
    ASSUME WellNumbered, BootstrapCut \subseteq 0..2
    PROVE  RestartSpec => []DurableChain
<1>1. RestartInv => DurableChain
    <2> SUFFICES ASSUME RestartInv PROVE DurableChain
        OBVIOUS
    <2>1. GoodDurable
        BY DEF RestartInv
    <2>2. CASE durable.tip = EmptyImage.tip
        <3>1. durable.tip.height = -1
            BY <2>2 DEF EmptyImage, NoHeight
        <3> QED BY <3>1 DEF DurableChain
    <2>3. CASE PathTo(durable.tip, durable.height, durable.blocks)
        <3> DEFINE m == durable.tip.hash
        <3>1. /\ m \in Block /\ durable.tip.height = Depth[m]
              /\ \A h \in 0..Depth[m] : /\ durable.height[h] = Lineage[m][h]
                                        /\ durable.height[h] \in durable.blocks
            BY <2>3 DEF PathTo
        <3> HIDE DEF m
        <3>2. Depth[m] \in Nat
            BY <3>1, DepthFacts
        <3>3. ASSUME NEW h \in 0..Depth[m], h > 0
              PROVE  Parent[durable.height[h]] = durable.height[h - 1]
            <4>1. h \in 1..Depth[m] /\ h - 1 \in 0..Depth[m]
                BY <3>2, <3>3
            <4> QED BY <3>1, <4>1, LineageParent
        <3> QED BY <3>1, <3>3 DEF DurableChain
    <2> QED BY <2>1, <2>2, <2>3 DEF GoodDurable, GoodImage
<1> QED BY <1>1, RestartInvariant, PTL

(***************************************************************************)
(* While no write fails and the clock is not set back, no startup refuses  *)
(* a database that the node wrote itself.                                  *)
(***************************************************************************)
THEOREM StartsAgainHolds ==
    ASSUME WellNumbered, BootstrapCut \subseteq 0..2
    PROVE  RestartSpec => []StartsAgain
<1>1. RestartInv => StartsAgain
    BY DEF RestartInv, StartsAgain, Base
<1> QED BY <1>1, RestartInvariant, PTL

(***************************************************************************)
(* Startup ends at the tip the database named when it was opened, whether  *)
(* it restored a snapshot, replayed a tail or rebuilt the chain.           *)
(***************************************************************************)
THEOREM TipRestoredHolds ==
    ASSUME WellNumbered, BootstrapCut \subseteq 0..2
    PROVE  RestartSpec => TipRestored
<1>1. RestartInv /\ [RestartNext]_nodeVars
        => [phase # "up" /\ phase' = "up" /\ goal # NoBlock => tip_hash' = goal]_nodeVars
    <2> SUFFICES ASSUME RestartInv, RestartNext, phase # "up", phase' = "up", goal # NoBlock
                 PROVE  tip_hash' = goal
        OBVIOUS
    <2>1. CASE RestoreSnapshot \/ StartAtGenesis \/ ReplayResult
        BY <2>1, RestoreStep, StartAtGenesisStep, ReplayResultStep
    <2>2. CASE RebuildFromGenesis \/ ReplayBlock
        BY <2>2, RebuildStep, ReplayBlockStep
    <2>3. CASE OpenEmpty \/ Open \/ WriteGenesis \/ WriteGenesisFails \/ VerifyGenesis
        BY <2>3 DEF OpenEmpty, Open, WriteGenesis, WriteGenesisFails, VerifyGenesis
    <2>4. CASE Apply \/ Serve \/ Advance \/ Flush \/ Crash \/ Relaunch
        BY <2>4 DEF Apply, Serve, Advance, Flush, Crash, Relaunch, Lost, bootVars
    <2> QED BY <2>1, <2>2, <2>3, <2>4 DEF RestartNext, Startup
<1>2. RestartSpec => []RestartInv
    BY RestartInvariant
<1>3. TipRestored <=> [][phase # "up" /\ phase' = "up" /\ goal # NoBlock
                            => tip_hash' = goal]_nodeVars
    BY DEF TipRestored
<1> QED BY <1>1, <1>2, <1>3, PTL DEF RestartSpec

-----------------------------------------------------------------------------
\* Recorded work.

(***************************************************************************)
(* Once genesis is in the duplicate filter the recorded work is exact.  A  *)
(* first start leaves it out, and no later step puts it in: only a chain   *)
(* read back from disk or rebuilt from nothing enters it.                  *)
(***************************************************************************)
WorkInv == WorkTyped /\ (Genesis \in seen_blocks => WorkIsExact)

LEMMA FrameWork ==
    ASSUME WorkInv, UNCHANGED <<cumulative_work, seen_blocks, canon_index, side_blocks>>
    PROVE  WorkInv'
BY DEF WorkInv, WorkTyped, WorkIsExact, Known, Canon

LEMMA ClearedWork ==
    ASSUME ClearMemory PROVE WorkInv'
BY DEF ClearMemory, WorkInv, WorkTyped

\* apply_block on a chain that has its genesis.
LEMMA StepWork ==
    ASSUME WellNumbered, Chained, WorkInv, Step PROVE WorkInv'
<1>1. ASSUME NEW b \in Block, Reject(b) \/ RejectUnpersisted(b) \/ StoreOrphan(b)
      PROVE  WorkInv'
    BY <1>1, FrameWork DEF Reject, RejectUnpersisted, StoreOrphan, memVars
<1>2. ASSUME NEW b \in Block, ExtendCanonical(b) \/ StoreSide(b) PROVE WorkInv'
    <2>1. WellFormed(b) /\ ParentKnown(b)
        BY <1>2 DEF ExtendCanonical, StoreSide, OnSideBranch
    <2>2. b # Genesis /\ candidate_cw(b) \in Nat
        BY <2>1, AcceptedBlock, CandidateTyped DEF WorkInv
    <2>3. /\ cumulative_work' = [cumulative_work EXCEPT ![b] = candidate_cw(b)]
          /\ seen_blocks' = seen_blocks \cup {b}
        BY <1>2 DEF ExtendCanonical, push_canonical, StoreSide
    <2>4. WorkTyped'
        BY <2>2, <2>3 DEF WorkInv, WorkTyped
    <2>5. Genesis \in seen_blocks' => Genesis \in seen_blocks
        BY <2>2, <2>3
    <2> QED BY <1>2, <2>4, <2>5, LaneWork DEF WorkInv
<1>3. ASSUME NEW b \in Block, Reorganise(b) PROVE WorkInv'
    <2>1. b \notin Known
        BY <1>3, AcceptedBlock DEF Reorganise, OnSideBranch
    <2>2. PICK d \in 0..Depth[b] : /\ ForksAt(b, side_blocks \cup {b}, d)
                                   /\ seen_blocks' = seen_blocks \cup Adopted(b, d)
        BY <1>3, ReorgShape
    <2>3. Genesis \in Canon
        BY TipFacts
    <2>4. Genesis \notin Adopted(b, d)
        BY <2>1, <2>2, <2>3, MovedBlocks
    <2>5. WorkTyped'
        BY <1>3, ReorgTypedWork DEF WorkInv
    <2> QED BY <1>3, <2>2, <2>4, <2>5, ReorgWork DEF WorkInv
<1> QED BY <1>1, <1>2, <1>3 DEF Step

\* apply_block on nothing: the rebuild, at genesis.
LEMMA GenesisWork ==
    ASSUME Emptied, WorkInv, Apply PROVE WorkInv'
<1>1. Known = {}
    BY DEF Emptied, Known, Canon
<1>2. ASSUME NEW b \in Block, Reject(b) \/ RejectUnpersisted(b) \/ StoreOrphan(b)
      PROVE  WorkInv'
    BY <1>2, FrameWork DEF Reject, RejectUnpersisted, StoreOrphan, memVars
<1>3. ASSUME NEW b \in Block, ExtendCanonical(b) \/ StoreSide(b) \/ Reorganise(b) PROVE FALSE
    BY <1>1, <1>3 DEF ExtendCanonical, StoreSide, Reorganise, OnSideBranch, ParentKnown
<1>4. ASSUME NEW b \in Block, ApplyGenesis(b) PROVE WorkInv'
    <2>1. /\ b = Genesis /\ cumulative_work' = [cumulative_work EXCEPT ![b] = Work[b]]
          /\ canon_index' = [canon_index EXCEPT ![b] = Number[b]] /\ side_blocks' = side_blocks
        BY <1>4 DEF ApplyGenesis, FirstGenesis, push_canonical
    <2>2. Known' = {Genesis}
        BY <2>1, BlockAssumption DEF Emptied, Known, Canon, BlockAssumption, NoHeight
    <2>3. Work[Genesis] \in Nat /\ TotalWork[Genesis] = Work[Genesis] /\ Genesis \in Block
        BY GenesisFacts, DepthFacts, TotalWorkAssumption DEF TotalWorkAssumption
    <2> QED BY <2>1, <2>2, <2>3 DEF WorkInv, WorkTyped, WorkIsExact
<1> QED BY <1>2, <1>3, <1>4 DEF Apply, Step

LEMMA RestartWork ==
    ASSUME WellNumbered, RestartInv, WorkInv, [RestartNext]_nodeVars
    PROVE  WorkInv'
<1>1. CASE \/ OpenEmpty \/ WriteGenesisFails \/ VerifyGenesis \/ StartAtGenesis
           \/ ReplayBlock \/ ReplayResult \/ Serve \/ Advance \/ Flush \/ UNCHANGED nodeVars
    BY <1>1, FrameWork DEF OpenEmpty, WriteGenesisFails, VerifyGenesis, StartAtGenesis,
       ReplayBlock, ReplayResult, Serve, Submit, Return, Advance, Tick, Flush, nodeVars, vars,
       memVars
<1>2. CASE Open \/ RestoreSnapshot
    BY <1>2, OpenStep, RestoreStep DEF WorkInv
<1>3. CASE WriteGenesis
    <2>1. Opened /\ db_genesis = NoBlock
        BY <1>3 DEF RestartInv, WriteGenesis
    <2>2. seen_blocks = {}
        BY <2>1, BlockAssumption DEF Opened, Emptied, BlockAssumption
    <2> QED BY <1>3, <2>2 DEF WriteGenesis, WorkInv, WorkTyped
<1>4. CASE RebuildFromGenesis
    BY <1>4, ClearedWork, FrameWork DEF RebuildFromGenesis, memVars
<1>5. CASE Apply
    <2>1. CASE phase = "up"
        <3>1. Chained
            BY <2>1 DEF RestartInv, Running
        <3>2. Step
            BY <1>5, <3>1 DEF Apply, ApplyGenesis, FirstGenesis, Chained, Typed
        <3> QED BY <3>1, <3>2, StepWork
    <2>2. CASE phase = "replay"
        <3>1. work # <<>>
            BY <1>5 DEF Apply, Step, Reject, RejectUnpersisted, StoreOrphan, ExtendCanonical,
               StoreSide, Reorganise, OnSideBranch, ApplyGenesis, Applying
        <3>2. Emptied \/ Chained
            BY <2>2, <3>1 DEF RestartInv, Replaying, Replayed, Waiting
        <3>3. CASE Emptied
            BY <1>5, <3>3, GenesisWork
        <3>4. CASE Chained
            <4>1. Step
                BY <1>5, <3>4 DEF Apply, ApplyGenesis, FirstGenesis, Chained, Typed
            <4> QED BY <3>4, <4>1, StepWork
        <3> QED BY <3>2, <3>3, <3>4
    <2> QED BY <1>5, <2>1, <2>2 DEF Apply
<1>6. CASE Crash \/ Relaunch
    BY <1>6, ClearedWork DEF Crash, Relaunch, Lost
<1> QED BY <1>1, <1>2, <1>3, <1>4, <1>5, <1>6 DEF RestartNext, Startup

(***************************************************************************)
(* A chain read back from disk, restored from a snapshot, replayed or      *)
(* rebuilt carries the exact cumulative work, and keeps it while the node  *)
(* runs (load_canon_chain, restore_snapshot_at, apply_block).              *)
(***************************************************************************)
THEOREM RestoredWorkHolds ==
    ASSUME WellNumbered, BootstrapCut \subseteq 0..2
    PROVE  RestartSpec => []RestoredWork
<1>1. RestartInit => WorkInv
    BY DEF RestartInit, WorkInv, WorkTyped
<1>2. RestartInv /\ WorkInv /\ [RestartNext]_nodeVars => WorkInv'
    BY RestartWork
<1>3. WorkInv => RestoredWork
    BY DEF WorkInv, RestoredWork
<1> QED BY <1>1, <1>2, <1>3, RestartInvariant, PTL DEF RestartSpec
=============================================================================
