----------------------------- MODULE WireProofs -----------------------------
(***************************************************************************)
(* Theorems about Wire for every capacity of the queues, every number of   *)
(* blocks and of lost connections, and every handshake.                    *)
(***************************************************************************)
EXTENDS Wire, TLAPS, SequenceTheorems, FiniteSetTheorems,
        WellFoundedInduction

-----------------------------------------------------------------------------
\* The handshake.

(***************************************************************************)
(* A node that has left the handshake has accepted the other's.            *)
(***************************************************************************)
GreetInv ==
    /\ hello \in [Node -> Handshake]
    /\ \A n \in Node :
         Registered(n) => validate_handshake(hello[Other(n)], hello[n]) = "Accepted"

-----------------------------------------------------------------------------
\* Requests.

Kinds == {"Handshake", "Disconnect", "AnnounceBlock", "GetBlock", "Block", "GetHeight",
          "Height", "Ping", "Pong"}
Ref == Seq(Node) \cup {NoBlock}
Message == {m \in [kind : Kinds, blk : Ref] :
              m.kind \in {"AnnounceBlock", "GetBlock", "Block"} => m.blk \in Seq(Node)}
Announcement == {m \in Message : m.kind = "AnnounceBlock"}
Place == {"down", "hello", "drain", "poll", "sleep", "pong", "refresh", "serve"}

(***************************************************************************)
(* What the queues and the slots hold.                                     *)
(***************************************************************************)
TravelInv ==
    /\ tip \in [Node -> Seq(Node)] /\ orphans \in [Node -> SUBSET Seq(Node)]
    /\ \A n \in Node : IsFiniteSet(orphans[n])
    /\ inq \in [Node -> Seq(Seq(Node))] /\ outq \in [Node -> Seq(Announcement)]
    /\ wire \in [Node -> Seq(Message)] /\ requested \in [Node -> Ref]
    /\ at \in [Node -> Place]

(***************************************************************************)
(* A closed session holds nothing, and nothing is announced or requested   *)
(* until the listener serves, so that what its refresh drops is no request *)
(* and no answer.                                                          *)
(***************************************************************************)
QuietInv ==
    /\ at[Dialer] = "down" => \A n \in Node : at[n] = "down" /\ wire[n] = <<>>
    /\ at[Listener] \in {"down", "hello", "refresh"} =>
         /\ \A n \in Node : requested[n] = NoBlock
         /\ \A i \in DOMAIN wire[Dialer] : wire[Dialer][i].kind # "AnnounceBlock"

(***************************************************************************)
(* For every block: the requests for it on their way to the other node and *)
(* the answers on their way back are one when the slot is taken by it, and *)
(* none otherwise.                                                         *)
(***************************************************************************)
Balance ==
    \A n \in Node : \A b \in Ref :
      Count(wire[Other(n)], Msg("GetBlock", b)) + Count(wire[n], Msg("Block", b))
        = IF requested[n] = b /\ b # NoBlock THEN 1 ELSE 0

-----------------------------------------------------------------------------
\* Lemmas about the operators.

LEMMA Others ==
    ASSUME NEW n \in Node
    PROVE  Other(n) \in Node /\ Other(n) # n /\ Other(Other(n)) = n /\ Node = {n, Other(n)}
BY WireAssumption DEF Node, Other

LEMMA NoBlockIsNone == NoBlock \notin Seq(Node) /\ NoBlock \in Ref
<1>1. \A s \in Seq(Node) : Len(s) = 1 => s[1] \in Node
    OBVIOUS
<1>2. Len(NoBlock) = 1 /\ NoBlock[1] = "none"
    BY DEF NoBlock
<1> QED BY <1>1, <1>2, WireAssumption DEF Ref

LEMMA Messages ==
    /\ \A k, b : Msg(k, b).kind = k /\ Msg(k, b).blk = b /\ Plain(k) = Msg(k, NoBlock)
    /\ \A k, b, j, c : Msg(k, b) = Msg(j, c) <=> k = j /\ b = c
    /\ \A k \in Kinds, b \in Seq(Node) : Msg(k, b) \in Message
    /\ \A k \in Kinds \ {"AnnounceBlock", "GetBlock", "Block"}, b \in Ref : Msg(k, b) \in Message
    /\ \A m \in Message : m = Msg(m.kind, m.blk) /\ m.blk \in Ref /\ m.kind \in Kinds
<1>1. \A k, b : Msg(k, b).kind = k /\ Msg(k, b).blk = b /\ Plain(k) = Msg(k, NoBlock)
    BY DEF Msg, Plain
<1>2. \A k, b, j, c : Msg(k, b) = Msg(j, c) <=> k = j /\ b = c
    BY DEF Msg
<1>3. /\ \A k \in Kinds, b \in Seq(Node) : Msg(k, b) \in Message
      /\ \A k \in Kinds \ {"AnnounceBlock", "GetBlock", "Block"}, b \in Ref : Msg(k, b) \in Message
    BY DEF Msg, Message, Ref
<1>4. \A m \in Message : m = Msg(m.kind, m.blk) /\ m.blk \in Ref /\ m.kind \in Kinds
    BY DEF Msg, Message, Ref
<1> QED BY <1>1, <1>2, <1>3, <1>4

LEMMA Replies ==
    /\ \A b : Msg("Height", b).kind \notin {"GetBlock", "Block"}
    /\ \A b : Msg("Pong", b).kind \notin {"GetBlock", "Block"}
BY Messages

LEMMA Singles ==
    ASSUME NEW S
    PROVE  /\ <<>> \in Seq(S) /\ DOMAIN <<>> = {}
           /\ \A x \in S : <<x>> \in Seq(S) /\ DOMAIN <<x>> = {1} /\ <<x>>[1] = x
OBVIOUS

LEMMA Heads ==
    ASSUME NEW S, NEW q \in Seq(S), q # <<>>
    PROVE  /\ Head(q) \in S /\ Head(q) = q[1] /\ 1 \in DOMAIN q /\ Tail(q) \in Seq(S)
           /\ \A i \in DOMAIN Tail(q) : i + 1 \in DOMAIN q /\ Tail(q)[i] = q[i + 1]
BY HeadTailProperties

\* Counting in a queue.
LEMMA CountNat ==
    ASSUME NEW S, NEW q \in Seq(S), NEW m
    PROVE  /\ IsFiniteSet({i \in DOMAIN q : q[i] = m}) /\ Count(q, m) \in Nat
           /\ Count(q, m) = 0 <=> \A i \in DOMAIN q : q[i] # m
<1>1. IsFiniteSet(DOMAIN q)
    BY FS_Interval
<1>2. IsFiniteSet({i \in DOMAIN q : q[i] = m})
    BY <1>1, FS_Subset
<1> QED BY <1>2, FS_CardinalityType, FS_EmptySet DEF Count

LEMMA CountEmpty == \A m : Count(<<>>, m) = 0
<1> SUFFICES ASSUME NEW m PROVE Count(<<>>, m) = 0
    OBVIOUS
<1>1. {i \in DOMAIN <<>> : <<>>[i] = m} = {}
    OBVIOUS
<1> QED BY <1>1, FS_EmptySet DEF Count

LEMMA CountAppend ==
    ASSUME NEW S, NEW q \in Seq(S), NEW x \in S, NEW m
    PROVE  Count(Append(q, x), m) = Count(q, m) + IF x = m THEN 1 ELSE 0
<1> DEFINE A == {i \in DOMAIN q : q[i] = m}
           B == {i \in DOMAIN Append(q, x) : Append(q, x)[i] = m}
<1>0. IsFiniteSet(A)
    BY CountNat
<1>1. Cardinality(A) \in Nat /\ Len(q) + 1 \notin A
    BY <1>0, FS_CardinalityType
<1>2. B = IF x = m THEN A \cup {Len(q) + 1} ELSE A
    BY AppendProperties
<1>3. Cardinality(A \cup {Len(q) + 1}) = Cardinality(A) + 1
    BY <1>0, <1>1, FS_AddElement
<1>4. Count(q, m) = Cardinality(A) /\ Count(Append(q, x), m) = Cardinality(B)
    BY DEF Count
<1> HIDE DEF A, B
<1> QED BY <1>1, <1>2, <1>3, <1>4

LEMMA CountTail ==
    ASSUME NEW S, NEW q \in Seq(S), q # <<>>, NEW m
    PROVE  Count(Tail(q), m) = Count(q, m) - IF Head(q) = m THEN 1 ELSE 0
<1> DEFINE A == {i \in DOMAIN q : q[i] = m}
           B == {i \in DOMAIN Tail(q) : Tail(q)[i] = m}
           f == [i \in B |-> i + 1]
<1>1. /\ Tail(q) \in Seq(S) /\ Len(Tail(q)) = Len(q) - 1 /\ Len(q) \in Nat
      /\ DOMAIN q = 1..Len(q) /\ DOMAIN Tail(q) = 1..(Len(q) - 1)
      /\ \A i \in 1..(Len(q) - 1) : Tail(q)[i] = q[i + 1]
      /\ Head(q) = q[1] /\ 1 \in DOMAIN q
    BY HeadTailProperties
<1>2. IsFiniteSet(A) /\ IsFiniteSet(B)
    <2>1. Tail(q) \in Seq(S)
        BY <1>1
    <2>2. IsFiniteSet(A)
        BY CountNat
    <2>3. IsFiniteSet(B)
        BY <2>1, CountNat
    <2> QED BY <2>2, <2>3
<1>c. Cardinality(A) \in Nat
    BY <1>2, FS_CardinalityType
<1>3. f \in Bijection(B, A \ {1})
    <2>1. \A i \in B : i + 1 \in A \ {1} /\ i \in Nat
        BY <1>1
    <2>2. \A j \in A \ {1} : j - 1 \in B /\ j \in Nat
        BY <1>1
    <2>3. f \in [B -> A \ {1}]
        BY <2>1
    <2>4. f \in Injection(B, A \ {1})
        BY <2>1, <2>3 DEF Injection, IsInjective
    <2>5. \A j \in A \ {1} : \E i \in B : f[i] = j
        <3> SUFFICES ASSUME NEW j \in A \ {1} PROVE f[j - 1] = j /\ j - 1 \in B
            OBVIOUS
        <3> QED BY <2>2
    <2>6. f \in Surjection(B, A \ {1})
        BY <2>3, <2>5 DEF Surjection
    <2> QED BY <2>4, <2>6 DEF Bijection
<1>r. /\ IsFiniteSet(A \ {1})
      /\ Cardinality(A \ {1}) = IF 1 \in A THEN Cardinality(A) - 1 ELSE Cardinality(A)
    BY <1>2, FS_RemoveElement
<1>4. Cardinality(B) = Cardinality(A \ {1})
    <2> HIDE DEF A, B, f
    <2> QED BY <1>2, <1>3, <1>r, FS_Bijection DEF ExistsBijection
<1>5. Cardinality(A \ {1}) = Cardinality(A) - IF Head(q) = m THEN 1 ELSE 0
    <2>1. 1 \in A <=> Head(q) = m
        BY <1>1
    <2> HIDE DEF A
    <2> QED BY <2>1, <1>c, <1>r
<1>6. Count(q, m) = Cardinality(A) /\ Count(Tail(q), m) = Cardinality(B)
    BY DEF Count
<1> HIDE DEF A, B
<1> QED BY <1>4, <1>5, <1>6

\* What is appended and is not the message does not count.
LEMMA CountConcat ==
    ASSUME NEW S, NEW q \in Seq(S), NEW r \in Seq(S), NEW m, \A i \in DOMAIN r : r[i] # m
    PROVE  Count(q \o r, m) = Count(q, m)
<1>1. {i \in DOMAIN (q \o r) : (q \o r)[i] = m} = {i \in DOMAIN q : q[i] = m}
    <2>1. /\ Len(q \o r) = Len(q) + Len(r) /\ Len(q) \in Nat /\ Len(r) \in Nat
          /\ DOMAIN (q \o r) = 1..(Len(q) + Len(r))
          /\ DOMAIN q = 1..Len(q) /\ DOMAIN r = 1..Len(r)
          /\ \A i \in 1..(Len(q) + Len(r)) :
               (q \o r)[i] = IF i <= Len(q) THEN q[i] ELSE r[i - Len(q)]
        BY ConcatProperties
    <2>2. \A i \in 1..(Len(q) + Len(r)) : ~(i <= Len(q)) => i - Len(q) \in DOMAIN r
        BY <2>1
    <2>3. \A i \in DOMAIN q : i \in DOMAIN (q \o r) /\ (q \o r)[i] = q[i]
        BY <2>1
    <2>4. \A i \in DOMAIN (q \o r) : (q \o r)[i] = m => i \in DOMAIN q
        BY <2>1, <2>2
    <2> QED BY <2>3, <2>4
<1> QED BY <1>1 DEF Count

\* A step that neither takes nor gives back a slot, and moves no request and no
\* block.
LEMMA BalanceKept ==
    ASSUME Balance, requested' = requested,
           \A n \in Node : \A k \in {"GetBlock", "Block"}, b \in Ref :
             Count(wire'[n], Msg(k, b)) = Count(wire[n], Msg(k, b))
    PROVE  Balance'
<1> SUFFICES ASSUME NEW n \in Node, NEW b \in Ref
             PROVE  Count(wire'[Other(n)], Msg("GetBlock", b)) + Count(wire'[n], Msg("Block", b))
                      = IF requested'[n] = b /\ b # NoBlock THEN 1 ELSE 0
    BY DEF Balance
<1>1. Count(wire'[Other(n)], Msg("GetBlock", b)) = Count(wire[Other(n)], Msg("GetBlock", b))
    BY Others
<1>2. Count(wire'[n], Msg("Block", b)) = Count(wire[n], Msg("Block", b))
    OBVIOUS
<1> QED BY <1>1, <1>2 DEF Balance

\* A step that reads one message of node n: what it takes off the wire and, when the
\* answer is one message, what it puts on it.
Moved(n, r, m) ==
    /\ wire'[n] = Tail(wire[n]) /\ wire'[Other(n)] = wire[Other(n)] \o r
    /\ Head(wire[n]) \in Message /\ Tail(wire[n]) \in Seq(Message)
    /\ Count(wire[n], m) \in Nat /\ Count(wire[Other(n)], m) \in Nat
    /\ Count(wire'[n], m) = Count(wire[n], m) - IF Head(wire[n]) = m THEN 1 ELSE 0
    /\ r = <<>> => Count(wire'[Other(n)], m) = Count(wire[Other(n)], m)

LEMMA WireMoved ==
    ASSUME wire \in [Node -> Seq(Message)], NEW n \in Node, wire[n] # <<>>, NEW r,
           wire' = [wire EXCEPT ![n] = Tail(@), ![Other(n)] = @ \o r]
    PROVE  \A m : Moved(n, r, m)
<1> SUFFICES ASSUME NEW m PROVE Moved(n, r, m)
    OBVIOUS
<1>1. wire[n] \in Seq(Message) /\ wire[Other(n)] \in Seq(Message) /\ Other(n) # n
    BY Others
<1>2. wire'[n] = Tail(wire[n]) /\ wire'[Other(n)] = wire[Other(n)] \o r
    BY <1>1, Others
<1>3. /\ Head(wire[n]) \in Message /\ Tail(wire[n]) \in Seq(Message)
      /\ Count(wire[n], m) \in Nat /\ Count(wire[Other(n)], m) \in Nat
    BY <1>1, CountNat, HeadTailProperties
<1>4. Count(wire'[n], m) = Count(wire[n], m) - IF Head(wire[n]) = m THEN 1 ELSE 0
    BY <1>1, <1>2, CountTail
<1>5. r = <<>> => Count(wire'[Other(n)], m) = Count(wire[Other(n)], m)
    BY <1>1, <1>2, ConcatEmptySeq
<1> QED BY <1>2, <1>3, <1>4, <1>5 DEF Moved

\* Reading a message that is neither a request nor a block, answered by nothing or by
\* one that is neither.
LEMMA BalanceTalk ==
    ASSUME Balance, wire \in [Node -> Seq(Message)], NEW n \in Node, wire[n] # <<>>, NEW r,
           wire' = [wire EXCEPT ![n] = Tail(@), ![Other(n)] = @ \o r],
           requested' = requested,
           Head(wire[n]).kind \notin {"GetBlock", "Block"},
           r = <<>> \/ \E x \in Message : r = <<x>> /\ x.kind \notin {"GetBlock", "Block"}
    PROVE  Balance'
<1> SUFFICES ASSUME NEW u \in Node, NEW k \in {"GetBlock", "Block"}, NEW b \in Ref
             PROVE  Count(wire'[u], Msg(k, b)) = Count(wire[u], Msg(k, b))
    BY BalanceKept, Zenon
<1>1. Head(wire[n]) # Msg(k, b) /\ \A x : x.kind \notin {"GetBlock", "Block"} => x # Msg(k, b)
    BY Messages
<1>m. Moved(n, r, Msg(k, b))
    BY WireMoved
<1>2. CASE u = n
    BY <1>1, <1>2, <1>m DEF Moved
<1>3. CASE u = Other(n)
    <2>1. wire[u] \in Seq(Message) /\ wire'[u] = wire[u] \o r
        BY <1>3, <1>m, Others DEF Moved
    <2>2. CASE r = <<>>
        BY <2>1, <2>2, ConcatEmptySeq
    <2>3. ASSUME NEW x \in Message, r = <<x>>, x.kind \notin {"GetBlock", "Block"}
          PROVE  Count(wire'[u], Msg(k, b)) = Count(wire[u], Msg(k, b))
        <3>1. wire'[u] = Append(wire[u], x)
            BY <2>1, <2>3, AppendIsConcat
        <3>3. Count(Append(wire[u], x), Msg(k, b)) = Count(wire[u], Msg(k, b)) + 0
            BY <1>1, <2>1, <2>3, CountAppend
        <3>2. Count(wire[u], Msg(k, b)) \in Nat
            BY <2>1, CountNat
        <3>4. Count(Append(wire[u], x), Msg(k, b)) = Count(wire[u], Msg(k, b))
            BY <3>2, <3>3
        <3> QED BY <3>1, <3>4
    <2> QED BY <2>2, <2>3
<1> QED BY <1>2, <1>3, Others

\* A taken slot: the slot was free, so nothing else was on its way.
LEMMA BalanceAsk ==
    ASSUME Balance, wire \in [Node -> Seq(Message)], requested \in [Node -> Ref],
           NEW n \in Node, wire[n] # <<>>, NEW c \in Seq(Node), c # NoBlock,
           requested[n] = NoBlock, Head(wire[n]).kind \notin {"GetBlock", "Block"},
           wire' = [wire EXCEPT ![n] = Tail(@), ![Other(n)] = @ \o <<Msg("GetBlock", c)>>],
           requested' = [requested EXCEPT ![n] = c]
    PROVE  Balance'
<1> SUFFICES ASSUME NEW u \in Node, NEW b \in Ref
             PROVE  Count(wire'[Other(u)], Msg("GetBlock", b)) + Count(wire'[u], Msg("Block", b))
                      = IF requested'[u] = b /\ b # NoBlock THEN 1 ELSE 0
    BY Zenon DEF Balance
<1>1. /\ Head(wire[n]) # Msg("GetBlock", b) /\ Head(wire[n]) # Msg("Block", b)
      /\ Msg("GetBlock", c) \in Message /\ Msg("GetBlock", c) # Msg("Block", b)
      /\ Msg("GetBlock", c) = Msg("GetBlock", b) <=> c = b
    BY Messages DEF Kinds, Ref
<1>m. Moved(n, <<Msg("GetBlock", c)>>, Msg("GetBlock", b)) /\ Moved(n, <<Msg("GetBlock", c)>>, Msg("Block", b))
    BY WireMoved
<1>a. /\ Count(wire'[Other(n)], Msg("Block", b)) = Count(wire[Other(n)], Msg("Block", b))
      /\ Count(wire'[Other(n)], Msg("GetBlock", b))
           = Count(wire[Other(n)], Msg("GetBlock", b)) + IF c = b THEN 1 ELSE 0
    <2> DEFINE x == Msg("GetBlock", c)
    <2>1. x \in Message /\ x # Msg("Block", b) /\ (x = Msg("GetBlock", b) <=> c = b)
        BY <1>1
    <2>2. Moved(n, <<x>>, Msg("GetBlock", b)) /\ Moved(n, <<x>>, Msg("Block", b))
        BY <1>m
    <2> HIDE DEF x
    <2>3. wire[Other(n)] \in Seq(Message) /\ wire'[Other(n)] = wire[Other(n)] \o <<x>>
        BY <2>2, Others DEF Moved
    <2>a. wire'[Other(n)] = Append(wire[Other(n)], x)
        <3>0. PICK q \in Seq(Message), y \in Message : q = wire[Other(n)] /\ y = x
            BY <2>1, <2>3, Zenon
        <3>1. Append(q, y) = q \o <<y>>
            OBVIOUS
        <3> QED BY <2>3, <3>0, <3>1, Zenon
    <2>4. /\ Count(wire[Other(n)], Msg("Block", b)) \in Nat
          /\ Count(wire[Other(n)], Msg("GetBlock", b)) \in Nat
        BY <2>3, CountNat
    <2>5. Count(wire'[Other(n)], Msg("Block", b))
            = Count(wire[Other(n)], Msg("Block", b)) + IF x = Msg("Block", b) THEN 1 ELSE 0
        <3>1. Count(Append(wire[Other(n)], x), Msg("Block", b))
                = Count(wire[Other(n)], Msg("Block", b)) + IF x = Msg("Block", b) THEN 1 ELSE 0
            BY <2>1, <2>3, CountAppend
        <3> QED BY <2>a, <3>1
    <2>6. Count(wire'[Other(n)], Msg("GetBlock", b))
            = Count(wire[Other(n)], Msg("GetBlock", b)) + IF x = Msg("GetBlock", b) THEN 1 ELSE 0
        <3>1. Count(Append(wire[Other(n)], x), Msg("GetBlock", b))
                = Count(wire[Other(n)], Msg("GetBlock", b)) + IF x = Msg("GetBlock", b) THEN 1 ELSE 0
            BY <2>1, <2>3, CountAppend
        <3> QED BY <2>a, <3>1
    <2>7. Count(wire'[Other(n)], Msg("Block", b)) = Count(wire[Other(n)], Msg("Block", b))
        <3>1. (IF x = Msg("Block", b) THEN 1 ELSE 0) = 0
            BY <2>1
        <3>2. Count(wire'[Other(n)], Msg("Block", b))
                = Count(wire[Other(n)], Msg("Block", b)) + 0
            BY <2>5, <3>1, Zenon
        <3>3. \A x1 \in Nat : x1 + 0 = x1
            OBVIOUS
        <3> QED BY <2>4, <3>2, <3>3, Zenon
    <2>8. Count(wire'[Other(n)], Msg("GetBlock", b))
            = Count(wire[Other(n)], Msg("GetBlock", b)) + IF c = b THEN 1 ELSE 0
        <3>1. (IF x = Msg("GetBlock", b) THEN 1 ELSE 0) = IF c = b THEN 1 ELSE 0
            BY <2>1
        <3> QED BY <2>6, <3>1, Zenon
    <2> QED BY <2>7, <2>8
<1>2. /\ Count(wire'[n], Msg("GetBlock", b)) = Count(wire[n], Msg("GetBlock", b))
      /\ Count(wire'[n], Msg("Block", b)) = Count(wire[n], Msg("Block", b))
      /\ Count(wire'[Other(n)], Msg("Block", b)) = Count(wire[Other(n)], Msg("Block", b))
      /\ Count(wire'[Other(n)], Msg("GetBlock", b))
           = Count(wire[Other(n)], Msg("GetBlock", b)) + IF c = b THEN 1 ELSE 0
      /\ Count(wire[n], Msg("GetBlock", b)) \in Nat /\ Count(wire[n], Msg("Block", b)) \in Nat
      /\ Count(wire[Other(n)], Msg("GetBlock", b)) \in Nat
      /\ Count(wire[Other(n)], Msg("Block", b)) \in Nat
    BY <1>1, <1>a, <1>m DEF Moved
<1>3. \A v \in Node : Count(wire[Other(v)], Msg("GetBlock", b)) + Count(wire[v], Msg("Block", b))
                        = IF requested[v] = b /\ b # NoBlock THEN 1 ELSE 0
    BY DEF Balance
<1>4. CASE u = n
    <2>1. requested'[n] = c
        OBVIOUS
    <2>2. Count(wire[Other(n)], Msg("GetBlock", b)) + Count(wire[n], Msg("Block", b)) = 0
        BY <1>3
    <2> QED BY <1>2, <1>4, <2>1, <2>2
<1>5. CASE u = Other(n)
    <2>1. requested'[u] = requested[u] /\ Other(u) = n
        BY <1>5, Others
    <2>2. Count(wire[n], Msg("GetBlock", b)) + Count(wire[u], Msg("Block", b))
            = IF requested[u] = b /\ b # NoBlock THEN 1 ELSE 0
        BY <1>3, <2>1
    <2> QED BY <1>2, <1>5, <2>1, <2>2
<1> QED BY <1>4, <1>5, Others

\* A request served: it leaves one wire and its answer enters the other.
LEMMA BalanceServe ==
    ASSUME Balance, wire \in [Node -> Seq(Message)],
           NEW n \in Node, wire[n] # <<>>, NEW c \in Seq(Node),
           Head(wire[n]) = Msg("GetBlock", c),
           wire' = [wire EXCEPT ![n] = Tail(@), ![Other(n)] = @ \o <<Msg("Block", c)>>],
           requested' = requested
    PROVE  Balance'
<1> SUFFICES ASSUME NEW u \in Node, NEW b \in Ref
             PROVE  Count(wire'[Other(u)], Msg("GetBlock", b)) + Count(wire'[u], Msg("Block", b))
                      = IF requested'[u] = b /\ b # NoBlock THEN 1 ELSE 0
    BY Zenon DEF Balance
<1>1. /\ Head(wire[n]) = Msg("GetBlock", b) <=> c = b
      /\ Head(wire[n]) # Msg("Block", b)
      /\ Msg("Block", c) \in Message /\ Msg("Block", c) # Msg("GetBlock", b)
      /\ Msg("Block", c) = Msg("Block", b) <=> c = b
    BY Messages DEF Kinds
<1>m. Moved(n, <<Msg("Block", c)>>, Msg("GetBlock", b)) /\ Moved(n, <<Msg("Block", c)>>, Msg("Block", b))
    BY WireMoved
<1>a. /\ Count(wire'[Other(n)], Msg("GetBlock", b)) = Count(wire[Other(n)], Msg("GetBlock", b))
      /\ Count(wire'[Other(n)], Msg("Block", b))
           = Count(wire[Other(n)], Msg("Block", b)) + IF c = b THEN 1 ELSE 0
    <2> DEFINE x == Msg("Block", c)
    <2>1. x \in Message /\ x # Msg("GetBlock", b) /\ (x = Msg("Block", b) <=> c = b)
        BY <1>1
    <2>2. Moved(n, <<x>>, Msg("GetBlock", b)) /\ Moved(n, <<x>>, Msg("Block", b))
        BY <1>m
    <2> HIDE DEF x
    <2>3. wire[Other(n)] \in Seq(Message) /\ wire'[Other(n)] = wire[Other(n)] \o <<x>>
        BY <2>2, Others DEF Moved
    <2>a. wire'[Other(n)] = Append(wire[Other(n)], x)
        <3>1. Append(wire[Other(n)], x) = wire[Other(n)] \o <<x>>
            BY <2>1, <2>3, AppendIsConcat, Zenon
        <3> QED BY <2>3, <3>1, Zenon
    <2>4. /\ Count(wire[Other(n)], Msg("Block", b)) \in Nat
          /\ Count(wire[Other(n)], Msg("GetBlock", b)) \in Nat
        BY <2>3, CountNat
    <2>5. Count(wire'[Other(n)], Msg("Block", b))
            = Count(wire[Other(n)], Msg("Block", b)) + IF x = Msg("Block", b) THEN 1 ELSE 0
        <3>1. Count(Append(wire[Other(n)], x), Msg("Block", b))
                = Count(wire[Other(n)], Msg("Block", b)) + IF x = Msg("Block", b) THEN 1 ELSE 0
            BY <2>1, <2>3, CountAppend
        <3> QED BY <2>a, <3>1
    <2>6. Count(wire'[Other(n)], Msg("GetBlock", b))
            = Count(wire[Other(n)], Msg("GetBlock", b)) + IF x = Msg("GetBlock", b) THEN 1 ELSE 0
        <3>1. Count(Append(wire[Other(n)], x), Msg("GetBlock", b))
                = Count(wire[Other(n)], Msg("GetBlock", b)) + IF x = Msg("GetBlock", b) THEN 1 ELSE 0
            BY <2>1, <2>3, CountAppend
        <3> QED BY <2>a, <3>1
    <2>7. Count(wire'[Other(n)], Msg("GetBlock", b)) = Count(wire[Other(n)], Msg("GetBlock", b))
        <3>1. (IF x = Msg("GetBlock", b) THEN 1 ELSE 0) = 0
            BY <2>1
        <3>2. Count(wire'[Other(n)], Msg("GetBlock", b))
                = Count(wire[Other(n)], Msg("GetBlock", b)) + 0
            BY <2>6, <3>1, Zenon
        <3>3. \A x1 \in Nat : x1 + 0 = x1
            OBVIOUS
        <3> QED BY <2>4, <3>2, <3>3, Zenon
    <2>8. Count(wire'[Other(n)], Msg("Block", b))
            = Count(wire[Other(n)], Msg("Block", b)) + IF c = b THEN 1 ELSE 0
        <3>1. (IF x = Msg("Block", b) THEN 1 ELSE 0) = IF c = b THEN 1 ELSE 0
            BY <2>1
        <3> QED BY <2>5, <3>1, Zenon
    <2> QED BY <2>7, <2>8
<1>2. /\ Count(wire'[n], Msg("GetBlock", b))
           = Count(wire[n], Msg("GetBlock", b)) - IF c = b THEN 1 ELSE 0
      /\ Count(wire'[n], Msg("Block", b)) = Count(wire[n], Msg("Block", b))
      /\ Count(wire'[Other(n)], Msg("Block", b))
           = Count(wire[Other(n)], Msg("Block", b)) + IF c = b THEN 1 ELSE 0
      /\ Count(wire'[Other(n)], Msg("GetBlock", b)) = Count(wire[Other(n)], Msg("GetBlock", b))
      /\ Count(wire[n], Msg("GetBlock", b)) \in Nat /\ Count(wire[n], Msg("Block", b)) \in Nat
      /\ Count(wire[Other(n)], Msg("GetBlock", b)) \in Nat
      /\ Count(wire[Other(n)], Msg("Block", b)) \in Nat
    BY <1>1, <1>a, <1>m DEF Moved
<1>3. \A v \in Node : Count(wire[Other(v)], Msg("GetBlock", b)) + Count(wire[v], Msg("Block", b))
                        = IF requested[v] = b /\ b # NoBlock THEN 1 ELSE 0
    BY DEF Balance
<1>4. CASE u = n
    <2>2. Count(wire[Other(n)], Msg("GetBlock", b)) + Count(wire[n], Msg("Block", b))
            = IF requested[n] = b /\ b # NoBlock THEN 1 ELSE 0
        BY <1>3
    <2> QED BY <1>2, <1>4, <2>2
<1>5. CASE u = Other(n)
    <2>1. Other(u) = n
        BY <1>5, Others
    <2>2. Count(wire[n], Msg("GetBlock", b)) + Count(wire[u], Msg("Block", b))
            = IF requested[u] = b /\ b # NoBlock THEN 1 ELSE 0
        BY <1>3, <2>1
    <2>3. /\ Count(wire'[Other(u)], Msg("GetBlock", b))
               = Count(wire[n], Msg("GetBlock", b)) - IF c = b THEN 1 ELSE 0
          /\ Count(wire'[u], Msg("Block", b))
               = Count(wire[u], Msg("Block", b)) + IF c = b THEN 1 ELSE 0
        BY <1>2, <1>5, <2>1
    <2>4. /\ Count(wire[n], Msg("GetBlock", b)) \in Nat /\ Count(wire[u], Msg("Block", b)) \in Nat
        BY <1>2, <1>5
    <2>5. Count(wire'[Other(u)], Msg("GetBlock", b)) + Count(wire'[u], Msg("Block", b))
            = Count(wire[n], Msg("GetBlock", b)) + Count(wire[u], Msg("Block", b))
        <3> DEFINE d == IF c = b THEN 1 ELSE 0
                   p == Count(wire[n], Msg("GetBlock", b))
                   q == Count(wire[u], Msg("Block", b))
                   p2 == Count(wire'[Other(u)], Msg("GetBlock", b))
                   q2 == Count(wire'[u], Msg("Block", b))
        <3>1. p \in Nat /\ q \in Nat /\ d \in {0, 1} /\ p2 = p - d /\ q2 = q + d
            BY <2>3, <2>4, Zenon
        <3>2. p2 + q2 = p + q
            <4> HIDE DEF d, p, q, p2, q2
            <4> QED BY <3>1
        <3> QED BY <3>2
    <2> QED BY <2>2, <2>5
<1> QED BY <1>4, <1>5, Others

\* The answer received: it was the only one, and the slot is free.
LEMMA BalanceReceive ==
    ASSUME Balance, wire \in [Node -> Seq(Message)], requested \in [Node -> Ref],
           NEW n \in Node, wire[n] # <<>>, requested[n] # NoBlock,
           Head(wire[n]) = Msg("Block", requested[n]),
           wire' = [wire EXCEPT ![n] = Tail(@), ![Other(n)] = @ \o <<>>],
           requested' = [requested EXCEPT ![n] = NoBlock]
    PROVE  Balance'
<1> SUFFICES ASSUME NEW u \in Node, NEW b \in Ref
             PROVE  Count(wire'[Other(u)], Msg("GetBlock", b)) + Count(wire'[u], Msg("Block", b))
                      = IF requested'[u] = b /\ b # NoBlock THEN 1 ELSE 0
    BY Zenon DEF Balance
<1>1. /\ Head(wire[n]) = Msg("Block", b) <=> requested[n] = b
      /\ Head(wire[n]) # Msg("GetBlock", b)
    BY Messages
<1>m. Moved(n, <<>>, Msg("GetBlock", b)) /\ Moved(n, <<>>, Msg("Block", b))
    BY WireMoved
<1>2. /\ Count(wire'[n], Msg("GetBlock", b)) = Count(wire[n], Msg("GetBlock", b))
      /\ Count(wire'[n], Msg("Block", b))
           = Count(wire[n], Msg("Block", b)) - IF requested[n] = b THEN 1 ELSE 0
      /\ Count(wire'[Other(n)], Msg("Block", b)) = Count(wire[Other(n)], Msg("Block", b))
      /\ Count(wire'[Other(n)], Msg("GetBlock", b)) = Count(wire[Other(n)], Msg("GetBlock", b))
      /\ Count(wire[n], Msg("GetBlock", b)) \in Nat /\ Count(wire[n], Msg("Block", b)) \in Nat
      /\ Count(wire[Other(n)], Msg("GetBlock", b)) \in Nat
      /\ Count(wire[Other(n)], Msg("Block", b)) \in Nat
    BY <1>1, <1>m DEF Moved
<1>3. \A v \in Node : Count(wire[Other(v)], Msg("GetBlock", b)) + Count(wire[v], Msg("Block", b))
                        = IF requested[v] = b /\ b # NoBlock THEN 1 ELSE 0
    BY DEF Balance
<1>4. CASE u = n
    <2>1. requested'[n] = NoBlock
        BY DEF Ref
    <2> QED BY <1>2, <1>3, <1>4, <2>1
<1>5. CASE u = Other(n)
    <2>1. requested'[u] = requested[u] /\ Other(u) = n
        BY <1>5, Others
    <2>2. Count(wire[n], Msg("GetBlock", b)) + Count(wire[u], Msg("Block", b))
            = IF requested[u] = b /\ b # NoBlock THEN 1 ELSE 0
        BY <1>3, <2>1
    <2> QED BY <1>2, <1>5, <2>1, <2>2
<1> QED BY <1>4, <1>5, Others

-----------------------------------------------------------------------------
\* The handshake.

\* Once accepted, the two handshakes agree.
LEMMA GreetKept ==
    ASSUME GreetInv, TravelInv, [Next]_vars PROVE GreetInv'
<1>1. hello' = hello
    BY DEF Next, DialerStep, ListenerStep, Connect, DialerHello, Drain, DialerPoll, DialerHeight,
           Ping, DialerPong, ListenerHello, ListenerRefresh, ListenerServe, ListenerSend, Watchdog,
           Import, Mine, Cool, Expire, LinkDown, Read, vars
<1> DEFINE Stays == \A n \in Node : Registered(n)' => Registered(n)
<1>s. Stays => GreetInv'
    BY <1>1 DEF GreetInv
<1>c. ASSUME NEW reason, Close(reason) PROVE Stays
    BY <1>c DEF Close, Registered
<1>r. ASSUME NEW n \in Node, NEW place, NEW budget, Registered(n), Read(n, place, budget)
      PROVE  Stays
    <2>1. CASE \E reason : Close(reason)
        BY <2>1, <1>c
    <2>2. CASE at' = [at EXCEPT ![n] = place]
        BY <2>2, <1>r DEF Registered, TravelInv
    <2> QED BY <2>1, <2>2, <1>r DEF Read
<1> HIDE DEF Stays
<1>2. CASE Connect
    BY <1>2, <1>s DEF Connect, Registered, Stays
<1>3. CASE DialerHello
    <2>1. CASE \E reason : Close(reason)
        BY <2>1, <1>c, <1>s
    <2>2. CASE /\ validate_handshake(hello[Listener], hello[Dialer]) = "Accepted"
               /\ at' = [at EXCEPT ![Dialer] = "drain"]
        <3>1. \A n \in Node : n # Dialer => Registered(n)' = Registered(n)
            BY <2>2 DEF Registered, TravelInv
        <3>2. validate_handshake(hello[Other(Dialer)], hello[Dialer]) = "Accepted"
            BY <2>2 DEF Other
        <3> QED BY <1>1, <3>1, <3>2 DEF GreetInv
    <2> QED BY <2>1, <2>2, <1>3 DEF DialerHello
<1>4. CASE ListenerHello
    <2>1. CASE \E reason : Close(reason)
        BY <2>1, <1>c, <1>s
    <2>2. CASE /\ validate_handshake(hello[Dialer], hello[Listener]) = "Accepted"
               /\ \E place : at' = [at EXCEPT ![Listener] = place]
        <3>1. \A n \in Node : n # Listener => Registered(n)' = Registered(n)
            BY <2>2 DEF Registered, TravelInv
        <3>2. validate_handshake(hello[Other(Listener)], hello[Listener]) = "Accepted"
            BY <2>2, WireAssumption DEF Other
        <3> QED BY <1>1, <3>1, <3>2 DEF GreetInv
    <2> QED BY <2>1, <2>2, <1>4 DEF ListenerHello
<1>5. CASE Drain \/ Ping \/ DialerHeight
    BY <1>5, <1>s DEF Drain, Ping, DialerHeight, Registered, Stays, TravelInv
<1>6. CASE DialerPoll \/ DialerPong
    BY <1>6, <1>s, <1>r DEF DialerPoll, DialerPong, Registered, Node
<1>7. CASE ListenerRefresh
    <2>1. CASE at' = [at EXCEPT ![Listener] = "serve"]
        BY <1>7, <2>1, <1>s DEF ListenerRefresh, Registered, Stays, TravelInv
    <2>2. CASE \E place, budget : Read(Listener, place, budget)
        BY <1>7, <2>2, <1>s, <1>r DEF ListenerRefresh, Registered, Node
    <2> QED BY <2>1, <2>2, <1>7 DEF ListenerRefresh
<1>8. CASE ListenerServe
    BY <1>8, <1>s, <1>r DEF ListenerServe, Registered, Node
<1>9. CASE LinkDown
    BY <1>9, <1>s, <1>c DEF LinkDown
<1>10. ASSUME at' = at PROVE GreetInv'
    BY <1>10, <1>s DEF Registered, Stays
<1>11. CASE ListenerSend \/ Watchdog \/ Expire \/ UNCHANGED vars
    BY <1>11, <1>10 DEF ListenerSend, Watchdog, Expire, vars, sessionVars
<1>12. ASSUME NEW n \in Node, Import(n) \/ Mine(n) \/ Cool(n) PROVE GreetInv'
    BY <1>12, <1>10 DEF Import, Mine, Cool, sessionVars
<1> QED BY <1>2, <1>3, <1>4, <1>5, <1>6, <1>7, <1>8, <1>9, <1>11, <1>12
        DEF Next, DialerStep, ListenerStep

-----------------------------------------------------------------------------
\* Requests.

\* The inductive invariant of a connection.
WireInv == TravelInv /\ QuietInv /\ Balance

\* A closed connection holds nothing.
LEMMA CloseStep ==
    ASSUME TravelInv, NEW reason, Close(reason), UNCHANGED <<chainVars, inq>>
    PROVE  WireInv'
<1>1. TravelInv'
    BY DEF TravelInv, Close, chainVars, Place, Ref
<1>2. QuietInv'
    BY WireAssumption DEF QuietInv, Close, Node
<1>3. \A n \in Node : wire'[n] = <<>> /\ requested'[n] = NoBlock /\ wire'[Other(n)] = <<>>
    BY Others DEF Close
<1>4. Balance'
    BY <1>3, CountEmpty DEF Balance
<1> QED BY <1>1, <1>2, <1>4 DEF WireInv

\* What a session answers, and what becomes of its slot.
LEMMA Answers ==
    ASSUME TravelInv, NEW n \in Node, NEW m \in Message, Fatal(n, m) = "none"
    PROVE  /\ Slot(n, m) \in Ref
           /\ Queued(n, m) \in Seq(Seq(Node))
           /\ \/ /\ m.kind = "AnnounceBlock" /\ requested[n] = NoBlock /\ m.blk \in Seq(Node)
                 /\ Slot(n, m) = m.blk /\ Reply(n, m) = <<Msg("GetBlock", m.blk)>>
              \/ /\ m.kind = "GetBlock" /\ m.blk \in Seq(Node) /\ Slot(n, m) = requested[n]
                 /\ Reply(n, m) = <<Msg("Block", m.blk)>>
              \/ /\ m.kind = "Block" /\ requested[n] # NoBlock /\ m.blk = requested[n]
                 /\ Slot(n, m) = NoBlock /\ Reply(n, m) = <<>>
              \/ /\ m.kind \notin {"GetBlock", "Block"} /\ Slot(n, m) = requested[n]
                 /\ \/ Reply(n, m) = <<>>
                    \/ Reply(n, m) = <<Msg("Height", tip[n])>>
                    \/ Reply(n, m) = <<Msg("Pong", NoBlock)>>
<1>0. requested[n] \in Ref /\ tip[n] \in Seq(Node) /\ m.blk \in Ref /\ m.kind \in Kinds
      /\ (m.kind \in {"AnnounceBlock", "GetBlock", "Block"} => m.blk \in Seq(Node))
    BY DEF TravelInv, Message
<1>1. CASE m.kind = "AnnounceBlock" /\ m.blk \notin known[n] /\ requested[n] = NoBlock
    <2>1. Slot(n, m) = m.blk /\ Queued(n, m) = <<>>
        BY <1>1 DEF Slot, Queued
    <2>2. m.blk # requested[n]
        BY <1>0, <1>1, NoBlockIsNone
    <2>3. Reply(n, m) = <<Msg("GetBlock", m.blk)>>
        BY <1>1, <2>1, <2>2 DEF Reply
    <2> QED BY <1>0, <1>1, <2>1, <2>3
<1>2. CASE m.kind = "AnnounceBlock" /\ ~(m.blk \notin known[n] /\ requested[n] = NoBlock)
    <2>1. Slot(n, m) = requested[n] /\ Queued(n, m) = <<>>
        BY <1>2 DEF Slot, Queued
    <2>2. Reply(n, m) = <<>>
        BY <1>2, <2>1 DEF Reply
    <2> QED BY <1>0, <1>2, <2>1, <2>2
<1>3. CASE m.kind = "GetBlock"
    <2>1. Slot(n, m) = requested[n] /\ Queued(n, m) = <<>>
        BY <1>3 DEF Slot, Queued
    <2>2. block_by_hash(n, m.blk)
        BY <1>3 DEF Fatal
    <2>3. Reply(n, m) = <<Msg("Block", m.blk)>>
        BY <1>3, <2>2 DEF Reply
    <2> QED BY <1>0, <1>3, <2>1, <2>3
<1>4. CASE m.kind = "Block"
    <2>1. Slot(n, m) = NoBlock /\ Queued(n, m) = <<m.blk>>
        BY <1>4 DEF Slot, Queued
    <2>2. requested[n] # NoBlock /\ m.blk = requested[n]
        BY <1>4 DEF Fatal
    <2>3. Reply(n, m) = <<>>
        BY <1>4 DEF Reply
    <2> QED BY <1>0, <1>4, <2>1, <2>2, <2>3, NoBlockIsNone
<1>5. CASE m.kind \notin {"AnnounceBlock", "GetBlock", "Block"}
    <2>1. Slot(n, m) = requested[n] /\ Queued(n, m) = <<>>
        BY <1>5 DEF Slot, Queued
    <2>2. \/ Reply(n, m) = <<>> \/ Reply(n, m) = <<Msg("Height", tip[n])>>
          \/ Reply(n, m) = <<Msg("Pong", NoBlock)>>
        BY <1>5 DEF Reply, Plain
    <2> QED BY <1>0, <1>5, <2>1, <2>2
<1> QED BY <1>1, <1>2, <1>3, <1>4, <1>5

\* Two queues without an announcement make one without.
LEMMA ConcatQuiet ==
    ASSUME NEW q \in Seq(Message), NEW r \in Seq(Message),
           \A i \in DOMAIN q : q[i].kind # "AnnounceBlock",
           \A i \in DOMAIN r : r[i].kind # "AnnounceBlock"
    PROVE  \A i \in DOMAIN (q \o r) : (q \o r)[i].kind # "AnnounceBlock"
<1>1. /\ Len(q) \in Nat /\ Len(r) \in Nat /\ DOMAIN (q \o r) = 1..(Len(q) + Len(r))
      /\ DOMAIN q = 1..Len(q) /\ DOMAIN r = 1..Len(r)
      /\ \A i \in 1..(Len(q) + Len(r)) :
           (q \o r)[i] = IF i <= Len(q) THEN q[i] ELSE r[i - Len(q)]
    BY ConcatProperties
<1>2. \A i \in 1..(Len(q) + Len(r)) :
        IF i <= Len(q) THEN i \in DOMAIN q ELSE i - Len(q) \in DOMAIN r
    BY <1>1
<1> QED BY <1>1, <1>2

\* Reading a message once the handshake is done.
LEMMA ReadStep ==
    ASSUME WireInv, NEW n \in Node, wire[n] # <<>>, NEW place \in Place \cup {"gave up"}, NEW budget,
           Read(n, place, budget), at[Dialer] # "down", place \notin {"down", "hello"},
           at[n] \notin {"down", "hello"},
           n = Listener /\ at[n] # "serve" => Head(wire[n]).kind # "AnnounceBlock",
           n = Listener /\ place = "refresh" => at[n] = "refresh"
    PROVE  WireInv'
<1> DEFINE m == Head(wire[n])
<1>1. /\ TravelInv /\ QuietInv /\ Balance
      /\ wire \in [Node -> Seq(Message)] /\ requested \in [Node -> Ref]
      /\ wire[n] \in Seq(Message) /\ m \in Message /\ UNCHANGED chainVars
    BY HeadTailProperties DEF WireInv, TravelInv, Read
<1>2. CASE Fatal(n, m) # "none" \/ place = "gave up"
    BY <1>1, <1>2, CloseStep DEF Read, chainVars
<1>3. CASE Fatal(n, m) = "none" /\ place # "gave up"
    <2>1. /\ wire' = [wire EXCEPT ![n] = Tail(@), ![Other(n)] = @ \o Reply(n, m)]
          /\ requested' = [requested EXCEPT ![n] = Slot(n, m)]
          /\ inq' = [inq EXCEPT ![n] = @ \o Queued(n, m)]
          /\ at' = [at EXCEPT ![n] = place]
          /\ outq' = outq /\ tip' = tip /\ orphans' = orphans
        BY <1>3 DEF Read, chainVars
    <2>2. /\ Slot(n, m) \in Ref /\ Queued(n, m) \in Seq(Seq(Node))
          /\ \/ /\ m.kind = "AnnounceBlock" /\ requested[n] = NoBlock /\ m.blk \in Seq(Node)
                /\ Slot(n, m) = m.blk /\ Reply(n, m) = <<Msg("GetBlock", m.blk)>>
             \/ /\ m.kind = "GetBlock" /\ m.blk \in Seq(Node) /\ Slot(n, m) = requested[n]
                /\ Reply(n, m) = <<Msg("Block", m.blk)>>
             \/ /\ m.kind = "Block" /\ requested[n] # NoBlock /\ m.blk = requested[n]
                /\ Slot(n, m) = NoBlock /\ Reply(n, m) = <<>>
             \/ /\ m.kind \notin {"GetBlock", "Block"} /\ Slot(n, m) = requested[n]
                /\ \/ Reply(n, m) = <<>>
                   \/ Reply(n, m) = <<Msg("Height", tip[n])>>
                   \/ Reply(n, m) = <<Msg("Pong", NoBlock)>>
        BY <1>1, <1>3, Answers, Zenon
    <2>m. tip[n] \in Seq(Node) /\ m = Msg(m.kind, m.blk) /\ NoBlock \in Ref
        <3>1. tip[n] \in Seq(Node)
            BY <1>1 DEF TravelInv
        <3> QED BY <1>1, <3>1, Messages, NoBlockIsNone, Zenon
    <2>n. /\ Msg("Height", tip[n]) \in Message /\ Msg("Pong", NoBlock) \in Message
          /\ \A c \in Seq(Node) : Msg("GetBlock", c) \in Message /\ Msg("Block", c) \in Message
        BY <2>m, Messages DEF Kinds, Ref
    <2>k. \A k, b : Msg(k, b).kind = k
        BY Messages
    <2> HIDE DEF m
    <2>r. Reply(n, m) \in Seq(Message)
          /\ \A i \in DOMAIN Reply(n, m) : Reply(n, m)[i].kind # "AnnounceBlock"
        <3>1. ASSUME Reply(n, m) = <<>>
              PROVE  Reply(n, m) \in Seq(Message)
                     /\ \A i \in DOMAIN Reply(n, m) : Reply(n, m)[i].kind # "AnnounceBlock"
            <4> DEFINE r == Reply(n, m)
            <4>1. r = <<>>
                BY <3>1
            <4> HIDE DEF r
            <4>2. r \in Seq(Message) /\ DOMAIN r = {}
                BY <4>1, Singles, Zenon
            <4> QED BY <4>2 DEF r
        <3>2. ASSUME NEW x \in Message, Reply(n, m) = <<x>>, x.kind # "AnnounceBlock"
              PROVE  Reply(n, m) \in Seq(Message)
                     /\ \A i \in DOMAIN Reply(n, m) : Reply(n, m)[i].kind # "AnnounceBlock"
            <4> DEFINE r == Reply(n, m)
            <4>1. r = <<x>>
                BY <3>2
            <4> HIDE DEF r
            <4>2. r \in Seq(Message) /\ DOMAIN r = {1} /\ r[1] = x
                BY <4>1, Singles, Zenon
            <4> QED BY <3>2, <4>2 DEF r
        <3>3. \/ Reply(n, m) = <<>>
              \/ \E x \in Message : Reply(n, m) = <<x>> /\ x.kind # "AnnounceBlock"
            <4>1. /\ Msg("Height", tip[n]).kind # "AnnounceBlock"
                  /\ Msg("Pong", NoBlock).kind # "AnnounceBlock"
                  /\ \A c : Msg("GetBlock", c).kind # "AnnounceBlock" /\ Msg("Block", c).kind # "AnnounceBlock"
                <5>1. /\ "Height" # "AnnounceBlock" /\ "Pong" # "AnnounceBlock"
                      /\ "GetBlock" # "AnnounceBlock" /\ "Block" # "AnnounceBlock"
                    OBVIOUS
                <5> QED BY <2>k, <5>1, Zenon
            <4> QED BY <2>2, <2>n, <4>1, Zenon
        <3> QED BY <3>1, <3>2, <3>3, Zenon
    <2>3. TravelInv'
        <3>1. wire' \in [Node -> Seq(Message)]
            <4>1. Tail(wire[n]) \in Seq(Message)
                BY <1>1, HeadTailProperties
            <4>2. wire[Other(n)] \o Reply(n, m) \in Seq(Message)
                BY <1>1, <2>r, Others, ConcatProperties
            <4> QED BY <1>1, <2>1, <4>1, <4>2
        <3>2. inq' \in [Node -> Seq(Seq(Node))]
            <4>1. inq[n] \o Queued(n, m) \in Seq(Seq(Node))
                BY <1>1, <2>2, ConcatProperties DEF TravelInv
            <4> QED BY <1>1, <2>1, <4>1 DEF TravelInv
        <3>3. requested' \in [Node -> Ref]
            BY <1>1, <2>1, <2>2
        <3>4. at' \in [Node -> Place]
            BY <1>1, <1>3, <2>1 DEF TravelInv
        <3> QED BY <1>1, <2>1, <3>1, <3>2, <3>3, <3>4 DEF TravelInv
    <2>4. Balance'
        <3>1. CASE /\ m.kind = "AnnounceBlock" /\ requested[n] = NoBlock /\ m.blk \in Seq(Node)
                   /\ Slot(n, m) = m.blk /\ Reply(n, m) = <<Msg("GetBlock", m.blk)>>
            <4>1. m.blk # NoBlock
                BY <3>1, NoBlockIsNone
            <4> QED BY <1>1, <2>1, <3>1, <4>1, BalanceAsk, Zenon DEF m
        <3>2. CASE /\ m.kind = "GetBlock" /\ m.blk \in Seq(Node) /\ Slot(n, m) = requested[n]
                   /\ Reply(n, m) = <<Msg("Block", m.blk)>>
            <4>1. requested' = requested /\ m = Msg("GetBlock", m.blk)
                BY <1>1, <2>1, <2>m, <3>2
            <4> QED BY <1>1, <2>1, <3>2, <4>1, BalanceServe, Zenon DEF m
        <3>3. CASE /\ m.kind = "Block" /\ requested[n] # NoBlock /\ m.blk = requested[n]
                   /\ Slot(n, m) = NoBlock /\ Reply(n, m) = <<>>
            <4>1. m = Msg("Block", requested[n])
                BY <2>m, <3>3
            <4> QED BY <1>1, <2>1, <3>3, <4>1, BalanceReceive, Zenon DEF m
        <3>4. CASE /\ m.kind \notin {"GetBlock", "Block"} /\ Slot(n, m) = requested[n]
                   /\ \/ Reply(n, m) = <<>>
                      \/ Reply(n, m) = <<Msg("Height", tip[n])>>
                      \/ Reply(n, m) = <<Msg("Pong", NoBlock)>>
            <4>1. requested' = requested
                BY <1>1, <2>1, <3>4
            <4>2. Reply(n, m) = <<>>
                  \/ \E x \in Message : Reply(n, m) = <<x>> /\ x.kind \notin {"GetBlock", "Block"}
                <5>1. /\ Msg("Height", tip[n]).kind \notin {"GetBlock", "Block"}
                      /\ Msg("Pong", NoBlock).kind \notin {"GetBlock", "Block"}
                    BY Replies, Zenon
                <5> QED BY <2>n, <3>4, <5>1, Zenon
            <4> QED BY <1>1, <2>1, <3>4, <4>1, <4>2, BalanceTalk, Zenon DEF m
        <3> QED BY <2>2, <3>1, <3>2, <3>3, <3>4, Zenon
    <2>5. QuietInv'
        <3>1. at'[Dialer] # "down"
            BY <1>1, <2>1 DEF TravelInv, Node
        <3>2. ASSUME at'[Listener] \in {"down", "hello", "refresh"}
              PROVE  /\ \A u \in Node : requested'[u] = NoBlock
                     /\ \A i \in DOMAIN wire'[Dialer] : wire'[Dialer][i].kind # "AnnounceBlock"
            <4>1. at[Listener] \in {"down", "hello", "refresh"}
                BY <1>1, <2>1, <3>2 DEF TravelInv, Node
            <4>2. /\ \A u \in Node : requested[u] = NoBlock
                  /\ \A i \in DOMAIN wire[Dialer] : wire[Dialer][i].kind # "AnnounceBlock"
                BY <1>1, <4>1 DEF QuietInv
            <4>3. m.kind # "AnnounceBlock"
                <5>1. wire[n] \in Seq(Message) /\ m = wire[n][1] /\ 1 \in DOMAIN wire[n]
                    BY <1>1, Heads, Zenon DEF m
                <5>2. n = Listener => at[n] # "serve"
                    BY <4>1
                <5> QED BY <4>2, <5>1, <5>2 DEF Node, m
            <4>4. requested' = requested
                BY <1>1, <2>1, <2>2, <4>2, <4>3
            <4>5. CASE n = Dialer
                <5>1. /\ wire'[Dialer] = Tail(wire[Dialer]) /\ wire[Dialer] \in Seq(Message)
                      /\ wire[Dialer] # <<>>
                    BY <1>1, <2>1, <4>5, Others
                <5>2. \A i \in DOMAIN Tail(wire[Dialer]) :
                        i + 1 \in DOMAIN wire[Dialer] /\ Tail(wire[Dialer])[i] = wire[Dialer][i + 1]
                    BY <5>1, Heads, Zenon
                <5> QED BY <4>2, <4>4, <5>1, <5>2
            <4>6. CASE n = Listener
                <5>1. Other(n) = Dialer
                    BY <4>6, WireAssumption DEF Other
                <5>2. wire'[Dialer] = wire[Dialer] \o Reply(n, m) /\ wire[Dialer] \in Seq(Message)
                    BY <1>1, <2>1, <5>1, Others
                <5> DEFINE q == wire[Dialer]
                           r == Reply(n, m)
                <5>3. /\ q \in Seq(Message) /\ r \in Seq(Message)
                      /\ \A i \in DOMAIN q : q[i].kind # "AnnounceBlock"
                      /\ \A i \in DOMAIN r : r[i].kind # "AnnounceBlock"
                    BY <2>r, <4>2, <5>2
                <5> HIDE DEF q, r
                <5>4. \A i \in DOMAIN (q \o r) : (q \o r)[i].kind # "AnnounceBlock"
                    BY <5>3, ConcatQuiet
                <5> QED BY <4>2, <4>4, <5>2, <5>4 DEF q, r
            <4> QED BY <4>5, <4>6 DEF Node
        <3> QED BY <3>1, <3>2, Zenon DEF QuietInv
    <2> QED BY <2>3, <2>4, <2>5 DEF WireInv
<1> QED BY <1>2, <1>3

-----------------------------------------------------------------------------
\* The steps.

\* A finite set of branches has a longest.
LEMMA Longest ==
    ASSUME NEW S \in SUBSET Seq(Node), IsFiniteSet(S), S # {}
    PROVE  \E c \in S : \A d \in S : Len(d) <= Len(c)
<1> DEFINE Above(c) == {d \in S : Len(d) > Len(c)}
           T == {Cardinality(Above(c)) : c \in S}
<1>1. \A c \in S : IsFiniteSet(Above(c)) /\ Cardinality(Above(c)) \in Nat
    BY FS_Subset, FS_CardinalityType
<1>2. T \subseteq Nat /\ T # {}
    BY <1>1
<1>3. PICK t \in T : \A u \in T : ~(<<u, t>> \in OpToRel(<, Nat))
    BY <1>2, NatLessThanWellFounded, WFMin
<1>4. \A u \in T : ~(u < t)
    BY <1>2, <1>3 DEF OpToRel
<1>5. PICK c \in S : t = Cardinality(Above(c))
    OBVIOUS
<1>6. ASSUME NEW d \in S, ~(Len(d) <= Len(c)) PROVE FALSE
    <2>1. \A e \in S : Len(e) \in Nat
        OBVIOUS
    <2>2. d \in Above(c) /\ d \notin Above(d) /\ Above(d) \in SUBSET Above(c)
        BY <1>6, <2>1
    <2>3. Cardinality(Above(d)) <= Cardinality(Above(c)) /\ Cardinality(Above(d)) # Cardinality(Above(c))
        BY <1>1, <2>2, FS_Subset
    <2>4. Cardinality(Above(d)) \in T
        OBVIOUS
    <2> HIDE DEF Above, T
    <2> QED BY <1>1, <1>4, <1>5, <2>3, <2>4
<1> QED BY <1>6

\* A step that leaves the connection alone.
LEMMA Silent ==
    ASSUME WireInv, TravelInv', UNCHANGED <<wire, at, requested>>
    PROVE  WireInv'
<1>1. QuietInv'
    BY DEF WireInv, QuietInv
<1>2. Balance'
    BY DEF WireInv, Balance
<1> QED BY <1>1, <1>2 DEF WireInv

LEMMA ImportStep ==
    ASSUME WireInv, NEW n \in Node, Import(n)
    PROVE  WireInv'
<1> DEFINE b   == Head(inq[n])
           all == orphans[n] \cup {b}
           new == IF Parent(b) \in known[n]
                  THEN {c \in all : Branch(c) \subseteq known[n] \cup all} ELSE {}
           T   == new \cup {tip[n]}
           best == CHOOSE c \in T : \A d \in T : Len(d) <= Len(c)
<1>1. /\ inq[n] # <<>> /\ orphans' = [orphans EXCEPT ![n] = (all \ new) \ known[n]]
      /\ tip' = [tip EXCEPT ![n] = IF Len(best) > Len(@) THEN best ELSE @]
      /\ inq' = [inq EXCEPT ![n] = Tail(@)] /\ UNCHANGED <<wire, at, requested, outq>>
    BY Zenon DEF Import, sessionVars
<1>2. /\ tip \in [Node -> Seq(Node)] /\ orphans \in [Node -> SUBSET Seq(Node)]
      /\ \A u \in Node : IsFiniteSet(orphans[u]) /\ inq \in [Node -> Seq(Seq(Node))]
    BY DEF WireInv, TravelInv
<1>3. inq[n] \in Seq(Seq(Node)) /\ b \in Seq(Node) /\ Tail(inq[n]) \in Seq(Seq(Node))
    BY <1>1, <1>2, Heads
<1>4. all \in SUBSET Seq(Node) /\ IsFiniteSet(all) /\ new \subseteq all
    BY <1>2, <1>3, FS_AddElement
<1> HIDE DEF b, all, new
<1>5. /\ T \in SUBSET Seq(Node) /\ IsFiniteSet(T) /\ T # {}
      /\ IsFiniteSet((all \ new) \ known[n])
    <2>1. IsFiniteSet(new) /\ IsFiniteSet((all \ new) \ known[n])
        BY <1>4, FS_Subset
    <2>2. IsFiniteSet(T)
        BY <2>1, FS_AddElement
    <2> QED BY <1>2, <1>4, <2>1, <2>2
<1> HIDE DEF T
<1>6. best \in Seq(Node)
    BY <1>5, Longest
<1> HIDE DEF best
<1>7. tip' \in [Node -> Seq(Node)] /\ orphans' \in [Node -> SUBSET Seq(Node)]
      /\ inq' \in [Node -> Seq(Seq(Node))]
    BY <1>1, <1>2, <1>3, <1>4, <1>6
<1>8. \A u \in Node : IsFiniteSet(orphans'[u])
    BY <1>1, <1>2, <1>5
<1>9. TravelInv'
    BY <1>1, <1>7, <1>8 DEF TravelInv, WireInv
<1> QED BY <1>1, <1>9, Silent

LEMMA CatchUpTypes ==
    ASSUME TravelInv, NEW n \in Node, CatchUp(n)
    PROVE  /\ tip' \in [Node -> Seq(Node)] /\ orphans' \in [Node -> SUBSET Seq(Node)]
           /\ \A u \in Node : IsFiniteSet(orphans'[u])
<1>1. /\ tip \in [Node -> Seq(Node)] /\ orphans \in [Node -> SUBSET Seq(Node)]
      /\ \A u \in Node : IsFiniteSet(orphans[u]) /\ tip[Other(n)] \in Seq(Node)
    BY Others DEF TravelInv
<1>2. /\ tip' = [tip EXCEPT ![n] = IF Len(tip[Other(n)]) > Len(@) THEN tip[Other(n)] ELSE @]
      /\ orphans' = [orphans EXCEPT ![n] = @ \ Branch(tip[Other(n)])]
    BY Zenon DEF CatchUp
<1>3. IsFiniteSet(orphans[n] \ Branch(tip[Other(n)]))
    BY <1>1, FS_Subset
<1>4. \A u \in Node : orphans'[u] = IF u = n THEN orphans[n] \ Branch(tip[Other(n)]) ELSE orphans[u]
    BY <1>1, <1>2
<1> QED BY <1>1, <1>2, <1>3, <1>4

LEMMA MineStep ==
    ASSUME WireInv, NEW n \in Node, Mine(n)
    PROVE  WireInv'
<1> DEFINE b == Append(tip[n], n)
<1>1. /\ tip' = [tip EXCEPT ![n] = b]
      /\ outq' = [outq EXCEPT ![n] = Append(@, Msg("AnnounceBlock", b))] \/ outq' = outq
      /\ UNCHANGED <<wire, at, requested, inq, orphans>>
    BY Zenon DEF Mine
<1>2. tip \in [Node -> Seq(Node)] /\ outq \in [Node -> Seq(Announcement)] /\ outq[n] \in Seq(Announcement)
    BY DEF WireInv, TravelInv
<1>3. b \in Seq(Node)
    BY <1>2
<1> HIDE DEF b
<1>4. Msg("AnnounceBlock", b) \in Announcement
    BY <1>3, Messages DEF Announcement, Kinds
<1>5. Append(outq[n], Msg("AnnounceBlock", b)) \in Seq(Announcement)
    BY <1>2, <1>4, AppendProperties
<1>6. tip' \in [Node -> Seq(Node)] /\ outq' \in [Node -> Seq(Announcement)]
    BY <1>1, <1>2, <1>3, <1>5
<1>7. TravelInv'
    BY <1>1, <1>6 DEF TravelInv, WireInv
<1> QED BY <1>1, <1>7, Silent

LEMMA WatchdogStep ==
    ASSUME WireInv, Watchdog
    PROVE  WireInv'
<1>1. CatchUp(Listener) /\ UNCHANGED <<wire, at, requested, outq, inq>> /\ TravelInv
    BY DEF Watchdog, sessionVars, WireInv
<1>2. TravelInv'
    BY <1>1, CatchUpTypes DEF TravelInv, Node
<1> QED BY <1>1, <1>2, Silent

\* Two queues with the same requests and the same blocks on them.
Same(q, p) ==
    \A k \in {"GetBlock", "Block"}, b \in Ref : Count(q, Msg(k, b)) = Count(p, Msg(k, b))

LEMMA SameConcat ==
    ASSUME NEW q \in Seq(Message), NEW r \in Seq(Message),
           \A i \in DOMAIN r : r[i].kind \notin {"GetBlock", "Block"}
    PROVE  q \o r \in Seq(Message) /\ Same(q \o r, q)
<1>1. \A k \in {"GetBlock", "Block"}, b \in Ref : \A i \in DOMAIN r : r[i] # Msg(k, b)
    BY Messages
<1>2. q \o r \in Seq(Message)
    BY ConcatProperties
<1> QED BY <1>1, <1>2, CountConcat DEF Same

LEMMA SameAppend ==
    ASSUME NEW q \in Seq(Message), NEW x \in Message, x.kind \notin {"GetBlock", "Block"}
    PROVE  /\ q \o <<x>> \in Seq(Message) /\ Same(q \o <<x>>, q)
           /\ Append(q, x) \in Seq(Message) /\ Same(Append(q, x), q)
<1>1. <<x>> \in Seq(Message) /\ \A i \in DOMAIN <<x>> : <<x>>[i].kind \notin {"GetBlock", "Block"}
    BY Singles
<1>2. q \o <<x>> \in Seq(Message) /\ Same(q \o <<x>>, q)
    BY <1>1, SameConcat, Zenon
<1>3. Append(q, x) = q \o <<x>>
    BY AppendIsConcat
<1> QED BY <1>2, <1>3

LEMMA SameTail ==
    ASSUME NEW q \in Seq(Message), q # <<>>, Head(q).kind \notin {"GetBlock", "Block"}
    PROVE  Tail(q) \in Seq(Message) /\ Same(Tail(q), q)
<1> SUFFICES ASSUME NEW k \in {"GetBlock", "Block"}, NEW b \in Ref
             PROVE  Count(Tail(q), Msg(k, b)) = Count(q, Msg(k, b))
    BY Heads DEF Same
<1>1. Head(q) # Msg(k, b)
    BY Messages
<1>2. Count(Tail(q), Msg(k, b)) = Count(q, Msg(k, b)) - 0 /\ Count(q, Msg(k, b)) \in Nat
    BY <1>1, CountTail, CountNat
<1> QED BY <1>2

LEMMA BalanceSame ==
    ASSUME Balance, requested' = requested, \A n \in Node : Same(wire'[n], wire[n])
    PROVE  Balance'
BY BalanceKept, Zenon DEF Same

\* The messages that are neither a request nor a block.
LEMMA PlainMessages ==
    \A k \in {"Handshake", "GetHeight", "Ping"} :
      Plain(k) \in Message /\ Plain(k).kind = k /\ Plain(k).kind \notin {"GetBlock", "Block"}
BY Messages, NoBlockIsNone DEF Kinds

LEMMA ConnectStep ==
    ASSUME WireInv, Connect
    PROVE  WireInv'
<1>1. /\ at' = [n \in Node |-> "hello"] /\ wire' = [wire EXCEPT ![Listener] = <<Plain("Handshake")>>]
      /\ at[Dialer] = "down" /\ UNCHANGED <<tip, orphans, inq, outq, requested>>
      /\ TravelInv /\ QuietInv /\ Balance /\ wire \in [Node -> Seq(Message)]
    BY DEF Connect, chainVars, WireInv, TravelInv
<1>2. \A n \in Node : wire[n] = <<>> /\ requested[n] = NoBlock /\ at[n] = "down"
    BY <1>1 DEF QuietInv, Node
<1>3. /\ <<Plain("Handshake")>> \in Seq(Message) /\ Same(<<Plain("Handshake")>>, <<>>)
    <2>1. <<>> \o <<Plain("Handshake")>> = <<Plain("Handshake")>> /\ <<>> \in Seq(Message)
        BY Singles, PlainMessages, ConcatEmptySeq
    <2> QED BY <2>1, SameAppend, PlainMessages, Zenon
<1>4. wire' \in [Node -> Seq(Message)] /\ \A n \in Node : Same(wire'[n], wire[n])
    <2>1. \A n \in Node : wire'[n] = IF n = Listener THEN <<Plain("Handshake")>> ELSE <<>>
        BY <1>1, <1>2, Zenon
    <2>2. Same(<<>>, <<>>)
        BY DEF Same
    <2>3. wire' \in [Node -> Seq(Message)]
        BY <1>1, <1>3
    <2> QED BY <1>2, <1>3, <2>1, <2>2, <2>3, Zenon
<1>5. Balance'
    BY <1>1, <1>4, BalanceSame
<1>6. TravelInv'
    BY <1>1, <1>4 DEF TravelInv, Place
<1>7. QuietInv'
    BY <1>1, <1>2, WireAssumption, Singles DEF QuietInv, Node
<1> QED BY <1>5, <1>6, <1>7 DEF WireInv

\* A message that is neither a request nor a block leaves the wire of the dialer.
LEMMA DialerDrops ==
    ASSUME WireInv, wire[Dialer] # <<>>, Head(wire[Dialer]).kind \notin {"GetBlock", "Block"},
           wire' = [wire EXCEPT ![Dialer] = Tail(@)],
           NEW place \in Place, place # "down", at' = [at EXCEPT ![Dialer] = place],
           UNCHANGED <<requested, outq, inq>>,
           tip' \in [Node -> Seq(Node)], orphans' \in [Node -> SUBSET Seq(Node)],
           \A u \in Node : IsFiniteSet(orphans'[u])
    PROVE  WireInv'
<1>1. /\ TravelInv /\ QuietInv /\ Balance /\ wire \in [Node -> Seq(Message)]
      /\ wire[Dialer] \in Seq(Message) /\ Dialer \in Node /\ Listener \in Node /\ Dialer # Listener
    BY WireAssumption DEF WireInv, TravelInv, Node
<1>2. Tail(wire[Dialer]) \in Seq(Message) /\ Same(Tail(wire[Dialer]), wire[Dialer])
    BY <1>1, SameTail
<1>3. wire' \in [Node -> Seq(Message)]
    BY <1>1, <1>2
<1>w. \A n \in Node : wire'[n] = IF n = Dialer THEN Tail(wire[Dialer]) ELSE wire[n]
    BY <1>1, Zenon
<1>4. \A n \in Node : Same(wire'[n], wire[n])
    BY <1>2, <1>w, Zenon DEF Same
<1>5. Balance'
    BY <1>1, <1>4, BalanceSame
<1>6. TravelInv'
    BY <1>1, <1>3 DEF TravelInv
<1>7. QuietInv'
    <2>1. at'[Dialer] = place /\ at'[Listener] = at[Listener]
        BY <1>1 DEF TravelInv
    <2>2. \A i \in DOMAIN Tail(wire[Dialer]) :
            i + 1 \in DOMAIN wire[Dialer] /\ Tail(wire[Dialer])[i] = wire[Dialer][i + 1]
        BY <1>1, Heads, Zenon
    <2>3. wire'[Dialer] = Tail(wire[Dialer])
        BY <1>1, <1>w
    <2> QED BY <1>1, <2>1, <2>2, <2>3 DEF QuietInv
<1> QED BY <1>5, <1>6, <1>7 DEF WireInv

LEMMA DialerHelloStep ==
    ASSUME WireInv, DialerHello
    PROVE  WireInv'
<1>1. CASE \E reason : Close(reason)
    BY <1>1, CloseStep DEF DialerHello, WireInv
<1>2. CASE Head(wire[Dialer]).kind = "Handshake" /\ ~\E reason : Close(reason)
    BY <1>2, DialerDrops DEF DialerHello, Next1, Place, chainVars, WireInv, TravelInv
<1> QED BY <1>1, <1>2 DEF DialerHello

LEMMA DialerHeightStep ==
    ASSUME WireInv, DialerHeight
    PROVE  WireInv'
<1>1. /\ tip' \in [Node -> Seq(Node)] /\ orphans' \in [Node -> SUBSET Seq(Node)]
      /\ \A u \in Node : IsFiniteSet(orphans'[u])
    <2>1. CASE CatchUp(Dialer)
        BY <2>1, CatchUpTypes DEF WireInv, Node
    <2>2. CASE UNCHANGED chainVars
        BY <2>2 DEF chainVars, WireInv, TravelInv
    <2> QED BY <2>1, <2>2, Zenon DEF DialerHeight
<1>2. /\ wire[Dialer] # <<>> /\ Head(wire[Dialer]).kind = "Height"
      /\ wire' = [wire EXCEPT ![Dialer] = Tail(@)] /\ at' = [at EXCEPT ![Dialer] = "sleep"]
      /\ UNCHANGED <<requested, outq, inq>>
    BY DEF DialerHeight, Next1
<1> QED BY <1>1, <1>2, DialerDrops DEF Place

\* Messages that are neither requests nor blocks enter the wire of the listener.
LEMMA DialerSends ==
    ASSUME WireInv, at[Dialer] # "down", NEW q \in Seq(Message), Same(q, wire[Listener]),
           wire' = [wire EXCEPT ![Listener] = q],
           NEW place \in Place, place # "down", at' = [at EXCEPT ![Dialer] = place],
           outq' \in [Node -> Seq(Announcement)],
           UNCHANGED <<requested, inq, tip, orphans>>
    PROVE  WireInv'
<1>1. /\ TravelInv /\ QuietInv /\ Balance /\ wire \in [Node -> Seq(Message)]
      /\ Dialer \in Node /\ Listener \in Node /\ Dialer # Listener
    BY WireAssumption DEF WireInv, TravelInv, Node
<1>2. wire' \in [Node -> Seq(Message)]
    BY <1>1
<1>w. \A n \in Node : wire'[n] = IF n = Listener THEN q ELSE wire[n]
    BY <1>1, Zenon
<1>3. \A n \in Node : Same(wire'[n], wire[n])
    BY <1>w, Zenon DEF Same
<1>4. Balance'
    BY <1>1, <1>3, BalanceSame
<1>5. TravelInv'
    BY <1>1, <1>2 DEF TravelInv
<1>6. at'[Dialer] = place /\ at'[Listener] = at[Listener] /\ wire'[Dialer] = wire[Dialer]
    BY <1>1, <1>w DEF TravelInv
<1>7. QuietInv'
    BY <1>1, <1>6 DEF QuietInv
<1> QED BY <1>4, <1>5, <1>7 DEF WireInv

LEMMA DrainStep ==
    ASSUME WireInv, Drain
    PROVE  WireInv'
<1> DEFINE p == wire[Listener]
           r == outq[Dialer]
           h == Plain("GetHeight")
<1>1. /\ p \in Seq(Message) /\ r \in Seq(Announcement) /\ h \in Message
      /\ h.kind \notin {"GetBlock", "Block"} /\ outq \in [Node -> Seq(Announcement)]
    BY PlainMessages DEF WireInv, TravelInv, Node
<1>2. /\ at[Dialer] = "drain" /\ wire' = [wire EXCEPT ![Listener] = (p \o r) \o <<h>>]
      /\ outq' = [outq EXCEPT ![Dialer] = <<>>] /\ at' = [at EXCEPT ![Dialer] = "poll"]
      /\ UNCHANGED <<requested, inq, tip, orphans>>
    BY DEF Drain, chainVars
<1> HIDE DEF p, r, h
<1>3. r \in Seq(Message) /\ \A i \in DOMAIN r : r[i].kind \notin {"GetBlock", "Block"}
    <2>1. \A i \in 1..Len(r) : r[i] \in Announcement
        BY <1>1
    <2> QED BY <1>1, <2>1 DEF Announcement
<1>4. p \o r \in Seq(Message) /\ Same(p \o r, p)
    BY <1>1, <1>3, SameConcat
<1>5. (p \o r) \o <<h>> \in Seq(Message) /\ Same((p \o r) \o <<h>>, p \o r)
    BY <1>1, <1>4, SameAppend
<1>6. Same((p \o r) \o <<h>>, wire[Listener])
    BY <1>4, <1>5 DEF Same, p
<1>7. outq' \in [Node -> Seq(Announcement)]
    <2>1. <<>> \in Seq(Announcement)
        OBVIOUS
    <2> QED BY <1>1, <1>2, <2>1, Zenon
<1> QED BY <1>2, <1>5, <1>6, <1>7, DialerSends DEF Place

LEMMA PingStep ==
    ASSUME WireInv, Ping
    PROVE  WireInv'
<1>1. /\ wire[Listener] \in Seq(Message) /\ outq \in [Node -> Seq(Announcement)]
    BY DEF WireInv, TravelInv, Node
<1>2. Append(wire[Listener], Plain("Ping")) \in Seq(Message)
      /\ Same(Append(wire[Listener], Plain("Ping")), wire[Listener])
    BY <1>1, PlainMessages, SameAppend, Zenon
<1> QED BY <1>1, <1>2, DialerSends DEF Ping, chainVars, Place

\* Before the listener serves no request and no block is on its way.
LEMMA NothingAsked ==
    ASSUME WireInv, at[Listener] \in {"down", "hello", "refresh"},
           NEW n \in Node, wire[n] # <<>>
    PROVE  Head(wire[n]).kind \notin {"GetBlock", "Block"}
<1>1. /\ wire[n] \in Seq(Message) /\ Head(wire[n]) \in Message
      /\ Head(wire[n]) = wire[n][1] /\ 1 \in DOMAIN wire[n]
    BY Heads DEF WireInv, TravelInv
<1> DEFINE b == Head(wire[n]).blk
<1>2. b \in Ref /\ Head(wire[n]) = Msg(Head(wire[n]).kind, b)
    BY <1>1, Messages
<1>3. \A u \in Node : /\ requested[u] = NoBlock
                      /\ Count(wire[u], Msg("GetBlock", b)) \in Nat /\ Count(wire[u], Msg("Block", b)) \in Nat
    BY CountNat DEF WireInv, QuietInv, TravelInv
<1>4. \A u \in Node : Count(wire[Other(u)], Msg("GetBlock", b)) + Count(wire[u], Msg("Block", b)) = 0
    <2> SUFFICES ASSUME NEW u \in Node
                 PROVE  Count(wire[Other(u)], Msg("GetBlock", b)) + Count(wire[u], Msg("Block", b)) = 0
        OBVIOUS
    <2>1. Count(wire[Other(u)], Msg("GetBlock", b)) + Count(wire[u], Msg("Block", b))
            = IF requested[u] = b /\ b # NoBlock THEN 1 ELSE 0
        BY <1>2, Zenon DEF WireInv, Balance
    <2>2. (IF requested[u] = b /\ b # NoBlock THEN 1 ELSE 0) = 0
        BY <1>3
    <2> QED BY <2>1, <2>2, Zenon
<1>5. Count(wire[n], Msg("Block", b)) = 0
    <2>1. Count(wire[Other(n)], Msg("GetBlock", b)) + Count(wire[n], Msg("Block", b)) = 0
        BY <1>4
    <2> QED BY <1>3, <2>1, Others
<1>6. Count(wire[n], Msg("GetBlock", b)) = 0
    <2>1. Count(wire[n], Msg("GetBlock", b)) + Count(wire[Other(n)], Msg("Block", b)) = 0
        BY <1>4, Others
    <2> QED BY <1>3, <2>1, Others
<1>7. Head(wire[n]) # Msg("Block", b) /\ Head(wire[n]) # Msg("GetBlock", b)
    <2>1. \A x : Count(wire[n], x) = 0 <=> \A i \in DOMAIN wire[n] : wire[n][i] # x
        BY <1>1, CountNat, Zenon
    <2> QED BY <1>1, <1>5, <1>6, <2>1, Zenon
<1> QED BY <1>2, <1>7

LEMMA ListenerHelloStep ==
    ASSUME WireInv, ListenerHello
    PROVE  WireInv'
<1>1. CASE \E reason : Close(reason)
    BY <1>1, CloseStep DEF ListenerHello, WireInv
<1>2. CASE ~\E reason : Close(reason)
    <2> DEFINE p == wire[Dialer]
               h == Plain("Handshake")
               g == Plain("GetHeight")
               r == IF Advertises THEN <<g>> ELSE <<>>
    <2>1. /\ at[Listener] = "hello" /\ wire[Listener] # <<>>
          /\ at' = [at EXCEPT ![Listener] = IF Advertises THEN "refresh" ELSE "serve"]
          /\ wire' = [wire EXCEPT ![Listener] = Tail(@), ![Dialer] = (@ \o <<h>>) \o r]
          /\ UNCHANGED <<requested, outq, inq, tip, orphans>>
        BY <1>2, Zenon DEF ListenerHello, Next1, chainVars
    <2>2. /\ TravelInv /\ QuietInv /\ Balance /\ wire \in [Node -> Seq(Message)]
          /\ p \in Seq(Message) /\ wire[Listener] \in Seq(Message)
          /\ Dialer \in Node /\ Listener \in Node /\ Dialer # Listener
        BY WireAssumption DEF WireInv, TravelInv, Node
    <2>h. /\ h \in Message /\ h.kind \notin {"GetBlock", "Block"} /\ h.kind # "AnnounceBlock"
          /\ g \in Message /\ g.kind \notin {"GetBlock", "Block"} /\ g.kind # "AnnounceBlock"
        BY PlainMessages
    <2>3. Tail(wire[Listener]) \in Seq(Message) /\ Same(Tail(wire[Listener]), wire[Listener])
        BY <2>1, <2>2, NothingAsked, SameTail
    <2>w. /\ wire'[Listener] = Tail(wire[Listener]) /\ wire'[Dialer] = (p \o <<h>>) \o r
        BY <2>1, <2>2
    <2>q. \A i \in DOMAIN p : p[i].kind # "AnnounceBlock"
        BY <2>1, <2>2 DEF QuietInv
    <2> HIDE DEF p, h, g
    <2>r. /\ r \in Seq(Message) /\ \A i \in DOMAIN r : r[i].kind \notin {"GetBlock", "Block"}
          /\ \A i \in DOMAIN r : r[i].kind # "AnnounceBlock"
        <3>1. CASE Advertises
            BY <3>1, <2>h, Singles
        <3>2. CASE ~Advertises
            BY <3>2, Singles
        <3> QED BY <3>1, <3>2
    <2> HIDE DEF r
    <2>4. p \o <<h>> \in Seq(Message) /\ Same(p \o <<h>>, p)
        BY <2>2, <2>h, SameAppend
    <2>5. (p \o <<h>>) \o r \in Seq(Message) /\ Same((p \o <<h>>) \o r, p \o <<h>>)
        BY <2>4, <2>r, SameConcat
    <2>6. \A i \in DOMAIN ((p \o <<h>>) \o r) : ((p \o <<h>>) \o r)[i].kind # "AnnounceBlock"
        <3>1. <<h>> \in Seq(Message) /\ \A i \in DOMAIN <<h>> : <<h>>[i].kind # "AnnounceBlock"
            BY <2>h, Singles
        <3>2. \A i \in DOMAIN (p \o <<h>>) : (p \o <<h>>)[i].kind # "AnnounceBlock"
            BY <2>2, <2>q, <3>1, ConcatQuiet, Zenon
        <3> QED BY <2>4, <2>r, <3>2, ConcatQuiet, Zenon
    <2>7. wire' \in [Node -> Seq(Message)] /\ \A n \in Node : Same(wire'[n], wire[n])
        <3>1. wire' \in [Node -> Seq(Message)]
            BY <2>1, <2>2, <2>3, <2>5 DEF p
        <3>2. Same(wire'[Dialer], wire[Dialer])
            BY <2>4, <2>5, <2>w DEF Same, p
        <3>3. Same(wire'[Listener], wire[Listener])
            BY <2>3, <2>w
        <3> QED BY <3>1, <3>2, <3>3, Zenon DEF Node
    <2>8. Balance'
        BY <2>1, <2>2, <2>7, BalanceSame
    <2>9. TravelInv'
        BY <2>1, <2>2, <2>7 DEF TravelInv, Place
    <2>10. QuietInv'
        <3>1. at[Dialer] # "down" /\ \A n \in Node : requested[n] = NoBlock
            BY <2>1, <2>2 DEF QuietInv
        <3>2. at'[Dialer] = at[Dialer]
            BY <2>1, <2>2 DEF TravelInv
        <3> QED BY <2>1, <2>6, <2>w, <3>1, <3>2 DEF QuietInv
    <2> QED BY <2>8, <2>9, <2>10 DEF WireInv
<1> QED BY <1>1, <1>2

LEMMA ListenerRefreshStep ==
    ASSUME WireInv, ListenerRefresh
    PROVE  WireInv'
<1> DEFINE m == Head(wire[Listener])
<1>1. /\ at[Listener] = "refresh" /\ wire[Listener] # <<>> /\ at[Dialer] # "down"
      /\ TravelInv /\ QuietInv /\ Balance /\ wire \in [Node -> Seq(Message)]
      /\ wire[Listener] \in Seq(Message)
      /\ Dialer \in Node /\ Listener \in Node /\ Dialer # Listener
    BY WireAssumption DEF ListenerRefresh, Next1, WireInv, TravelInv, QuietInv, Node
<1>2. CASE m.kind \in {"Height", "GetHeight", "Ping"}
    <2>p. PICK place \in {"serve", "refresh"} : \E budget : Read(Listener, place, budget)
        BY <1>2, Zenon DEF ListenerRefresh
    <2>1. PICK budget : Read(Listener, place, budget)
        BY <2>p
    <2> QED BY <1>1, <1>2, <2>1, ReadStep DEF Place
<1>3. CASE m.kind \notin {"Height", "GetHeight", "Ping"}
    <2>1. /\ wire' = [wire EXCEPT ![Listener] = Tail(@)] /\ at' = [at EXCEPT ![Listener] = "serve"]
          /\ UNCHANGED <<requested, outq, inq, tip, orphans>>
        BY <1>3, Zenon DEF ListenerRefresh, chainVars
    <2>2. Tail(wire[Listener]) \in Seq(Message) /\ Same(Tail(wire[Listener]), wire[Listener])
        BY <1>1, NothingAsked, SameTail
    <2>3. wire' \in [Node -> Seq(Message)]
        BY <1>1, <2>1, <2>2
    <2>4. \A n \in Node : wire'[n] = IF n = Listener THEN Tail(wire[Listener]) ELSE wire[n]
        BY <1>1, <2>1, Zenon
    <2>5. \A n \in Node : Same(wire'[n], wire[n])
        BY <2>2, <2>4, Zenon DEF Same
    <2>6. Balance'
        BY <1>1, <2>1, <2>5, BalanceSame
    <2>7. TravelInv'
        BY <1>1, <2>1, <2>3 DEF TravelInv, Place
    <2>8. at'[Dialer] = at[Dialer] /\ at'[Listener] = "serve"
        BY <1>1, <2>1 DEF TravelInv
    <2>9. QuietInv'
        BY <1>1, <2>8 DEF QuietInv
    <2> QED BY <2>6, <2>7, <2>9 DEF WireInv
<1> QED BY <1>2, <1>3

LEMMA ListenerSendStep ==
    ASSUME WireInv, ListenerSend
    PROVE  WireInv'
<1> DEFINE x == Head(outq[Listener])
<1>1. /\ at[Listener] = "serve" /\ outq[Listener] # <<>> /\ at[Dialer] # "down"
      /\ wire' = [wire EXCEPT ![Dialer] = Append(@, x)]
      /\ outq' = [outq EXCEPT ![Listener] = Tail(@)]
      /\ UNCHANGED <<requested, inq, tip, orphans, at>>
      /\ TravelInv /\ QuietInv /\ Balance /\ wire \in [Node -> Seq(Message)]
      /\ wire[Dialer] \in Seq(Message)
      /\ outq \in [Node -> Seq(Announcement)] /\ outq[Listener] \in Seq(Announcement)
      /\ Dialer \in Node /\ Listener \in Node /\ Dialer # Listener
    BY WireAssumption DEF ListenerSend, chainVars, WireInv, TravelInv, QuietInv, Node
<1>2. x \in Announcement /\ Tail(outq[Listener]) \in Seq(Announcement)
    BY <1>1, Heads
<1>3. x \in Message /\ x.kind \notin {"GetBlock", "Block"}
    BY <1>2 DEF Announcement
<1> HIDE DEF x
<1>4. Append(wire[Dialer], x) \in Seq(Message) /\ Same(Append(wire[Dialer], x), wire[Dialer])
    BY <1>1, <1>3, SameAppend
<1>5. wire' \in [Node -> Seq(Message)] /\ outq' \in [Node -> Seq(Announcement)]
    BY <1>1, <1>2, <1>4
<1>6. \A n \in Node : wire'[n] = IF n = Dialer THEN Append(wire[Dialer], x) ELSE wire[n]
    BY <1>1, Zenon
<1>7. \A n \in Node : Same(wire'[n], wire[n])
    BY <1>4, <1>6, Zenon DEF Same
<1>8. Balance'
    BY <1>1, <1>7, BalanceSame
<1>9. TravelInv'
    BY <1>1, <1>5 DEF TravelInv
<1>10. QuietInv'
    BY <1>1 DEF QuietInv
<1> QED BY <1>8, <1>9, <1>10 DEF WireInv

\* Every step of either node, of the stream and of the clocks.
LEMMA WireKept ==
    ASSUME WireInv, [Next]_vars
    PROVE  WireInv'
<1>0. /\ TravelInv /\ QuietInv /\ Dialer \in Node /\ Listener \in Node /\ Dialer # Listener
    BY WireAssumption DEF WireInv, Node
<1>1. CASE DialerPoll \/ DialerPong
    <2>p. PICK place \in {"gave up", "poll", "drain"} : \E budget : Read(Dialer, place, budget)
        BY <1>1, Zenon DEF DialerPoll, DialerPong
    <2>1. PICK budget : Read(Dialer, place, budget)
        BY <2>p
    <2>2. at[Dialer] \in {"poll", "pong"} /\ wire[Dialer] # <<>>
        BY <1>1 DEF DialerPoll, DialerPong, Next1
    <2> QED BY <1>0, <2>1, <2>2, ReadStep DEF Place
<1>2. CASE ListenerServe
    <2>1. /\ at[Listener] = "serve" /\ wire[Listener] # <<>> /\ Read(Listener, "serve", 0)
          /\ at[Dialer] # "down"
        BY <1>0, <1>2 DEF ListenerServe, Next1, QuietInv
    <2> QED BY <1>0, <2>1, ReadStep DEF Place
<1>3. CASE LinkDown
    BY <1>0, <1>3, CloseStep DEF LinkDown
<1>4. ASSUME NEW n \in Node, Import(n) \/ Mine(n) \/ Cool(n)
      PROVE  WireInv'
    <2>1. CASE Cool(n)
        <3>1. UNCHANGED <<tip, orphans, wire, at, requested, outq, inq>>
            BY <2>1 DEF Cool, chainVars, sessionVars
        <3>2. TravelInv'
            BY <1>0, <3>1 DEF TravelInv
        <3> QED BY <3>1, <3>2, Silent
    <2> QED BY <1>4, <2>1, ImportStep, MineStep
<1>5. CASE Expire \/ UNCHANGED vars
    <2>1. UNCHANGED <<tip, orphans, wire, at, requested, outq, inq>>
        BY <1>5 DEF Expire, vars, chainVars, sessionVars
    <2>2. TravelInv'
        BY <1>0, <2>1 DEF TravelInv
    <2> QED BY <2>1, <2>2, Silent
<1> QED BY <1>1, <1>2, <1>3, <1>4, <1>5, ConnectStep, DialerHelloStep, DrainStep, DialerHeightStep,
          PingStep, ListenerHelloStep, ListenerRefreshStep, ListenerSendStep, WatchdogStep
       DEF Next, DialerStep, ListenerStep

LEMMA WireStarts == Init => WireInv /\ GreetInv
<1> SUFFICES ASSUME Init PROVE WireInv /\ GreetInv
    OBVIOUS
<1>1. TravelInv
    <2>1. IsFiniteSet({}) /\ \A S : <<>> \in Seq(S)
        BY FS_EmptySet, Singles
    <2>2. /\ tip = [n \in Node |-> <<>>] /\ orphans = [n \in Node |-> {}]
          /\ inq = [n \in Node |-> <<>>] /\ outq = [n \in Node |-> <<>>]
          /\ wire = [n \in Node |-> <<>>] /\ requested = [n \in Node |-> NoBlock]
          /\ at = [n \in Node |-> "down"]
        BY DEF Init, Genesis
    <2>3. \A S : [n \in Node |-> <<>>] \in [Node -> Seq(S)]
        BY <2>1, Zenon
    <2>4. orphans \in [Node -> SUBSET Seq(Node)] /\ \A n \in Node : IsFiniteSet(orphans[n])
        BY <2>1, <2>2
    <2>5. requested \in [Node -> Ref] /\ at \in [Node -> Place]
        BY <2>2, NoBlockIsNone DEF Place
    <2> QED BY <2>2, <2>3, <2>4, <2>5, Zenon DEF TravelInv
<1>2. /\ \A n \in Node : at[n] = "down" /\ wire[n] = <<>> /\ requested[n] = NoBlock
      /\ \A n \in Node : wire[Other(n)] = <<>>
    BY Others DEF Init
<1>3. QuietInv
    BY <1>2, WireAssumption DEF QuietInv, Node
<1>4. Balance
    BY <1>2, CountEmpty DEF Balance
<1>5. hello \in [Node -> Handshake]
    <2>1. PICK h \in Greetings : hello = [n \in Node |-> IF n = Dialer THEN Greeting ELSE h]
        BY DEF Init
    <2> QED BY <2>1, WireAssumption, Zenon
<1>6. GreetInv
    BY <1>2, <1>5 DEF GreetInv, Registered
<1> QED BY <1>1, <1>3, <1>4, <1>6 DEF WireInv

-----------------------------------------------------------------------------
\* The theorems.

(***************************************************************************)
(* The inductive invariant: what the two ends of a connection hold, and    *)
(* how requests, answers and slots match, in every reachable state.        *)
(***************************************************************************)
THEOREM WireInvariant == Spec => [](WireInv /\ GreetInv)
<1>1. WireInv /\ GreetInv /\ [Next]_vars => (WireInv /\ GreetInv)'
    BY WireKept, GreetKept DEF WireInv
<1> QED BY <1>1, WireStarts, PTL DEF Spec

(***************************************************************************)
(* RequestInFlight, whatever the announcements, pings, polls, drops and    *)
(* lost connections: a taken slot of requested_block_hash has exactly one  *)
(* request or one answer on its way.                                       *)
(***************************************************************************)
THEOREM RequestInFlightHolds == Spec => []RequestInFlight
<1>1. WireInv => RequestInFlight
    <2> SUFFICES ASSUME WireInv, NEW n \in Node, requested[n] # NoBlock
                 PROVE  Count(wire[Other(n)], Msg("GetBlock", requested[n]))
                          + Count(wire[n], Msg("Block", requested[n])) = 1
        BY Zenon DEF RequestInFlight
    <2>1. requested[n] \in Ref
        BY DEF WireInv, TravelInv
    <2>2. Count(wire[Other(n)], Msg("GetBlock", requested[n]))
            + Count(wire[n], Msg("Block", requested[n]))
            = IF requested[n] = requested[n] /\ requested[n] # NoBlock THEN 1 ELSE 0
        BY <2>1, Zenon DEF WireInv, Balance
    <2> QED BY <2>2, Zenon
<1> QED BY <1>1, WireInvariant, PTL

(***************************************************************************)
(* StrangersStayOut, whatever the handshakes: validate_handshake, run by   *)
(* each node on its own, lets neither into a session with a stranger or    *)
(* with itself.                                                            *)
(***************************************************************************)
THEOREM StrangersStayOutHolds == Spec => []StrangersStayOut
<1>1. ASSUME NEW r \in Handshake, NEW o \in Handshake, validate_handshake(r, o) = "Accepted"
      PROVE  o.node_nonce # r.node_nonce
             /\ [o EXCEPT !.node_nonce = 0] = [r EXCEPT !.node_nonce = 0]
    <2>1. /\ r.node_nonce # o.node_nonce /\ r.protocol_version = o.protocol_version
          /\ r.chain_id = o.chain_id /\ r.genesis_hash = o.genesis_hash
          /\ r.econ_hash = o.econ_hash /\ r.pow_params_hash = o.pow_params_hash
        BY <1>1 DEF validate_handshake
    <2>2. /\ DOMAIN o = DOMAIN r
          /\ \A f \in DOMAIN r : f # "node_nonce" => o[f] = r[f]
        BY <2>1 DEF Handshake
    <2>3. \A h : [h EXCEPT !.node_nonce = 0] = [h EXCEPT !["node_nonce"] = 0]
        BY Zenon
    <2>f. \A h \in Handshake : [h EXCEPT !["node_nonce"] = 0]
                                  = [f \in DOMAIN h |-> IF f = "node_nonce" THEN 0 ELSE h[f]]
        BY Zenon
    <2>g. [f \in DOMAIN o |-> IF f = "node_nonce" THEN 0 ELSE o[f]]
            = [f \in DOMAIN r |-> IF f = "node_nonce" THEN 0 ELSE r[f]]
        BY <2>2
    <2>4. [o EXCEPT !["node_nonce"] = 0] = [r EXCEPT !["node_nonce"] = 0]
        BY <2>f, <2>g
    <2> QED BY <2>1, <2>3, <2>4, Zenon
<1>2. GreetInv => StrangersStayOut
    <2> SUFFICES ASSUME GreetInv, NEW n \in Node, Registered(n)
                 PROVE  /\ hello[n].node_nonce # hello[Other(n)].node_nonce
                        /\ [hello[n] EXCEPT !.node_nonce = 0]
                             = [hello[Other(n)] EXCEPT !.node_nonce = 0]
        BY Zenon DEF StrangersStayOut
    <2>1. /\ hello[n] \in Handshake /\ hello[Other(n)] \in Handshake
          /\ validate_handshake(hello[Other(n)], hello[n]) = "Accepted"
        BY Others DEF GreetInv
    <2> QED BY <1>1, <2>1, Zenon
<1> QED BY <1>2, WireInvariant, PTL

-----------------------------------------------------------------------------
\* How sessions end.

\* A message node n can take once the handshake is done, the chains having the blocks
\* K: a request it can serve, an announcement of a block its peer has.
Fine(K, n, m) ==
    /\ m.kind \notin {"Handshake", "Disconnect"}
    /\ m.kind = "GetBlock" => m.blk \in K[n]
    /\ m.kind = "AnnounceBlock" => m.blk \in K[Other(n)]

\* Only the first message to a node that waits for it is a handshake.
Clear(K, a, n, q) ==
    \A i \in DOMAIN q : \/ Fine(K, n, q[i])
                        \/ i = 1 /\ a = "hello" /\ q[i].kind = "Handshake"

Harmless == {"none", "link", "handshake", "message limit"}

(***************************************************************************)
(* What is on its way can be taken by its receiver.                        *)
(***************************************************************************)
FlowInv ==
    /\ DOMAIN known = Node
    /\ \A n \in Node : \A i \in DOMAIN outq[n] : outq[n][i].blk \in known[n]
    /\ \A n \in Node : Clear(known, at[n], n, wire[n])
    /\ at[Listener] = "hello" => /\ at[Dialer] = "hello" /\ wire[Dialer] = <<>>
                                 /\ wire[Listener] = <<Plain("Handshake")>>
    /\ why \in Harmless

\* The chains only gain blocks.
Grows == DOMAIN known = Node /\ DOMAIN known' = Node /\ \A u \in Node : known[u] \subseteq known'[u]

LEMMA KnownGrows ==
    ASSUME DOMAIN known = Node, [Next]_vars
    PROVE  Grows
<1>1. CASE known' = known
    BY <1>1 DEF Grows
<1>2. ASSUME NEW n \in Node, NEW S, known' = [known EXCEPT ![n] = @ \cup S]
      PROVE  Grows
    BY <1>2 DEF Grows
<1>3. CASE Watchdog
    BY <1>2, <1>3 DEF Watchdog, CatchUp, Node
<1>4. CASE DialerHeight
    <2>1. CASE CatchUp(Dialer)
        BY <1>2, <2>1 DEF CatchUp, Node
    <2>2. CASE UNCHANGED chainVars
        BY <1>1, <2>2 DEF chainVars
    <2> QED BY <1>4, <2>1, <2>2, Zenon DEF DialerHeight
<1>5. ASSUME NEW n \in Node, Import(n) \/ Mine(n) \/ Cool(n)
      PROVE  Grows
    <2>1. CASE Import(n)
        BY <1>2, <2>1, Zenon DEF Import
    <2>2. CASE Mine(n)
        BY <1>2, <2>2, Zenon DEF Mine
    <2>3. CASE Cool(n)
        BY <1>1, <2>3 DEF Cool, chainVars
    <2> QED BY <1>5, <2>1, <2>2, <2>3
<1>6. CASE Connect \/ DialerHello \/ Drain \/ Ping \/ ListenerHello \/ ListenerSend \/ Expire \/ LinkDown
           \/ UNCHANGED vars
    BY <1>1, <1>6 DEF Connect, DialerHello, Drain, Ping, ListenerHello, ListenerSend, Expire, LinkDown,
                      vars, chainVars
<1>7. CASE DialerPoll \/ DialerPong \/ ListenerServe \/ ListenerRefresh
    BY <1>1, <1>7 DEF DialerPoll, DialerPong, ListenerServe, ListenerRefresh, Read, chainVars
<1> QED BY <1>3, <1>4, <1>5, <1>6, <1>7 DEF Next, DialerStep, ListenerStep

\* What stays clear: with more blocks, without its first message, with fine messages
\* at its end.
LEMMA ClearGrows ==
    ASSUME NEW K, NEW L, \A u \in Node : K[u] \subseteq L[u], NEW n \in Node
    PROVE  /\ \A m : Fine(K, n, m) => Fine(L, n, m)
           /\ \A a, q : Clear(K, a, n, q) => Clear(L, a, n, q)
<1>1. \A m : Fine(K, n, m) => Fine(L, n, m)
    BY Others DEF Fine
<1> QED BY <1>1, Zenon DEF Clear

LEMMA ClearTail ==
    ASSUME NEW K, NEW a, NEW n, NEW q \in Seq(Message), q # <<>>, Clear(K, a, n, q)
    PROVE  /\ \A c : Clear(K, c, n, Tail(q))
           /\ Fine(K, n, Head(q)) \/ (a = "hello" /\ Head(q).kind = "Handshake")
<1>1. /\ Head(q) = q[1] /\ 1 \in DOMAIN q
      /\ \A i \in DOMAIN Tail(q) : i + 1 \in DOMAIN q /\ Tail(q)[i] = q[i + 1] /\ i + 1 # 1
    BY Heads
<1>2. \A i \in DOMAIN Tail(q) : Fine(K, n, Tail(q)[i])
    BY <1>1, Zenon DEF Clear
<1>3. Fine(K, n, Head(q)) \/ (a = "hello" /\ Head(q).kind = "Handshake")
    <2>1. Fine(K, n, q[1]) \/ (a = "hello" /\ q[1].kind = "Handshake")
        BY <1>1, Zenon DEF Clear
    <2> QED BY <1>1, <2>1, Zenon
<1>4. \A c : Clear(K, c, n, Tail(q))
    BY <1>2 DEF Clear
<1> QED BY <1>3, <1>4

LEMMA ClearConcat ==
    ASSUME NEW K, NEW a, NEW n, NEW q \in Seq(Message), NEW r \in Seq(Message),
           Clear(K, a, n, q), \A i \in DOMAIN r : Fine(K, n, r[i])
    PROVE  Clear(K, a, n, q \o r)
<1>1. \A i \in DOMAIN (q \o r) : \/ i \in DOMAIN q /\ (q \o r)[i] = q[i]
                                 \/ \E j \in DOMAIN r : (q \o r)[i] = r[j]
    <2>1. /\ Len(q) \in Nat /\ Len(r) \in Nat /\ DOMAIN (q \o r) = 1..(Len(q) + Len(r))
          /\ DOMAIN q = 1..Len(q) /\ DOMAIN r = 1..Len(r)
          /\ \A i \in 1..(Len(q) + Len(r)) :
               (q \o r)[i] = IF i <= Len(q) THEN q[i] ELSE r[i - Len(q)]
        BY ConcatProperties
    <2>2. \A i \in 1..(Len(q) + Len(r)) :
            IF i <= Len(q) THEN i \in DOMAIN q ELSE i - Len(q) \in DOMAIN r
        BY <2>1
    <2> QED BY <2>1, <2>2
<1> QED BY <1>1, Zenon DEF Clear

LEMMA ClearAppend ==
    ASSUME NEW K, NEW a, NEW n, NEW q \in Seq(Message), NEW x \in Message,
           Clear(K, a, n, q), Fine(K, n, x)
    PROVE  Clear(K, a, n, q \o <<x>>) /\ Clear(K, a, n, Append(q, x))
<1>1. <<x>> \in Seq(Message) /\ \A i \in DOMAIN <<x>> : Fine(K, n, <<x>>[i])
    <2>1. <<x>> \in Seq(Message) /\ DOMAIN <<x>> = {1} /\ <<x>>[1] = x
        BY Singles
    <2>2. \A i \in DOMAIN <<x>> : <<x>>[i] = x
        BY <2>1
    <2> QED BY <2>1, <2>2, Zenon
<1>2. Append(q, x) = q \o <<x>>
    BY AppendIsConcat
<1>3. Clear(K, a, n, q \o <<x>>)
    BY <1>1, ClearConcat, Zenon
<1> QED BY <1>2, <1>3

\* Whatever a session answers to a message it can take, its peer can take.
LEMMA FineReplies ==
    ASSUME WireInv, NEW n \in Node, wire[n] # <<>>, Fine(known, n, Head(wire[n]))
    PROVE  /\ Fatal(n, Head(wire[n])) = "none"
           /\ Reply(n, Head(wire[n])) \in Seq(Message)
           /\ \A i \in DOMAIN Reply(n, Head(wire[n])) : Fine(known, Other(n), Reply(n, Head(wire[n]))[i])
<1> DEFINE m == Head(wire[n])
<1>1. /\ TravelInv /\ wire[n] \in Seq(Message) /\ m \in Message /\ m = wire[n][1]
      /\ 1 \in DOMAIN wire[n] /\ requested[n] \in Ref
    BY Heads DEF WireInv, TravelInv
<1>2. m = Msg(m.kind, m.blk) /\ m.blk \in Ref
    BY <1>1, Messages
<1>f. Fine(known, n, m)
    OBVIOUS
<1>b. m.kind = "Block" => requested[n] = m.blk /\ requested[n] # NoBlock
    <2> SUFFICES ASSUME m.kind = "Block", ~(requested[n] = m.blk /\ requested[n] # NoBlock) PROVE FALSE
        OBVIOUS
    <2> DEFINE b == m.blk
    <2>1. Count(wire[Other(n)], Msg("GetBlock", b)) + Count(wire[n], Msg("Block", b))
            = IF requested[n] = b /\ b # NoBlock THEN 1 ELSE 0
        BY <1>2, Zenon DEF WireInv, Balance
    <2>2. Count(wire[n], Msg("Block", b)) \in Nat /\ Count(wire[Other(n)], Msg("GetBlock", b)) \in Nat
        BY CountNat, Others DEF WireInv, TravelInv
    <2>3. Count(wire[n], Msg("Block", b)) # 0
        <3>1. m = Msg("Block", b)
            BY <1>2
        <3>2. ~\A i \in DOMAIN wire[n] : wire[n][i] # Msg("Block", b)
            BY <1>1, <3>1
        <3> QED BY <1>1, <3>2, CountNat, Zenon
    <2>4. ~(requested[n] = b /\ b # NoBlock)
        OBVIOUS
    <2>5. (IF requested[n] = b /\ b # NoBlock THEN 1 ELSE 0) = 0
        BY <2>4
    <2> HIDE DEF b, m
    <2> QED BY <2>1, <2>2, <2>3, <2>5
<1> HIDE DEF m
<1>3. Fatal(n, m) = "none"
    BY <1>b, <1>f DEF Fatal, Fine, block_by_hash
<1>4. /\ Reply(n, m) \in Seq(Message)
      /\ \A i \in DOMAIN Reply(n, m) : Fine(known, Other(n), Reply(n, m)[i])
    <2> DEFINE r == Reply(n, m)
               Goal == r \in Seq(Message) /\ \A i \in DOMAIN r : Fine(known, Other(n), r[i])
    <2>1. CASE r = <<>>
        BY <2>1, Singles, Zenon
    <2>2. ASSUME NEW x \in Message, r = <<x>>, Fine(known, Other(n), x) PROVE Goal
        <3> HIDE DEF r
        <3>1. r \in Seq(Message) /\ DOMAIN r = {1} /\ r[1] = x
            BY <2>2, Singles
        <3>2. \A i \in DOMAIN r : r[i] = x
            BY <3>1
        <3> QED BY <2>2, <3>1, <3>2, Zenon
    <2>3. \/ r = <<>>
          \/ m.kind = "AnnounceBlock" /\ m.blk \in Seq(Node) /\ r = <<Msg("GetBlock", m.blk)>>
          \/ m.blk \in Seq(Node) /\ r = <<Msg("Block", m.blk)>>
          \/ r = <<Msg("Height", tip[n])>> \/ r = <<Msg("Pong", NoBlock)>>
        BY <1>1, <1>3, Answers, Zenon
    <2>4. tip[n] \in Ref /\ NoBlock \in Ref
        BY <1>1, NoBlockIsNone DEF TravelInv, Ref
    <2>5. /\ Msg("Height", tip[n]) \in Message /\ Msg("Pong", NoBlock) \in Message
          /\ \A c \in Seq(Node) : Msg("GetBlock", c) \in Message /\ Msg("Block", c) \in Message
        BY <2>4, Messages DEF Kinds
    <2>6. /\ Fine(known, Other(n), Msg("Height", tip[n])) /\ Fine(known, Other(n), Msg("Pong", NoBlock))
          /\ \A c : Fine(known, Other(n), Msg("Block", c))
        BY Messages DEF Fine
    <2>7. m.kind = "AnnounceBlock" => Fine(known, Other(n), Msg("GetBlock", m.blk))
        BY <1>f, Messages DEF Fine
    <2> HIDE DEF r
    <2> QED BY <2>1, <2>2, <2>3, <2>5, <2>6, <2>7, Zenon DEF r
<1> QED BY <1>3, <1>4 DEF m

\* The queued announcements with more blocks known.
LEMMA QueuesKept ==
    ASSUME FlowInv, Grows, outq' = outq
    PROVE  \A n \in Node : \A i \in DOMAIN outq'[n] : outq'[n][i].blk \in known'[n]
BY DEF FlowInv, Grows

\* A closed connection has nothing left to take.
LEMMA FlowClosed ==
    ASSUME FlowInv, Grows, NEW reason \in Harmless, Close(reason)
    PROVE  FlowInv'
<1>1. \A n \in Node : wire'[n] = <<>> /\ outq'[n] = <<>> /\ at'[n] = "down"
    BY DEF Close
<1>2. \A n \in Node : Clear(known', at'[n], n, wire'[n])
    BY <1>1, Singles DEF Clear
<1>3. at'[Listener] # "hello" /\ why' \in Harmless /\ DOMAIN known' = Node
    BY <1>1 DEF Close, Node, Grows
<1>4. \A n \in Node : \A i \in DOMAIN outq'[n] : outq'[n][i].blk \in known'[n]
    BY <1>1, Singles
<1> QED BY <1>2, <1>3, <1>4, Zenon DEF FlowInv

\* A step that leaves the session alone.
LEMMA FlowSilent ==
    ASSUME FlowInv, Grows, UNCHANGED <<wire, at, outq, why>>
    PROVE  FlowInv'
<1>1. \A n \in Node : Clear(known', at'[n], n, wire'[n])
    BY ClearGrows DEF FlowInv, Grows
<1> QED BY <1>1, QueuesKept DEF FlowInv, Grows

\* A session reads a message.
LEMMA FlowRead ==
    ASSUME WireInv, FlowInv, NEW n \in Node, wire[n] # <<>>, NEW place, NEW budget,
           Read(n, place, budget), at[n] # "hello", place # "hello", at[Listener] # "hello"
    PROVE  FlowInv'
<1> DEFINE m == Head(wire[n])
           o == Other(n)
<1>1. /\ wire \in [Node -> Seq(Message)] /\ wire[n] \in Seq(Message) /\ wire[o] \in Seq(Message)
      /\ at \in [Node -> Place]
      /\ Clear(known, at[n], n, wire[n]) /\ Clear(known, at[o], o, wire[o])
      /\ known' = known /\ o \in Node /\ o # n /\ Node = {n, o}
    BY Others DEF WireInv, TravelInv, FlowInv, Read, chainVars
<1>2. Fine(known, n, m) /\ \A c : Clear(known, c, n, Tail(wire[n]))
    BY <1>1, ClearTail
<1>3. /\ Fatal(n, m) = "none" /\ Reply(n, m) \in Seq(Message)
      /\ \A i \in DOMAIN Reply(n, m) : Fine(known, o, Reply(n, m)[i])
    BY <1>2, FineReplies, Zenon
<1>g. Grows
    BY <1>1 DEF Grows, FlowInv
<1>4. CASE place = "gave up"
    <2>1. Close("message limit")
        BY <1>3, <1>4, Zenon DEF Read
    <2> QED BY <1>g, <2>1, FlowClosed DEF Harmless
<1>5. CASE place # "gave up"
    <2>1. /\ wire' = [wire EXCEPT ![n] = Tail(@), ![o] = @ \o Reply(n, m)]
          /\ at' = [at EXCEPT ![n] = place] /\ UNCHANGED <<outq, why>>
        BY <1>3, <1>5, Zenon DEF Read
    <2> HIDE DEF m, o
    <2>2. Clear(known, at[o], o, wire[o] \o Reply(n, m))
        BY <1>1, <1>3, ClearConcat
    <2>3. wire'[n] = Tail(wire[n]) /\ wire'[o] = wire[o] \o Reply(n, m) /\ at'[o] = at[o]
        BY <1>1, <2>1
    <2>4. \A u \in Node : Clear(known', at'[u], u, wire'[u])
        BY <1>1, <1>2, <2>2, <2>3, Zenon
    <2>5. at'[Listener] # "hello"
        BY <1>1, <2>1 DEF Node
    <2>6. why' \in Harmless /\ DOMAIN known' = Node
        BY <1>1, <2>1 DEF FlowInv
    <2> QED BY <1>g, <2>1, <2>4, <2>5, <2>6, QueuesKept DEF FlowInv
<1> QED BY <1>4, <1>5

LEMMA PlainFine ==
    ASSUME NEW K, NEW n, NEW k \in {"GetHeight", "Ping"}
    PROVE  Fine(K, n, Plain(k))
<1>1. Plain(k).kind = k
    BY PlainMessages
<1> QED BY <1>1 DEF Fine

\* A step that changes the wire of one node, and leaves the listener out of the
\* handshake.
LEMMA FlowMoved ==
    ASSUME WireInv, FlowInv, Grows, NEW n \in Node, NEW q, wire' = [wire EXCEPT ![n] = q],
           Clear(known, at'[n], n, q), at'[Listener] # "hello",
           at'[Other(n)] = at[Other(n)] \/ at[Other(n)] # "hello",
           why' = why,
           \A u \in Node : \A i \in DOMAIN outq'[u] : outq'[u][i].blk \in known'[u]
    PROVE  FlowInv'
<1>1. /\ wire \in [Node -> Seq(Message)] /\ Other(n) \in Node /\ Other(n) # n /\ Node = {n, Other(n)}
      /\ DOMAIN known' = Node /\ why' \in Harmless /\ \A u \in Node : known[u] \subseteq known'[u]
    BY Others DEF WireInv, TravelInv, FlowInv, Grows
<1>2. wire'[n] = q /\ wire'[Other(n)] = wire[Other(n)]
    BY <1>1
<1>3. Clear(known', at'[n], n, wire'[n])
    BY <1>1, <1>2, ClearGrows, Zenon
<1>4. Clear(known', at'[Other(n)], Other(n), wire'[Other(n)])
    <2>1. Clear(known, at[Other(n)], Other(n), wire[Other(n)])
        BY <1>1, Zenon DEF FlowInv
    <2>2. Clear(known, at'[Other(n)], Other(n), wire'[Other(n)])
        BY <1>2, <2>1, Zenon DEF Clear
    <2> QED BY <1>1, <2>2, ClearGrows, Zenon
<1>5. \A u \in Node : Clear(known', at'[u], u, wire'[u])
    BY <1>1, <1>3, <1>4, Zenon
<1> QED BY <1>1, <1>5, Zenon DEF FlowInv

LEMMA FlowConnect ==
    ASSUME WireInv, FlowInv, Connect, Grows
    PROVE  FlowInv'
<1>1. /\ at' = [n \in Node |-> "hello"] /\ wire' = [wire EXCEPT ![Listener] = <<Plain("Handshake")>>]
      /\ at[Dialer] = "down" /\ UNCHANGED <<outq, why>>
      /\ QuietInv /\ wire \in [Node -> Seq(Message)]
      /\ Dialer \in Node /\ Listener \in Node /\ Dialer # Listener
    BY WireAssumption DEF Connect, WireInv, TravelInv, Node
<1>2. wire'[Dialer] = <<>> /\ wire'[Listener] = <<Plain("Handshake")>> /\ at'[Dialer] = "hello"
    BY <1>1 DEF QuietInv
<1>3. Plain("Handshake").kind = "Handshake" /\ Plain("Handshake") \in Message
    BY PlainMessages
<1>4. Clear(known', "hello", Listener, <<Plain("Handshake")>>)
    <2> DEFINE x == Plain("Handshake")
    <2>1. x \in Message /\ x.kind = "Handshake"
        BY <1>3
    <2> HIDE DEF x
    <2>2. \A i \in DOMAIN <<x>> : i = 1 /\ <<x>>[i] = x
        BY <2>1, Singles
    <2>3. Clear(known', "hello", Listener, <<x>>)
        BY <2>1, <2>2, Zenon DEF Clear
    <2> QED BY <2>3 DEF x
<1>5. Clear(known', "hello", Dialer, <<>>)
    BY Singles DEF Clear
<1>6. \A n \in Node : at'[n] = "hello"
    BY <1>1
<1>7. \A n \in Node : Clear(known', at'[n], n, wire'[n])
    BY <1>2, <1>4, <1>5, <1>6, Zenon DEF Node
<1>8. why' \in Harmless /\ DOMAIN known' = Node
    BY <1>1 DEF FlowInv, Grows
<1> QED BY <1>1, <1>2, <1>7, <1>8, QueuesKept, Zenon DEF FlowInv

LEMMA FlowDialer ==
    ASSUME WireInv, FlowInv, DialerHello \/ Drain \/ DialerHeight \/ Ping, Grows
    PROVE  FlowInv'
<1>1. /\ wire \in [Node -> Seq(Message)] /\ wire[Dialer] \in Seq(Message)
      /\ wire[Listener] \in Seq(Message) /\ at \in [Node -> Place]
      /\ outq \in [Node -> Seq(Announcement)] /\ outq[Dialer] \in Seq(Announcement)
      /\ Dialer \in Node /\ Listener \in Node /\ Dialer # Listener
      /\ Other(Dialer) = Listener /\ Other(Listener) = Dialer
      /\ Clear(known, at[Dialer], Dialer, wire[Dialer])
      /\ Clear(known, at[Listener], Listener, wire[Listener])
    BY WireAssumption DEF WireInv, TravelInv, Node, Other, FlowInv
<1>2. ASSUME NEW place \in Place, place # "hello", at' = [at EXCEPT ![Dialer] = place],
             wire[Dialer] # <<>>, wire' = [wire EXCEPT ![Dialer] = Tail(@)], UNCHANGED <<outq, why>>
      PROVE  FlowInv'
    <2>1. at'[Dialer] = place /\ at'[Listener] = at[Listener] /\ at[Listener] # "hello"
        BY <1>1, <1>2 DEF FlowInv
    <2>2. Clear(known, at'[Dialer], Dialer, Tail(wire[Dialer]))
        BY <1>1, <1>2, ClearTail
    <2>3. \A u \in Node : \A i \in DOMAIN outq'[u] : outq'[u][i].blk \in known'[u]
        BY <1>2, QueuesKept
    <2> QED BY <1>1, <1>2, <2>1, <2>2, <2>3, FlowMoved
<1>3. ASSUME NEW place \in Place, place # "hello", at' = [at EXCEPT ![Dialer] = place], at[Dialer] # "hello",
             NEW q, wire' = [wire EXCEPT ![Listener] = q], Clear(known, at[Listener], Listener, q),
             why' = why,
             \A u \in Node : \A i \in DOMAIN outq'[u] : outq'[u][i].blk \in known'[u]
      PROVE  FlowInv'
    <2>1. at'[Dialer] = place /\ at'[Listener] = at[Listener] /\ at[Listener] # "hello"
        BY <1>1, <1>3 DEF FlowInv
    <2>2. Clear(known, at'[Listener], Listener, q)
        BY <1>3, <2>1
    <2> QED BY <1>1, <1>3, <2>1, <2>2, FlowMoved
<1>4. CASE DialerHello
    <2>1. CASE Close("handshake")
        BY <2>1, FlowClosed DEF Harmless
    <2> QED BY <1>2, <1>4, <2>1 DEF DialerHello, Next1, Place
<1>5. CASE DialerHeight
    BY <1>2, <1>5 DEF DialerHeight, Next1, Place
<1>6. CASE Ping
    <2>1. Clear(known, at[Listener], Listener, Append(wire[Listener], Plain("Ping")))
        BY <1>1, PlainMessages, PlainFine, ClearAppend
    <2> QED BY <1>3, <1>6, <2>1, QueuesKept DEF Ping, Place
<1>7. CASE Drain
    <2> DEFINE p == wire[Listener]
               r == outq[Dialer]
               h == Plain("GetHeight")
    <2>1. \A i \in DOMAIN r : r[i] \in Announcement /\ r[i].blk \in known[Dialer]
        <3>1. \A i \in DOMAIN r : r[i] \in Announcement
            BY <1>1
        <3> QED BY <1>1, <3>1 DEF FlowInv
    <2>2. /\ wire' = [wire EXCEPT ![Listener] = (p \o r) \o <<h>>] /\ why' = why
          /\ outq' = [outq EXCEPT ![Dialer] = <<>>] /\ at' = [at EXCEPT ![Dialer] = "poll"]
          /\ at[Dialer] = "drain"
        BY <1>7 DEF Drain
    <2>3. h \in Message /\ Fine(known, Listener, h) /\ p \in Seq(Message) /\ r \in Seq(Announcement)
        BY <1>1, PlainMessages, PlainFine
    <2>4. \A u \in Node : \A i \in DOMAIN outq'[u] : outq'[u][i].blk \in known'[u]
        <3>1. outq'[Dialer] = <<>> /\ outq'[Listener] = outq[Listener]
            BY <1>1, <2>2
        <3>2. \A i \in DOMAIN outq'[Dialer] : FALSE
            BY <3>1, Singles
        <3>3. \A i \in DOMAIN outq[Listener] : outq[Listener][i].blk \in known'[Listener]
            BY <1>1 DEF FlowInv, Grows
        <3> QED BY <3>1, <3>2, <3>3, Zenon DEF Node
    <2>c. Clear(known, at[Listener], Listener, p)
        BY <1>1
    <2> HIDE DEF p, r, h
    <2>5. r \in Seq(Message) /\ \A i \in DOMAIN r : Fine(known, Listener, r[i])
        <3>1. r \in Seq(Message)
            BY <2>3 DEF Announcement
        <3> QED BY <1>1, <2>1, <3>1 DEF Announcement, Fine
    <2>6. p \o r \in Seq(Message) /\ Clear(known, at[Listener], Listener, p \o r)
        BY <2>3, <2>5, <2>c, ClearConcat, ConcatProperties
    <2>7. Clear(known, at[Listener], Listener, (p \o r) \o <<h>>)
        BY <2>3, <2>6, ClearAppend
    <2> QED BY <1>3, <2>2, <2>4, <2>7 DEF Place
<1> QED BY <1>4, <1>5, <1>6, <1>7

LEMMA FlowListener ==
    ASSUME WireInv, FlowInv, ListenerHello \/ ListenerRefresh \/ ListenerSend, Grows
    PROVE  FlowInv'
<1>1. /\ wire \in [Node -> Seq(Message)] /\ wire[Dialer] \in Seq(Message)
      /\ wire[Listener] \in Seq(Message) /\ at \in [Node -> Place]
      /\ outq \in [Node -> Seq(Announcement)] /\ outq[Listener] \in Seq(Announcement)
      /\ Dialer \in Node /\ Listener \in Node /\ Dialer # Listener
      /\ Other(Dialer) = Listener /\ Other(Listener) = Dialer
      /\ Clear(known, at[Dialer], Dialer, wire[Dialer])
      /\ Clear(known, at[Listener], Listener, wire[Listener])
    BY WireAssumption DEF WireInv, TravelInv, Node, Other, FlowInv
<1>2. CASE ListenerHello
    <2> DEFINE h == Plain("Handshake")
               g == Plain("GetHeight")
               r == IF Advertises THEN <<g>> ELSE <<>>
    <2>1. /\ at[Listener] = "hello" /\ at[Dialer] = "hello" /\ wire[Dialer] = <<>>
          /\ wire[Listener] = <<h>>
        BY <1>2, Zenon DEF ListenerHello, FlowInv
    <2>2. /\ h.kind = "Handshake" /\ h \in Message /\ g \in Message /\ Fine(known, Dialer, g)
        BY PlainMessages, PlainFine
    <2>3. is_pre_handshake(Head(wire[Listener]))
        <3>1. Head(<<h>>) = h
            OBVIOUS
        <3> QED BY <2>1, <2>2, <3>1 DEF is_pre_handshake
    <2>4. CASE Close("handshake")
        BY <2>4, FlowClosed DEF Harmless
    <2>5. CASE ~Close("handshake")
        <3>1. /\ at' = [at EXCEPT ![Listener] = IF Advertises THEN "refresh" ELSE "serve"]
              /\ wire' = [wire EXCEPT ![Listener] = Tail(@), ![Dialer] = (@ \o <<h>>) \o r]
              /\ UNCHANGED <<outq, why>>
            BY <1>2, <2>3, <2>5, Zenon DEF ListenerHello
        <3>2. /\ wire'[Listener] = Tail(wire[Listener]) /\ wire'[Dialer] = (wire[Dialer] \o <<h>>) \o r
              /\ at'[Dialer] = "hello" /\ at'[Listener] # "hello"
            BY <1>1, <2>1, <3>1
        <3> HIDE DEF h, g
        <3>3. r \in Seq(Message) /\ \A i \in DOMAIN r : Fine(known, Dialer, r[i])
            <4>1. CASE Advertises
                <5>1. r = <<g>> /\ DOMAIN <<g>> = {1} /\ <<g>>[1] = g /\ <<g>> \in Seq(Message)
                    BY <4>1, <2>2, Singles
                <5>2. \A i \in DOMAIN <<g>> : <<g>>[i] = g
                    BY <5>1
                <5> QED BY <2>2, <5>1, <5>2, Zenon
            <4>2. CASE ~Advertises
                BY <4>2, Singles
            <4> QED BY <4>1, <4>2
        <3> HIDE DEF r
        <3>4. wire[Dialer] \o <<h>> = <<h>> /\ <<h>> \in Seq(Message) /\ DOMAIN <<h>> = {1} /\ <<h>>[1] = h
            BY <2>1, <2>2, Singles, ConcatEmptySeq
        <3>5. Clear(known, "hello", Dialer, <<h>>)
            <4>1. \A i \in DOMAIN <<h>> : i = 1 /\ <<h>>[i] = h
                BY <3>4
            <4> QED BY <2>2, <4>1, Zenon DEF Clear
        <3>6. Clear(known, at'[Dialer], Dialer, wire'[Dialer])
            <4>1. Clear(known, "hello", Dialer, <<h>> \o r)
                BY <3>3, <3>4, <3>5, ClearConcat, Zenon
            <4> QED BY <3>2, <3>4, <4>1, Zenon
        <3>7. Clear(known, at'[Listener], Listener, wire'[Listener])
            <4>1. wire[Listener] # <<>>
                BY <1>2 DEF ListenerHello, Next1
            <4>2. \A c : Clear(known, c, Listener, Tail(wire[Listener]))
                BY <1>1, <4>1, ClearTail
            <4> QED BY <3>2, <4>2, Zenon
        <3>8. \A u \in Node : Clear(known', at'[u], u, wire'[u])
            <4>1. \A u \in Node : known[u] \subseteq known'[u]
                BY DEF Grows
            <4>2. \A a, q : \A u \in Node : Clear(known, a, u, q) => Clear(known', a, u, q)
                BY <4>1, ClearGrows, Zenon
            <4>3. Clear(known', at'[Dialer], Dialer, wire'[Dialer])
                BY <1>1, <3>6, <4>2, Zenon
            <4>4. Clear(known', at'[Listener], Listener, wire'[Listener])
                BY <1>1, <3>7, <4>2, Zenon
            <4> QED BY <4>3, <4>4, Zenon DEF Node
        <3>9. why' \in Harmless /\ DOMAIN known' = Node
            BY <3>1 DEF FlowInv, Grows
        <3> QED BY <3>1, <3>2, <3>8, <3>9, QueuesKept, Zenon DEF FlowInv
    <2> QED BY <2>4, <2>5
<1>3. CASE ListenerRefresh
    <2>1. at[Listener] = "refresh" /\ wire[Listener] # <<>>
        BY <1>3 DEF ListenerRefresh, Next1
    <2>2. CASE Head(wire[Listener]).kind \in {"Height", "GetHeight", "Ping"}
        <3>p. PICK place \in {"serve", "refresh"} : \E budget : Read(Listener, place, budget)
            BY <1>3, <2>2, Zenon DEF ListenerRefresh
        <3>1. PICK budget : Read(Listener, place, budget)
            BY <3>p
        <3> QED BY <1>1, <2>1, <3>1, FlowRead
    <2>3. CASE Head(wire[Listener]).kind \notin {"Height", "GetHeight", "Ping"}
        <3>1. /\ wire' = [wire EXCEPT ![Listener] = Tail(@)] /\ at' = [at EXCEPT ![Listener] = "serve"]
              /\ UNCHANGED <<outq, why>>
            BY <1>3, <2>3, Zenon DEF ListenerRefresh
        <3>2. at'[Listener] = "serve" /\ at'[Dialer] = at[Dialer]
            BY <1>1, <3>1
        <3>3. Clear(known, at'[Listener], Listener, Tail(wire[Listener]))
            BY <1>1, <2>1, ClearTail
        <3> QED BY <1>1, <3>1, <3>2, <3>3, QueuesKept, FlowMoved
    <2> QED BY <2>2, <2>3
<1>4. CASE ListenerSend
    <2> DEFINE x == Head(outq[Listener])
    <2>1. /\ at[Listener] = "serve" /\ outq[Listener] # <<>> /\ at' = at /\ why' = why
          /\ wire' = [wire EXCEPT ![Dialer] = Append(@, x)]
          /\ outq' = [outq EXCEPT ![Listener] = Tail(@)]
        BY <1>4 DEF ListenerSend
    <2>2. /\ x \in Announcement /\ x = outq[Listener][1] /\ 1 \in DOMAIN outq[Listener]
          /\ \A i \in DOMAIN Tail(outq[Listener]) :
               i + 1 \in DOMAIN outq[Listener] /\ Tail(outq[Listener])[i] = outq[Listener][i + 1]
        BY <1>1, <2>1, Heads, Zenon
    <2>3. x \in Message /\ Fine(known, Dialer, x)
        <3>1. x.blk \in known[Listener]
            BY <1>1, <2>2 DEF FlowInv
        <3> QED BY <1>1, <2>2, <3>1 DEF Announcement, Fine
    <2>4. Clear(known, at'[Dialer], Dialer, Append(wire[Dialer], x))
        <3> HIDE DEF x
        <3> QED BY <1>1, <2>1, <2>3, ClearAppend
    <2>5. \A u \in Node : \A i \in DOMAIN outq'[u] : outq'[u][i].blk \in known'[u]
        <3>1. outq'[Listener] = Tail(outq[Listener]) /\ outq'[Dialer] = outq[Dialer]
            BY <1>1, <2>1
        <3>2. \A u \in Node : \A i \in DOMAIN outq[u] : outq[u][i].blk \in known'[u]
            BY DEF FlowInv, Grows
        <3>3. \A i \in DOMAIN Tail(outq[Listener]) : Tail(outq[Listener])[i].blk \in known'[Listener]
            BY <1>1, <2>2, <3>2, Zenon
        <3> QED BY <1>1, <3>1, <3>2, <3>3, Zenon DEF Node
    <2> QED BY <1>1, <2>1, <2>4, <2>5, FlowMoved
<1> QED BY <1>2, <1>3, <1>4

LEMMA FlowMine ==
    ASSUME WireInv, FlowInv, Grows, NEW n \in Node, Mine(n)
    PROVE  FlowInv'
<1> DEFINE b == Append(tip[n], n)
<1>1. /\ known' = [known EXCEPT ![n] = @ \cup {b}] /\ UNCHANGED <<wire, at, why>>
      /\ outq' = [outq EXCEPT ![n] = Append(@, Msg("AnnounceBlock", b))] \/ outq' = outq
    BY Zenon DEF Mine
<1>2. outq \in [Node -> Seq(Announcement)] /\ outq[n] \in Seq(Announcement) /\ tip[n] \in Seq(Node)
    BY DEF WireInv, TravelInv
<1>3. Msg("AnnounceBlock", b) \in Announcement /\ Msg("AnnounceBlock", b).blk = b
    <2>1. b \in Seq(Node)
        BY <1>2
    <2> HIDE DEF b
    <2> QED BY <2>1, Messages DEF Announcement, Kinds
<1> HIDE DEF b
<1>4. b \in known'[n]
    BY <1>1 DEF Grows
<1>5. \A u \in Node : \A i \in DOMAIN outq'[u] : outq'[u][i].blk \in known'[u]
    <2>1. CASE outq' = outq
        BY <2>1, QueuesKept
    <2>2. CASE outq' = [outq EXCEPT ![n] = Append(@, Msg("AnnounceBlock", b))]
        <3> DEFINE x == Msg("AnnounceBlock", b)
        <3>1. \A u \in Node : \A i \in DOMAIN outq[u] : outq[u][i].blk \in known'[u]
            BY DEF FlowInv, Grows
        <3>2. x \in Announcement /\ x.blk = b
            BY <1>3
        <3>3. \A u \in Node : outq'[u] = IF u = n THEN Append(outq[n], x) ELSE outq[u]
            BY <1>2, <2>2, Zenon
        <3> HIDE DEF x
        <3>4. \A i \in DOMAIN Append(outq[n], x) :
                (i \in DOMAIN outq[n] /\ Append(outq[n], x)[i] = outq[n][i]) \/ Append(outq[n], x)[i] = x
            BY <1>2, <3>2, AppendProperties
        <3>5. \A i \in DOMAIN Append(outq[n], x) : Append(outq[n], x)[i].blk \in known'[n]
            BY <1>4, <3>1, <3>2, <3>4, Zenon
        <3> QED BY <3>1, <3>3, <3>5, Zenon
    <2> QED BY <1>1, <2>1, <2>2
<1>6. \A u \in Node : Clear(known', at'[u], u, wire'[u])
    <2>1. \A u \in Node : known[u] \subseteq known'[u] /\ Clear(known, at[u], u, wire[u])
        BY DEF Grows, FlowInv
    <2>2. \A a, q : \A u \in Node : Clear(known, a, u, q) => Clear(known', a, u, q)
        BY <2>1, ClearGrows, Zenon
    <2>3. \A u \in Node : Clear(known', at[u], u, wire[u])
        BY <2>1, <2>2, Zenon
    <2> QED BY <1>1, <2>3, Zenon
<1> QED BY <1>1, <1>5, <1>6 DEF FlowInv, Grows

LEMMA FlowKept ==
    ASSUME WireInv, FlowInv, [Next]_vars
    PROVE  FlowInv'
<1>g. Grows
    BY KnownGrows DEF FlowInv
<1>0. Dialer \in Node /\ Listener \in Node /\ Dialer # Listener
    BY WireAssumption DEF Node
<1>1. CASE DialerPoll \/ DialerPong
    <2>p. PICK place \in {"gave up", "poll", "drain"} : \E budget : Read(Dialer, place, budget)
        BY <1>1, Zenon DEF DialerPoll, DialerPong
    <2>1. PICK budget : Read(Dialer, place, budget)
        BY <2>p
    <2>2. at[Dialer] # "hello" /\ wire[Dialer] # <<>> /\ at[Listener] # "hello"
        BY <1>1 DEF DialerPoll, DialerPong, Next1, FlowInv
    <2> QED BY <1>0, <2>1, <2>2, FlowRead
<1>2. CASE ListenerServe
    BY <1>0, <1>2, FlowRead DEF ListenerServe, Next1
<1>3. CASE LinkDown
    BY <1>g, <1>3, FlowClosed DEF LinkDown, Harmless
<1>4. CASE Watchdog \/ Expire \/ UNCHANGED vars
    BY <1>g, <1>4, FlowSilent DEF Watchdog, Expire, vars, sessionVars
<1>5. ASSUME NEW n \in Node, Import(n) \/ Mine(n) \/ Cool(n)
      PROVE  FlowInv'
    <2>1. CASE Import(n) \/ Cool(n)
        BY <1>g, <2>1, FlowSilent DEF Import, Cool, sessionVars
    <2> QED BY <1>5, <1>g, <2>1, FlowMine
<1> QED BY <1>1, <1>2, <1>3, <1>4, <1>5, <1>g, FlowConnect, FlowDialer, FlowListener
       DEF Next, DialerStep, ListenerStep

\* Whatever is on its way can be taken, in every reachable state.
LEMMA FlowInvariant == Spec => []FlowInv
<1>1. Init => FlowInv
    <2> SUFFICES ASSUME Init PROVE FlowInv
        OBVIOUS
    <2>1. /\ \A n \in Node : wire[n] = <<>> /\ outq[n] = <<>> /\ at[n] = "down"
          /\ DOMAIN known = Node /\ why = "none"
        BY DEF Init
    <2>2. \A n \in Node : Clear(known, at[n], n, wire[n])
        BY <2>1, Singles DEF Clear
    <2>3. \A n \in Node : \A i \in DOMAIN outq[n] : outq[n][i].blk \in known[n]
        BY <2>1, Singles
    <2> QED BY <2>1, <2>2, <2>3 DEF FlowInv, Harmless, Node
<1>2. (WireInv /\ GreetInv) /\ FlowInv /\ [Next]_vars => FlowInv'
    BY FlowKept
<1> QED BY <1>1, <1>2, WireInvariant, PTL DEF Spec

(***************************************************************************)
(* SessionSound up to the budget of poll_peer_height: a session between    *)
(* two nodes that run this program ends with the connection, with the      *)
(* handshake, or with a poll that ran out of messages, never over a        *)
(* message the peer cannot take, for every size of the queues and every    *)
(* number of blocks.                                                       *)
(***************************************************************************)
THEOREM NoProtocolFault == Spec => [](why \in Harmless)
<1>1. FlowInv => why \in Harmless
    BY DEF FlowInv
<1> QED BY <1>1, FlowInvariant, PTL

-----------------------------------------------------------------------------
\* How much the dialer has to read before the Height it asked for.

\* The messages of some kinds in a queue.
Tally(q, K) == Cardinality({i \in DOMAIN q : q[i].kind \in K})

\* No message of the kinds C comes after one of the kinds E.
Follows(q, E, C) ==
    \A i, j \in DOMAIN q : i < j /\ q[i].kind \in E => q[j].kind \notin C

Requests == {"GetBlock", "Block"}
Chatter == {"Handshake", "Disconnect", "GetHeight", "Ping", "Pong"}

\* What may still reach the dialer on account of blocks, with the wires W, the queues
\* Q and m blocks mined: an announcement may lead to a block, and one it sends to a
\* request.
Load(W, Q, m) ==
    2 * Tally(W[Dialer], {"AnnounceBlock"}) + Tally(W[Dialer], Requests)
      + Tally(W[Listener], {"AnnounceBlock", "GetBlock"})
      + 2 * Len(Q[Listener]) + Len(Q[Dialer]) + 2 * (MaxBlocks - m)

\* And on account of the rest, the Height aside.
Chat(W) == Tally(W[Dialer], Chatter) + Tally(W[Listener], {"Ping"})

\* The Height on its way, or asked for.
Ends(W) == Tally(W[Dialer], {"Height"}) + Tally(W[Listener], {"GetHeight"})

\* What is none of the blocks' business reaches the dialer before the Height.
InOrder(W) ==
    /\ Follows(W[Dialer], {"Height"}, Chatter)
    /\ Follows(W[Listener], {"GetHeight"}, {"Ping"})
    /\ Tally(W[Dialer], {"Height"}) # 0 => Tally(W[Listener], {"Ping"}) = 0

Allowed(place) == IF place = "hello" THEN 2 ELSE IF place = "sleep" THEN 0 ELSE 1
Awaited(place) == IF place = "poll" THEN 1 ELSE 0

GaveUp(reason) == reason = "message limit"

(***************************************************************************)
(* While the dialer polls, what it may have to read before the Height is   *)
(* less than what it may still read.                                       *)
(***************************************************************************)
PollInv ==
    /\ mined \in 0..MaxBlocks
    /\ Load(wire, outq, mined) <= 2 * MaxBlocks
    /\ Chat(wire) <= Allowed(at[Dialer]) /\ Ends(wire) <= Awaited(at[Dialer])
    /\ InOrder(wire)
    /\ at[Dialer] = "poll" =>
         left[Dialer] \in Nat /\ left[Dialer] > Load(wire, outq, mined) + Chat(wire)
    /\ DOMAIN left = Node /\ ~GaveUp(why)

LEMMA TallyNat ==
    ASSUME NEW q \in Seq(Message), NEW K
    PROVE  /\ IsFiniteSet({i \in DOMAIN q : q[i].kind \in K}) /\ Tally(q, K) \in Nat
           /\ Tally(q, K) = 0 <=> \A i \in DOMAIN q : q[i].kind \notin K
<1>1. IsFiniteSet(DOMAIN q)
    BY FS_Interval
<1>2. IsFiniteSet({i \in DOMAIN q : q[i].kind \in K})
    BY <1>1, FS_Subset
<1> QED BY <1>2, FS_CardinalityType, FS_EmptySet DEF Tally

LEMMA TallyEmpty == \A K : Tally(<<>>, K) = 0
<1> SUFFICES ASSUME NEW K PROVE Tally(<<>>, K) = 0
    OBVIOUS
<1>1. {i \in DOMAIN <<>> : <<>>[i].kind \in K} = {}
    OBVIOUS
<1> QED BY <1>1, FS_EmptySet DEF Tally

\* Two queues, one behind the other.
LEMMA TallyConcat ==
    ASSUME NEW q \in Seq(Message), NEW r \in Seq(Message), NEW K
    PROVE  Tally(q \o r, K) = Tally(q, K) + Tally(r, K)
<1> DEFINE s == q \o r
           A == {i \in DOMAIN q : q[i].kind \in K}
           B == {i \in DOMAIN r : r[i].kind \in K}
           C == {i \in DOMAIN s : s[i].kind \in K}
           D == {i \in C : i > Len(q)}
           f == [i \in B |-> i + Len(q)]
<1>1. /\ s \in Seq(Message) /\ Len(q) \in Nat /\ Len(r) \in Nat
      /\ DOMAIN s = 1..(Len(q) + Len(r)) /\ DOMAIN q = 1..Len(q) /\ DOMAIN r = 1..Len(r)
      /\ \A i \in 1..(Len(q) + Len(r)) : s[i] = IF i <= Len(q) THEN q[i] ELSE r[i - Len(q)]
    BY ConcatProperties
<1> HIDE DEF s
<1>2. IsFiniteSet(A) /\ IsFiniteSet(B) /\ IsFiniteSet(C)
    BY <1>1, TallyNat
<1>3. IsFiniteSet(D)
    BY <1>2, FS_Subset
<1>4. f \in Bijection(B, D)
    <2>1. ASSUME NEW i \in B PROVE i + Len(q) \in D /\ i \in Nat
        <3>1. i \in 1..Len(r) /\ r[i].kind \in K
            BY <1>1
        <3>2. /\ i + Len(q) \in 1..(Len(q) + Len(r)) /\ ~(i + Len(q) <= Len(q)) /\ i + Len(q) > Len(q)
              /\ (i + Len(q)) - Len(q) = i /\ i \in Nat
            BY <1>1, <3>1
        <3>3. s[i + Len(q)] = r[i]
            BY <1>1, <3>2
        <3> QED BY <1>1, <3>1, <3>2, <3>3, Zenon
    <2>2. \A j \in D : j - Len(q) \in B /\ j \in Nat
        BY <1>1
    <2>3. f \in [B -> D]
        BY <2>1
    <2>4. f \in Injection(B, D)
        BY <1>1, <2>1, <2>3 DEF Injection, IsInjective
    <2>5. \A j \in D : \E i \in B : f[i] = j
        <3> SUFFICES ASSUME NEW j \in D PROVE f[j - Len(q)] = j /\ j - Len(q) \in B
            OBVIOUS
        <3> QED BY <1>1, <2>2
    <2>6. f \in Surjection(B, D)
        BY <2>3, <2>5 DEF Surjection
    <2> QED BY <2>4, <2>6 DEF Bijection
<1>5. C = A \cup D /\ A \cap D = {}
    BY <1>1
<1>6. Tally(q, K) = Cardinality(A) /\ Tally(r, K) = Cardinality(B) /\ Tally(s, K) = Cardinality(C)
    BY DEF Tally
<1> HIDE DEF A, B, C, D, f
<1>7. Cardinality(B) = Cardinality(D)
    BY <1>2, <1>3, <1>4, FS_Bijection DEF ExistsBijection
<1>8. Cardinality(A \cup D) = Cardinality(A) + Cardinality(D) - Cardinality(A \cap D)
    BY <1>2, <1>3, FS_Union
<1>9. Cardinality(A \cap D) = 0 /\ Cardinality(A) \in Nat /\ Cardinality(D) \in Nat
    BY <1>2, <1>3, <1>5, FS_EmptySet, FS_CardinalityType
<1> QED BY <1>5, <1>6, <1>7, <1>8, <1>9 DEF s

LEMMA TallySingle ==
    ASSUME NEW x \in Message, NEW K
    PROVE  Tally(<<x>>, K) = IF x.kind \in K THEN 1 ELSE 0
<1> DEFINE q == <<x>>
<1>1. q \in Seq(Message) /\ DOMAIN q = {1} /\ q[1] = x
    BY Singles
<1> HIDE DEF q
<1>2. {i \in DOMAIN q : q[i].kind \in K} = IF x.kind \in K THEN {1} ELSE {}
    BY <1>1
<1>3. Cardinality({1}) = 1 /\ Cardinality({}) = 0
    BY FS_Singleton, FS_EmptySet
<1>4. Tally(q, K) = IF x.kind \in K THEN 1 ELSE 0
    BY <1>2, <1>3 DEF Tally
<1> QED BY <1>4 DEF q

LEMMA TallyTail ==
    ASSUME NEW q \in Seq(Message), q # <<>>, NEW K
    PROVE  /\ Tally(Tail(q), K) = Tally(q, K) - (IF Head(q).kind \in K THEN 1 ELSE 0)
           /\ Tally(Tail(q), K) \in Nat /\ Tally(q, K) \in Nat
<1>1. Head(q) \in Message /\ Tail(q) \in Seq(Message) /\ <<Head(q)>> \in Seq(Message)
    BY Heads, Singles
<1>2. q = <<Head(q)>> \o Tail(q)
    OBVIOUS
<1>3. Tally(<<Head(q)>> \o Tail(q), K) = Tally(<<Head(q)>>, K) + Tally(Tail(q), K)
    BY <1>1, TallyConcat
<1>4. Tally(<<Head(q)>>, K) = IF Head(q).kind \in K THEN 1 ELSE 0
    BY <1>1, TallySingle
<1>5. Tally(Tail(q), K) \in Nat /\ Tally(q, K) \in Nat
    BY <1>1, TallyNat
<1>6. Tally(q, K) = Tally(<<Head(q)>>, K) + Tally(Tail(q), K)
    BY <1>2, <1>3
<1> QED BY <1>4, <1>5, <1>6

LEMMA TallyPut ==
    ASSUME NEW q \in Seq(Message), NEW x \in Message, NEW K
    PROVE  Tally(q \o <<x>>, K) = Tally(q, K) + (IF x.kind \in K THEN 1 ELSE 0)
<1> DEFINE r == <<x>>
<1>1. r \in Seq(Message) /\ Tally(r, K) = IF x.kind \in K THEN 1 ELSE 0
    BY Singles, TallySingle
<1> HIDE DEF r
<1>2. Tally(q \o r, K) = Tally(q, K) + Tally(r, K)
    BY <1>1, TallyConcat
<1>3. Tally(q \o r, K) = Tally(q, K) + (IF x.kind \in K THEN 1 ELSE 0)
    BY <1>1, <1>2, Zenon
<1> QED BY <1>3 DEF r

\* A queue of announcements.
LEMMA TallyAnnounced ==
    ASSUME NEW q \in Seq(Announcement), NEW K
    PROVE  /\ q \in Seq(Message) /\ Len(q) \in Nat
           /\ Tally(q, K) = IF "AnnounceBlock" \in K THEN Len(q) ELSE 0
<1>1. q \in Seq(Message) /\ Len(q) \in Nat /\ DOMAIN q = 1..Len(q)
      /\ \A i \in DOMAIN q : q[i].kind = "AnnounceBlock"
    BY DEF Announcement
<1>2. CASE "AnnounceBlock" \in K
    <2>1. {i \in DOMAIN q : q[i].kind \in K} = 1..Len(q)
        BY <1>1, <1>2
    <2>2. Cardinality(1..Len(q)) = Len(q)
        <3>1. 1 \in Int /\ Len(q) \in Int
            BY <1>1
        <3>2. Cardinality(1..Len(q)) = IF 1 > Len(q) THEN 0 ELSE Len(q) - 1 + 1
            BY <3>1, FS_Interval, Zenon
        <3> QED BY <1>1, <3>2
    <2> QED BY <1>1, <1>2, <2>1, <2>2 DEF Tally
<1>3. CASE "AnnounceBlock" \notin K
    BY <1>1, <1>3, TallyNat
<1> QED BY <1>1, <1>2, <1>3

\* What follows what, in queues put together or cut.
LEMMA FollowsConcat ==
    ASSUME NEW q \in Seq(Message), NEW r \in Seq(Message), NEW E, NEW C,
           Follows(q, E, C), Follows(r, E, C), Tally(q, E) = 0 \/ Tally(r, C) = 0
    PROVE  Follows(q \o r, E, C)
<1> DEFINE s == q \o r
<1>1. /\ Len(q) \in Nat /\ Len(r) \in Nat
      /\ DOMAIN s = 1..(Len(q) + Len(r)) /\ DOMAIN q = 1..Len(q) /\ DOMAIN r = 1..Len(r)
      /\ \A i \in 1..(Len(q) + Len(r)) : s[i] = IF i <= Len(q) THEN q[i] ELSE r[i - Len(q)]
    BY ConcatProperties
<1> HIDE DEF s
<1>2. (\A i \in DOMAIN q : q[i].kind \notin E) \/ (\A i \in DOMAIN r : r[i].kind \notin C)
    BY TallyNat
<1>3. ASSUME NEW i \in DOMAIN s, NEW j \in DOMAIN s, i < j, s[i].kind \in E PROVE s[j].kind \notin C
    <2>1. CASE j <= Len(q)
        <3>1. i \in DOMAIN q /\ j \in DOMAIN q /\ s[i] = q[i] /\ s[j] = q[j]
            BY <1>1, <1>3, <2>1
        <3> QED BY <1>3, <3>1 DEF Follows
    <2>2. CASE i <= Len(q) /\ ~(j <= Len(q))
        <3>1. i \in DOMAIN q /\ j - Len(q) \in DOMAIN r /\ s[i] = q[i] /\ s[j] = r[j - Len(q)]
            BY <1>1, <1>3, <2>2
        <3> QED BY <1>2, <1>3, <3>1
    <2>3. CASE ~(i <= Len(q))
        <3>1. /\ i - Len(q) \in DOMAIN r /\ j - Len(q) \in DOMAIN r /\ i - Len(q) < j - Len(q)
              /\ s[i] = r[i - Len(q)] /\ s[j] = r[j - Len(q)]
            BY <1>1, <1>3, <2>3
        <3> QED BY <1>3, <3>1 DEF Follows
    <2> QED BY <1>1, <2>1, <2>2, <2>3
<1>4. Follows(s, E, C)
    BY <1>3 DEF Follows
<1> QED BY <1>4 DEF s

LEMMA FollowsTail ==
    ASSUME NEW q \in Seq(Message), q # <<>>, NEW E, NEW C, Follows(q, E, C)
    PROVE  Follows(Tail(q), E, C) /\ (Head(q).kind \in E => Tally(Tail(q), C) = 0)
<1>1. /\ Head(q) = q[1] /\ 1 \in DOMAIN q /\ Tail(q) \in Seq(Message)
      /\ DOMAIN Tail(q) = 1..Len(Tail(q)) /\ Len(Tail(q)) \in Nat
      /\ \A i \in DOMAIN Tail(q) : i + 1 \in DOMAIN q /\ Tail(q)[i] = q[i + 1]
    BY Heads
<1>2. Follows(Tail(q), E, C)
    BY <1>1 DEF Follows
<1>3. Head(q).kind \in E => \A i \in DOMAIN Tail(q) : Tail(q)[i].kind \notin C
    BY <1>1 DEF Follows
<1> QED BY <1>1, <1>2, <1>3, TallyNat

LEMMA FollowsShort ==
    /\ \A E, C : Follows(<<>>, E, C)
    /\ \A x \in Message : \A E, C : Follows(<<x>>, E, C)
BY DEF Follows

\* The counts that Load, Chat and Ends are made of.
LEMMA Counters ==
    ASSUME WireInv
    PROVE  /\ Dialer \in Node /\ Listener \in Node /\ Dialer # Listener
           /\ Other(Dialer) = Listener /\ Other(Listener) = Dialer
           /\ \A n \in Node : wire[n] \in Seq(Message) /\ \A K : Tally(wire[n], K) \in Nat
           /\ \A n \in Node : outq[n] \in Seq(Announcement) /\ Len(outq[n]) \in Nat
           /\ wire \in [Node -> Seq(Message)] /\ at \in [Node -> Place] /\ MaxBlocks \in Nat
<1>1. Dialer \in Node /\ Listener \in Node /\ Dialer # Listener /\ MaxBlocks \in Nat
      /\ Other(Dialer) = Listener /\ Other(Listener) = Dialer
    BY WireAssumption DEF Node, Other
<1>2. /\ wire \in [Node -> Seq(Message)] /\ outq \in [Node -> Seq(Announcement)]
      /\ at \in [Node -> Place]
    BY DEF WireInv, TravelInv
<1>3. \A n \in Node : wire[n] \in Seq(Message) /\ outq[n] \in Seq(Announcement) /\ Len(outq[n]) \in Nat
    BY <1>2
<1> QED BY <1>1, <1>2, <1>3, TallyNat

\* The kind of the answer to a message, "none" without one.
Answered(k, a) ==
    \/ a = "none"
    \/ k = "AnnounceBlock" /\ a = "GetBlock"
    \/ k = "GetBlock" /\ a = "Block"
    \/ k = "GetHeight" /\ a = "Height"
    \/ k = "Ping" /\ a = "Pong"

LEMMA ReplyKind ==
    ASSUME WireInv, NEW n \in Node, NEW m \in Message, Fatal(n, m) = "none"
    PROVE  \/ Reply(n, m) = <<>> /\ Answered(m.kind, "none")
           \/ \E x \in Message : Reply(n, m) = <<x>> /\ Answered(m.kind, x.kind)
<1>0. requested[n] \in Ref /\ tip[n] \in Seq(Node) /\ m.blk \in Ref /\ m.kind \in Kinds
      /\ (m.kind \in {"AnnounceBlock", "GetBlock", "Block"} => m.blk \in Seq(Node))
    BY DEF WireInv, TravelInv, Message
<1>1. m.kind # "Handshake" /\ m.kind # "Disconnect"
    BY DEF Fatal
<1>2. CASE m.kind = "AnnounceBlock"
    <2>1. Msg("GetBlock", m.blk) \in Message /\ Msg("GetBlock", m.blk).kind = "GetBlock"
        BY <1>0, <1>2, Messages DEF Kinds
    <2>2. Reply(n, m) = <<>> \/ Reply(n, m) = <<Msg("GetBlock", m.blk)>>
        BY <1>2, Zenon DEF Reply
    <2> QED BY <1>2, <2>1, <2>2, Zenon DEF Answered
<1>3. CASE m.kind = "GetBlock"
    <2>1. Msg("Block", m.blk) \in Message /\ Msg("Block", m.blk).kind = "Block"
        BY <1>0, <1>3, Messages DEF Kinds
    <2>2. block_by_hash(n, m.blk)
        BY <1>3 DEF Fatal
    <2>3. Reply(n, m) = <<Msg("Block", m.blk)>>
        BY <1>3, <2>2 DEF Reply
    <2> QED BY <1>3, <2>1, <2>3, Zenon DEF Answered
<1>4. CASE m.kind = "GetHeight"
    <2>1. Msg("Height", tip[n]) \in Message /\ Msg("Height", tip[n]).kind = "Height"
        BY <1>0, Messages DEF Kinds
    <2>2. Reply(n, m) = <<Msg("Height", tip[n])>>
        BY <1>4 DEF Reply
    <2> QED BY <1>4, <2>1, <2>2, Zenon DEF Answered
<1>5. CASE m.kind = "Ping"
    <2>1. Plain("Pong") \in Message /\ Plain("Pong").kind = "Pong"
        BY Messages, NoBlockIsNone DEF Kinds
    <2>2. Reply(n, m) = <<Plain("Pong")>>
        BY <1>5 DEF Reply
    <2> QED BY <1>5, <2>1, <2>2, Zenon DEF Answered
<1>6. CASE m.kind \in {"Block", "Height", "Pong"}
    <2>1. Reply(n, m) = <<>>
        BY <1>6 DEF Reply
    <2> QED BY <1>6, <2>1, Zenon DEF Answered
<1> QED BY <1>0, <1>1, <1>2, <1>3, <1>4, <1>5, <1>6 DEF Kinds

\* One message leaves the queue of node n; its answer, of kind a, joins the other.
Passed(n, k, a) ==
    /\ Answered(k, a) /\ k \in Kinds /\ a \in Kinds \cup {"none"}
    /\ \A K : /\ Tally(wire'[n], K) = Tally(wire[n], K) - IF k \in K THEN 1 ELSE 0
              /\ Tally(wire'[n], K) \in Nat
    /\ \A K \in SUBSET Kinds :
          Tally(wire'[Other(n)], K) = Tally(wire[Other(n)], K) + IF a \in K THEN 1 ELSE 0
    /\ \A E, C : Follows(wire[n], E, C) =>
          Follows(wire'[n], E, C) /\ (k \in E => Tally(wire'[n], C) = 0)
    /\ \A E, C \in SUBSET Kinds :
          Follows(wire[Other(n)], E, C) /\ (Tally(wire[Other(n)], E) = 0 \/ a \notin C) =>
            Follows(wire'[Other(n)], E, C)

LEMMA ReadTally ==
    ASSUME WireInv, NEW n \in Node, wire[n] # <<>>, Fatal(n, Head(wire[n])) = "none",
           wire' = [wire EXCEPT ![n] = Tail(@), ![Other(n)] = @ \o Reply(n, Head(wire[n]))]
    PROVE  \E a : Passed(n, Head(wire[n]).kind, a)
<1> DEFINE m == Head(wire[n])
           o == Other(n)
           r == Reply(n, m)
<1>1. /\ wire[n] \in Seq(Message) /\ wire[o] \in Seq(Message) /\ o \in Node /\ o # n
      /\ wire \in [Node -> Seq(Message)]
    BY Counters, Others
<1>2. m \in Message /\ m.kind \in Kinds
    BY <1>1, Heads DEF Message
<1>3. wire'[n] = Tail(wire[n]) /\ wire'[o] = wire[o] \o r
    BY <1>1
<1>4. PICK a : /\ Answered(m.kind, a) /\ a \in Kinds \cup {"none"} /\ r \in Seq(Message)
               /\ \A K \in SUBSET Kinds : Tally(r, K) = IF a \in K THEN 1 ELSE 0
               /\ \A E, C : Follows(r, E, C)
    <2>n. "none" \notin Kinds
        BY DEF Kinds
    <2>1. CASE r = <<>> /\ Answered(m.kind, "none")
        <3>0. r = <<>>
            BY <2>1
        <3> HIDE DEF r
        <3>1. r \in Seq(Message) /\ (\A K : Tally(r, K) = 0) /\ \A E, C : Follows(r, E, C)
            <4>1. r \in Seq(Message)
                BY <3>0
            <4> QED BY <3>0, <4>1, TallyEmpty, FollowsShort, Zenon
        <3>2. \A K \in SUBSET Kinds : "none" \notin K
            BY <2>n
        <3> QED BY <2>1, <3>1, <3>2
    <2>2. CASE \E x \in Message : r = <<x>> /\ Answered(m.kind, x.kind)
        <3>1. PICK x \in Message : r = <<x>> /\ Answered(m.kind, x.kind)
            BY <2>2
        <3> HIDE DEF r
        <3>2. r \in Seq(Message) /\ (\A K : Tally(r, K) = IF x.kind \in K THEN 1 ELSE 0)
            BY <3>1, TallySingle, Singles, Zenon
        <3>3. \A E, C : Follows(r, E, C)
            BY <3>1, FollowsShort, Zenon
        <3>4. x.kind \in Kinds
            BY DEF Message
        <3> QED BY <3>1, <3>2, <3>3, <3>4
    <2> QED BY <1>2, <2>1, <2>2, ReplyKind, Zenon
<1> HIDE DEF m, o, r
<1>5. \A K : /\ Tally(wire'[n], K) = Tally(wire[n], K) - IF m.kind \in K THEN 1 ELSE 0
             /\ Tally(wire'[n], K) \in Nat
    BY <1>1, <1>3, TallyTail, Zenon DEF m
<1>6. ASSUME NEW K \in SUBSET Kinds
      PROVE  Tally(wire'[o], K) = Tally(wire[o], K) + IF a \in K THEN 1 ELSE 0
    <2>1. Tally(wire'[o], K) = Tally(wire[o], K) + Tally(r, K)
        <3>1. Tally(wire[o] \o r, K) = Tally(wire[o], K) + Tally(r, K)
            BY <1>1, <1>4, TallyConcat
        <3> QED BY <1>3, <3>1
    <2> QED BY <1>4, <2>1
<1>7. ASSUME NEW E, NEW C, Follows(wire[n], E, C)
      PROVE  Follows(wire'[n], E, C) /\ (m.kind \in E => Tally(wire'[n], C) = 0)
    BY <1>1, <1>3, <1>7, FollowsTail, Zenon DEF m
<1>8. ASSUME NEW E \in SUBSET Kinds, NEW C \in SUBSET Kinds,
             Follows(wire[o], E, C), Tally(wire[o], E) = 0 \/ a \notin C
      PROVE  Follows(wire'[o], E, C)
    <2>1. Tally(wire[o], E) = 0 \/ Tally(r, C) = 0
        BY <1>4, <1>8
    <2> QED BY <1>1, <1>3, <1>4, <1>8, <2>1, FollowsConcat, Zenon
<1>9. Passed(n, m.kind, a)
    BY <1>2, <1>4, <1>5, <1>6, <1>7, <1>8 DEF Passed, o
<1> QED BY <1>9 DEF m

\* What a queue gains in messages of the kinds K.
Gain(q, r, K) == Tally(r, K) - Tally(q, K)

\* The totals change with the parts they are made of.
Summed(W, V, Q, R, m, l) ==
    /\ Load(W, Q, m) \in Nat /\ Load(V, R, l) \in Nat
    /\ Load(V, R, l) = Load(W, Q, m)
         + (2 * Gain(W[Dialer], V[Dialer], {"AnnounceBlock"}) + Gain(W[Dialer], V[Dialer], Requests)
             + Gain(W[Listener], V[Listener], {"AnnounceBlock", "GetBlock"})
             + 2 * (Len(R[Listener]) - Len(Q[Listener])) + (Len(R[Dialer]) - Len(Q[Dialer]))
             - 2 * (l - m))
    /\ Chat(W) \in Nat /\ Chat(V) \in Nat
    /\ Chat(V) = Chat(W) + (Gain(W[Dialer], V[Dialer], Chatter) + Gain(W[Listener], V[Listener], {"Ping"}))
    /\ Ends(W) \in Nat /\ Ends(V) \in Nat
    /\ Ends(V) = Ends(W) + (Gain(W[Dialer], V[Dialer], {"Height"}) + Gain(W[Listener], V[Listener], {"GetHeight"}))

LEMMA Shift ==
    ASSUME NEW W \in [Node -> Seq(Message)], NEW V \in [Node -> Seq(Message)],
           NEW Q \in [Node -> Seq(Announcement)], NEW R \in [Node -> Seq(Announcement)],
           NEW m \in 0..MaxBlocks, NEW l \in 0..MaxBlocks
    PROVE  Summed(W, V, Q, R, m, l)
<1>1. /\ Dialer \in Node /\ Listener \in Node /\ MaxBlocks \in Nat
      /\ W[Dialer] \in Seq(Message) /\ W[Listener] \in Seq(Message)
      /\ V[Dialer] \in Seq(Message) /\ V[Listener] \in Seq(Message)
      /\ Q[Dialer] \in Seq(Announcement) /\ Q[Listener] \in Seq(Announcement)
      /\ R[Dialer] \in Seq(Announcement) /\ R[Listener] \in Seq(Announcement)
    BY WireAssumption DEF Node
<1>2. \A K : /\ Tally(W[Dialer], K) \in Nat /\ Tally(W[Listener], K) \in Nat
             /\ Tally(V[Dialer], K) \in Nat /\ Tally(V[Listener], K) \in Nat
    BY <1>1, TallyNat
<1>3. PICK u \in Nat, v \in Nat, w \in Nat :
        /\ u = Tally(W[Dialer], {"AnnounceBlock"}) /\ v = Tally(W[Dialer], Requests)
        /\ w = Tally(W[Listener], {"AnnounceBlock", "GetBlock"})
    BY <1>2
<1>4. PICK u1 \in Nat, v1 \in Nat, w1 \in Nat :
        /\ u1 = Tally(V[Dialer], {"AnnounceBlock"}) /\ v1 = Tally(V[Dialer], Requests)
        /\ w1 = Tally(V[Listener], {"AnnounceBlock", "GetBlock"})
    BY <1>2
<1>5. PICK s \in Nat, t \in Nat, s1 \in Nat, t1 \in Nat :
        s = Len(Q[Listener]) /\ t = Len(Q[Dialer]) /\ s1 = Len(R[Listener]) /\ t1 = Len(R[Dialer])
    BY <1>1, TallyAnnounced
<1>6. /\ 2 * u + v + w + 2 * s + t + 2 * (MaxBlocks - m) \in Nat
      /\ 2 * u1 + v1 + w1 + 2 * s1 + t1 + 2 * (MaxBlocks - l) \in Nat
      /\ 2 * u1 + v1 + w1 + 2 * s1 + t1 + 2 * (MaxBlocks - l)
           = (2 * u + v + w + 2 * s + t + 2 * (MaxBlocks - m))
               + (2 * (u1 - u) + (v1 - v) + (w1 - w) + 2 * (s1 - s) + (t1 - t) - 2 * (l - m))
    BY <1>1
<1>7. /\ Load(W, Q, m) \in Nat /\ Load(V, R, l) \in Nat
      /\ Load(V, R, l) = Load(W, Q, m)
           + (2 * Gain(W[Dialer], V[Dialer], {"AnnounceBlock"}) + Gain(W[Dialer], V[Dialer], Requests)
               + Gain(W[Listener], V[Listener], {"AnnounceBlock", "GetBlock"})
               + 2 * (Len(R[Listener]) - Len(Q[Listener])) + (Len(R[Dialer]) - Len(Q[Dialer]))
               - 2 * (l - m))
    BY <1>3, <1>4, <1>5, <1>6, Zenon DEF Load, Gain
<1>8. PICK a \in Nat, b \in Nat, a1 \in Nat, b1 \in Nat :
        /\ a = Tally(W[Dialer], Chatter) /\ b = Tally(W[Listener], {"Ping"})
        /\ a1 = Tally(V[Dialer], Chatter) /\ b1 = Tally(V[Listener], {"Ping"})
    BY <1>2
<1>9. PICK d \in Nat, f \in Nat, d1 \in Nat, f1 \in Nat :
        /\ d = Tally(W[Dialer], {"Height"}) /\ f = Tally(W[Listener], {"GetHeight"})
        /\ d1 = Tally(V[Dialer], {"Height"}) /\ f1 = Tally(V[Listener], {"GetHeight"})
    BY <1>2
<1>10. /\ a + b \in Nat /\ a1 + b1 \in Nat /\ a1 + b1 = (a + b) + ((a1 - a) + (b1 - b))
       /\ d + f \in Nat /\ d1 + f1 \in Nat /\ d1 + f1 = (d + f) + ((d1 - d) + (f1 - f))
    OBVIOUS
<1>11. /\ Chat(W) \in Nat /\ Chat(V) \in Nat
       /\ Chat(V) = Chat(W) + (Gain(W[Dialer], V[Dialer], Chatter) + Gain(W[Listener], V[Listener], {"Ping"}))
    BY <1>8, <1>10, Zenon DEF Chat, Gain
<1>12. /\ Ends(W) \in Nat /\ Ends(V) \in Nat
       /\ Ends(V) = Ends(W) + (Gain(W[Dialer], V[Dialer], {"Height"}) + Gain(W[Listener], V[Listener], {"GetHeight"}))
    BY <1>9, <1>10, Zenon DEF Ends, Gain
<1> QED BY <1>7, <1>11, <1>12, Zenon DEF Summed

LEMMA KindSets ==
    /\ {"AnnounceBlock"} \in SUBSET Kinds /\ Requests \in SUBSET Kinds /\ Chatter \in SUBSET Kinds
    /\ {"Height"} \in SUBSET Kinds /\ {"AnnounceBlock", "GetBlock"} \in SUBSET Kinds
    /\ {"Ping"} \in SUBSET Kinds /\ {"GetHeight"} \in SUBSET Kinds
BY DEF Kinds, Requests, Chatter

\* One for a message of the kinds K, none for another.
One(k, K) == IF k \in K THEN 1 ELSE 0

\* The totals L, C and E, and after the step M, D and F.
Totals(L, M, C, D, E, F) ==
    /\ L = Load(wire, outq, mined) /\ M = Load(wire', outq', mined')
    /\ C = Chat(wire) /\ D = Chat(wire') /\ E = Ends(wire) /\ F = Ends(wire')

\* A queue loses or gains one message.
LEMMA Gains ==
    ASSUME NEW q, NEW r, NEW k, NEW K, Tally(q, K) \in Nat
    PROVE  /\ Tally(r, K) = Tally(q, K) - One(k, K) => Gain(q, r, K) = -One(k, K)
           /\ Tally(r, K) = Tally(q, K) + One(k, K) => Gain(q, r, K) = One(k, K)
           /\ Tally(r, K) = Tally(q, K) => Gain(q, r, K) = 0
           /\ One(k, K) \in {0, 1}
<1>1. PICK t \in Nat, o \in {0, 1} : t = Tally(q, K) /\ o = One(k, K)
    BY DEF One
<1>2. (t - o) - t = -o /\ (t + o) - t = o /\ t - t = 0
    OBVIOUS
<1> QED BY <1>1, <1>2 DEF Gain

\* What the steps have in common.
LEMMA Setting ==
    ASSUME WireInv, WireInv', PollInv, mined' \in 0..MaxBlocks
    PROVE  /\ Dialer \in Node /\ Listener \in Node /\ Dialer # Listener
           /\ Other(Dialer) = Listener /\ Other(Listener) = Dialer
           /\ mined \in 0..MaxBlocks /\ InOrder(wire) /\ MaxBlocks \in Nat
           /\ wire \in [Node -> Seq(Message)] /\ wire' \in [Node -> Seq(Message)]
           /\ outq \in [Node -> Seq(Announcement)] /\ outq' \in [Node -> Seq(Announcement)]
           /\ \A K : Tally(wire[Dialer], K) \in Nat /\ Tally(wire[Listener], K) \in Nat
           /\ \A K : Tally(wire'[Dialer], K) \in Nat /\ Tally(wire'[Listener], K) \in Nat
           /\ Len(outq[Dialer]) \in Nat /\ Len(outq[Listener]) \in Nat
<1>1. /\ Dialer \in Node /\ Listener \in Node /\ Dialer # Listener
      /\ Other(Dialer) = Listener /\ Other(Listener) = Dialer /\ MaxBlocks \in Nat
      /\ mined \in 0..MaxBlocks /\ InOrder(wire)
      /\ \A K : Tally(wire[Dialer], K) \in Nat /\ Tally(wire[Listener], K) \in Nat
      /\ Len(outq[Dialer]) \in Nat /\ Len(outq[Listener]) \in Nat
    BY Counters DEF PollInv
<1>2. /\ wire \in [Node -> Seq(Message)] /\ wire' \in [Node -> Seq(Message)]
      /\ outq \in [Node -> Seq(Announcement)] /\ outq' \in [Node -> Seq(Announcement)]
    BY DEF WireInv, TravelInv
<1>3. wire'[Dialer] \in Seq(Message) /\ wire'[Listener] \in Seq(Message)
    BY <1>1, <1>2
<1> QED BY <1>1, <1>2, <1>3, TallyNat

\* What the totals become when the dialer reads a message of the kind k.
Lightens(k, L, M, C, D, E, F) ==
    /\ Totals(L, M, C, D, E, F) /\ InOrder(wire')
    /\ M <= L /\ D <= C /\ F <= E
    /\ k # "Height" => M + D + 1 <= L + C
    /\ k \in Chatter => D + 1 <= C
    /\ k = "Height" => D = 0 /\ F + 1 <= E

LEMMA DialerReads ==
    ASSUME WireInv, WireInv', PollInv, NEW k, NEW a, Passed(Dialer, k, a), outq' = outq, mined' = mined
    PROVE  \E L, M, C, D, E, F \in Nat : Lightens(k, L, M, C, D, E, F)
<1>1. /\ Other(Dialer) = Listener /\ mined \in 0..MaxBlocks /\ InOrder(wire) /\ mined' \in 0..MaxBlocks
      /\ wire \in [Node -> Seq(Message)] /\ wire' \in [Node -> Seq(Message)]
      /\ outq \in [Node -> Seq(Announcement)] /\ outq' \in [Node -> Seq(Announcement)]
      /\ \A K : Tally(wire[Dialer], K) \in Nat /\ Tally(wire[Listener], K) \in Nat
      /\ Len(outq[Dialer]) \in Nat /\ Len(outq[Listener]) \in Nat
    BY Setting DEF PollInv
<1>2. /\ Answered(k, a)
      /\ \A K : Tally(wire'[Dialer], K) = Tally(wire[Dialer], K) - One(k, K) /\ Tally(wire'[Dialer], K) \in Nat
      /\ \A K \in SUBSET Kinds : Tally(wire'[Listener], K) = Tally(wire[Listener], K) + One(a, K)
    BY <1>1, Zenon DEF Passed, One
<1>3. /\ a \notin {"Ping", "GetHeight", "AnnounceBlock"} /\ (a = "GetBlock" => k = "AnnounceBlock")
      /\ k \in {"AnnounceBlock", "Height"} \cup Requests \cup Chatter
    <2>1. k \in Kinds
        BY DEF Passed
    <2> QED BY <1>2, <2>1 DEF Answered, Requests, Chatter, Kinds
<1>4. PICK i \in {0, 1}, j \in {0, 1}, c \in {0, 1}, e \in {0, 1}, h \in {0, 1} :
        /\ i = One(k, {"AnnounceBlock"}) /\ j = One(k, Requests) /\ c = One(k, Chatter)
        /\ e = One(k, {"Height"}) /\ h = One(a, {"AnnounceBlock", "GetBlock"})
    BY DEF One
<1>5. /\ One(a, {"Ping"}) = 0 /\ One(a, {"GetHeight"}) = 0 /\ h <= i
      /\ k # "Height" => i + j + c >= 1
      /\ k \in Chatter => c = 1
      /\ k = "Height" => e = 1
    <2>1. One(a, {"Ping"}) = 0 /\ One(a, {"GetHeight"}) = 0 /\ h <= i
        BY <1>3, <1>4 DEF One
    <2>2. ASSUME k # "Height" PROVE i = 1 \/ j = 1 \/ c = 1
        BY <1>3, <1>4, <2>2 DEF One
    <2>3. (k \in Chatter => c = 1) /\ (k = "Height" => e = 1)
        BY <1>4 DEF One
    <2> QED BY <2>1, <2>2, <2>3
<1>6. /\ Gain(wire[Dialer], wire'[Dialer], {"AnnounceBlock"}) = -i
      /\ Gain(wire[Dialer], wire'[Dialer], Requests) = -j
      /\ Gain(wire[Dialer], wire'[Dialer], Chatter) = -c
      /\ Gain(wire[Dialer], wire'[Dialer], {"Height"}) = -e
    <2>1. \A K : Gain(wire[Dialer], wire'[Dialer], K) = -One(k, K)
        BY <1>1, <1>2, Gains
    <2> QED BY <1>4, <2>1
<1>7. /\ Gain(wire[Listener], wire'[Listener], {"AnnounceBlock", "GetBlock"}) = h
      /\ Gain(wire[Listener], wire'[Listener], {"Ping"}) = 0
      /\ Gain(wire[Listener], wire'[Listener], {"GetHeight"}) = 0
    <2>1. ASSUME NEW K \in SUBSET Kinds PROVE Gain(wire[Listener], wire'[Listener], K) = One(a, K)
        <3>1. Tally(wire'[Listener], K) = Tally(wire[Listener], K) + One(a, K) /\ Tally(wire[Listener], K) \in Nat
            BY <1>1, <1>2
        <3> QED BY <3>1, Gains
    <2> QED BY <1>4, <1>5, <2>1, KindSets
<1>8. /\ Len(outq'[Listener]) - Len(outq[Listener]) = 0 /\ Len(outq'[Dialer]) - Len(outq[Dialer]) = 0
      /\ mined' - mined = 0
    BY <1>1
<1>9. PICK L \in Nat, M \in Nat, C \in Nat, D \in Nat, E \in Nat, F \in Nat :
        /\ Totals(L, M, C, D, E, F)
        /\ M = L + (2 * (-i) + (-j) + h + 2 * 0 + 0 - 2 * 0) /\ D = C + (-c + 0) /\ F = E + (-e + 0)
    <2>0. Summed(wire, wire', outq, outq', mined, mined')
        BY <1>1, Shift
    <2>1. /\ Load(wire, outq, mined) \in Nat /\ Load(wire', outq', mined') \in Nat
          /\ Load(wire', outq', mined') = Load(wire, outq, mined) + (2 * (-i) + (-j) + h + 2 * 0 + 0 - 2 * 0)
        BY <1>6, <1>7, <1>8, <2>0, Zenon DEF Summed
    <2>2. /\ Chat(wire) \in Nat /\ Chat(wire') \in Nat /\ Chat(wire') = Chat(wire) + (-c + 0)
          /\ Ends(wire) \in Nat /\ Ends(wire') \in Nat /\ Ends(wire') = Ends(wire) + (-e + 0)
        BY <1>6, <1>7, <1>8, <2>0, Zenon DEF Summed
    <2> QED BY <2>1, <2>2, Zenon DEF Totals
<1>10. /\ M <= L /\ D <= C /\ F <= E /\ (k # "Height" => M + D + 1 <= L + C)
       /\ (k \in Chatter => D + 1 <= C) /\ (k = "Height" => F + 1 <= E)
    BY <1>5, <1>9
<1>11. InOrder(wire')
    <2>1. Follows(wire[Dialer], {"Height"}, Chatter) /\ Follows(wire[Listener], {"GetHeight"}, {"Ping"})
        BY <1>1 DEF InOrder
    <2>2. /\ Follows(wire'[Dialer], {"Height"}, Chatter)
          /\ a # "Ping" => Follows(wire'[Listener], {"GetHeight"}, {"Ping"})
        BY <1>1, <2>1, KindSets, Zenon DEF Passed
    <2>3. Tally(wire'[Dialer], {"Height"}) # 0 => Tally(wire[Dialer], {"Height"}) # 0
        <3>1. PICK t \in Nat, s \in Nat : t = Tally(wire[Dialer], {"Height"}) /\ s = Tally(wire'[Dialer], {"Height"})
            BY <1>1, <1>2
        <3>2. s = t - e
            BY <1>2, <1>4, <3>1
        <3> QED BY <3>1, <3>2
    <2>4. Tally(wire'[Listener], {"Ping"}) = Tally(wire[Listener], {"Ping"})
        <3>1. Tally(wire'[Listener], {"Ping"}) = Tally(wire[Listener], {"Ping"}) + 0
            BY <1>2, <1>5, KindSets, Zenon
        <3> QED BY <1>1, <3>1
    <2> QED BY <1>1, <1>3, <2>2, <2>3, <2>4, Zenon DEF InOrder
<1>12. ASSUME k = "Height" PROVE D = 0
    <2>1. Tally(wire'[Dialer], Chatter) = 0
        BY <1>1, <1>12, Zenon DEF Passed, InOrder
    <2>2. Tally(wire[Dialer], {"Height"}) # 0
        <3>1. PICK t \in Nat, s \in Nat : t = Tally(wire[Dialer], {"Height"}) /\ s = Tally(wire'[Dialer], {"Height"})
            BY <1>1, <1>2
        <3>2. s = t - 1
            BY <1>2, <1>4, <1>5, <1>12, <3>1
        <3> QED BY <3>1, <3>2
    <2>3. Tally(wire[Listener], {"Ping"}) = 0
        BY <1>1, <2>2, Zenon DEF InOrder
    <2>4. Tally(wire'[Listener], {"Ping"}) = Tally(wire[Listener], {"Ping"}) + 0
        BY <1>2, <1>5, KindSets, Zenon
    <2>5. Chat(wire') = 0 + (0 + 0)
        BY <2>1, <2>3, <2>4, Zenon DEF Chat
    <2>6. 0 + (0 + 0) = 0
        OBVIOUS
    <2> QED BY <1>9, <2>5, <2>6, Zenon DEF Totals
<1>13. Lightens(k, L, M, C, D, E, F)
    BY <1>9, <1>10, <1>11, <1>12 DEF Lightens
<1> QED BY <1>13

\* The listener reads a message.
LEMMA ListenerReads ==
    ASSUME WireInv, WireInv', PollInv, NEW k, NEW a, Passed(Listener, k, a), outq' = outq, mined' = mined
    PROVE  \E L, M, C, D, E, F \in Nat :
             Totals(L, M, C, D, E, F) /\ InOrder(wire') /\ M <= L /\ D <= C /\ F <= E
<1>1. /\ Other(Listener) = Dialer /\ mined \in 0..MaxBlocks /\ InOrder(wire) /\ mined' \in 0..MaxBlocks
      /\ wire \in [Node -> Seq(Message)] /\ wire' \in [Node -> Seq(Message)]
      /\ outq \in [Node -> Seq(Announcement)] /\ outq' \in [Node -> Seq(Announcement)]
      /\ \A K : Tally(wire[Dialer], K) \in Nat /\ Tally(wire[Listener], K) \in Nat
      /\ \A K : Tally(wire'[Dialer], K) \in Nat
      /\ Len(outq[Dialer]) \in Nat /\ Len(outq[Listener]) \in Nat
    BY Setting DEF PollInv
<1>2. /\ Answered(k, a)
      /\ \A K : Tally(wire'[Listener], K) = Tally(wire[Listener], K) - One(k, K) /\ Tally(wire'[Listener], K) \in Nat
      /\ \A K \in SUBSET Kinds : Tally(wire'[Dialer], K) = Tally(wire[Dialer], K) + One(a, K)
    BY <1>1, Zenon DEF Passed, One
<1>3. /\ a # "AnnounceBlock" /\ (a = "Height" => k = "GetHeight")
      /\ a \in Requests => k \in {"AnnounceBlock", "GetBlock"}
      /\ a \in Chatter => k = "Ping"
    BY <1>2 DEF Answered, Requests, Chatter
<1>4. PICK j \in {0, 1}, c \in {0, 1}, e \in {0, 1}, h \in {0, 1}, p \in {0, 1}, g \in {0, 1} :
        /\ j = One(a, Requests) /\ c = One(a, Chatter) /\ e = One(a, {"Height"})
        /\ h = One(k, {"AnnounceBlock", "GetBlock"}) /\ p = One(k, {"Ping"}) /\ g = One(k, {"GetHeight"})
    BY DEF One
<1>5. One(a, {"AnnounceBlock"}) = 0 /\ j <= h /\ c <= p /\ e <= g
    BY <1>3, <1>4 DEF One
<1>6. /\ Gain(wire[Listener], wire'[Listener], {"AnnounceBlock", "GetBlock"}) = -h
      /\ Gain(wire[Listener], wire'[Listener], {"Ping"}) = -p
      /\ Gain(wire[Listener], wire'[Listener], {"GetHeight"}) = -g
    <2>1. \A K : Gain(wire[Listener], wire'[Listener], K) = -One(k, K)
        BY <1>1, <1>2, Gains
    <2> QED BY <1>4, <2>1
<1>7. /\ Gain(wire[Dialer], wire'[Dialer], {"AnnounceBlock"}) = 0
      /\ Gain(wire[Dialer], wire'[Dialer], Requests) = j
      /\ Gain(wire[Dialer], wire'[Dialer], Chatter) = c
      /\ Gain(wire[Dialer], wire'[Dialer], {"Height"}) = e
    <2>1. ASSUME NEW K \in SUBSET Kinds PROVE Gain(wire[Dialer], wire'[Dialer], K) = One(a, K)
        <3>1. Tally(wire'[Dialer], K) = Tally(wire[Dialer], K) + One(a, K) /\ Tally(wire[Dialer], K) \in Nat
            BY <1>1, <1>2
        <3> QED BY <3>1, Gains
    <2> QED BY <1>4, <1>5, <2>1, KindSets
<1>8. /\ Len(outq'[Listener]) - Len(outq[Listener]) = 0 /\ Len(outq'[Dialer]) - Len(outq[Dialer]) = 0
      /\ mined' - mined = 0
    BY <1>1
<1>9. PICK L \in Nat, M \in Nat, C \in Nat, D \in Nat, E \in Nat, F \in Nat :
        /\ Totals(L, M, C, D, E, F)
        /\ M = L + (2 * 0 + j + (-h) + 2 * 0 + 0 - 2 * 0) /\ D = C + (c + (-p)) /\ F = E + (e + (-g))
    <2>0. Summed(wire, wire', outq, outq', mined, mined')
        BY <1>1, Shift
    <2>1. /\ Load(wire, outq, mined) \in Nat /\ Load(wire', outq', mined') \in Nat
          /\ Load(wire', outq', mined') = Load(wire, outq, mined) + (2 * 0 + j + (-h) + 2 * 0 + 0 - 2 * 0)
        BY <1>6, <1>7, <1>8, <2>0, Zenon DEF Summed
    <2>2. /\ Chat(wire) \in Nat /\ Chat(wire') \in Nat /\ Chat(wire') = Chat(wire) + (c + (-p))
          /\ Ends(wire) \in Nat /\ Ends(wire') \in Nat /\ Ends(wire') = Ends(wire) + (e + (-g))
        BY <1>6, <1>7, <1>8, <2>0, Zenon DEF Summed
    <2> QED BY <2>1, <2>2, Zenon DEF Totals
<1>10. M <= L /\ D <= C /\ F <= E
    BY <1>5, <1>9
<1>11. InOrder(wire')
    <2>1. /\ Follows(wire[Dialer], {"Height"}, Chatter) /\ Follows(wire[Listener], {"GetHeight"}, {"Ping"})
          /\ Tally(wire[Dialer], {"Height"}) # 0 => Tally(wire[Listener], {"Ping"}) = 0
        BY <1>1 DEF InOrder
    <2>2. /\ Follows(wire'[Listener], {"GetHeight"}, {"Ping"})
          /\ k = "GetHeight" => Tally(wire'[Listener], {"Ping"}) = 0
          /\ Tally(wire[Dialer], {"Height"}) = 0 \/ a \notin Chatter => Follows(wire'[Dialer], {"Height"}, Chatter)
        BY <1>1, <2>1, KindSets, Zenon DEF Passed
    <2>3. PICK t \in Nat, s \in Nat, q \in Nat, r \in Nat :
            /\ t = Tally(wire[Dialer], {"Height"}) /\ s = Tally(wire[Listener], {"Ping"})
            /\ q = Tally(wire'[Dialer], {"Height"}) /\ r = Tally(wire'[Listener], {"Ping"})
        BY <1>1, <1>2
    <2>4. q = t + e /\ r = s - p
        BY <1>2, <1>4, <2>3, KindSets
    <2>5. t = 0 \/ a \notin Chatter
        <3>1. SUFFICES ASSUME t # 0 PROVE c = 0
            BY <1>4 DEF One
        <3> QED BY <1>5, <2>1, <2>3, <2>4, <3>1
    <2>6. q # 0 => r = 0
        <3>1. CASE e = 1
            <4>1. k = "GetHeight"
                BY <1>3, <1>4, <3>1 DEF One
            <4> QED BY <2>2, <2>3, <4>1
        <3>2. CASE e = 0
            BY <2>1, <2>3, <2>4, <3>2
        <3> QED BY <3>1, <3>2
    <2> QED BY <2>2, <2>3, <2>5, <2>6 DEF InOrder
<1> QED BY <1>9, <1>10, <1>11

\* A step of the listener, or of the miners, after which no more may reach the dialer
\* than before.
LEMMA PollEased ==
    ASSUME PollInv, NEW L \in Nat, NEW M \in Nat, NEW C \in Nat, NEW D \in Nat, NEW E \in Nat, NEW F \in Nat,
           Totals(L, M, C, D, E, F), InOrder(wire'), M <= L, D <= C, F <= E, mined' \in 0..MaxBlocks,
           at'[Dialer] = at[Dialer], left'[Dialer] = left[Dialer], DOMAIN left' = Node, why' = why
    PROVE  PollInv'
<1>1. MaxBlocks \in Nat /\ Allowed(at[Dialer]) \in {0, 1, 2} /\ Awaited(at[Dialer]) \in {0, 1}
    BY WireAssumption DEF Allowed, Awaited
<1>2. /\ L <= 2 * MaxBlocks /\ C <= Allowed(at[Dialer]) /\ E <= Awaited(at[Dialer])
      /\ at[Dialer] = "poll" => left[Dialer] \in Nat /\ left[Dialer] > L + C
      /\ ~GaveUp(why)
    BY DEF PollInv, Totals
<1>3. M <= 2 * MaxBlocks /\ D <= Allowed(at'[Dialer]) /\ F <= Awaited(at'[Dialer])
    <2>1. PICK n \in {0, 1, 2}, o \in {0, 1} : n = Allowed(at[Dialer]) /\ o = Awaited(at[Dialer])
        BY <1>1
    <2>2. C <= n /\ E <= o
        BY <1>2, <2>1
    <2>3. M <= 2 * MaxBlocks /\ D <= n /\ F <= o
        BY <1>1, <1>2, <2>2
    <2> QED BY <2>1, <2>3
<1>4. ASSUME at'[Dialer] = "poll" PROVE left'[Dialer] \in Nat /\ left'[Dialer] > M + D
    <2>1. PICK n \in Nat : n = left[Dialer] /\ n > L + C
        BY <1>2, <1>4
    <2>2. n > M + D
        BY <2>1
    <2> QED BY <2>1, <2>2
<1>5. M = Load(wire', outq', mined') /\ D = Chat(wire') /\ F = Ends(wire')
    BY DEF Totals
<1> QED BY <1>2, <1>3, <1>4, <1>5 DEF PollInv

LEMMA PollSilent ==
    ASSUME PollInv, UNCHANGED <<wire, at, left, outq, why, mined>>
    PROVE  PollInv'
BY DEF PollInv

\* A closed connection holds nothing.
LEMMA PollClosed ==
    ASSUME PollInv, NEW reason, ~GaveUp(reason), Close(reason), mined' = mined
    PROVE  PollInv'
<1>1. /\ Dialer \in Node /\ Listener \in Node /\ MaxBlocks \in Nat /\ mined \in 0..MaxBlocks
    BY WireAssumption DEF Node, PollInv
<1>2. /\ wire'[Dialer] = <<>> /\ wire'[Listener] = <<>> /\ outq'[Dialer] = <<>> /\ outq'[Listener] = <<>>
      /\ at'[Dialer] = "down" /\ why' = reason
    BY <1>1 DEF Close
<1>3. \A K : Tally(wire'[Dialer], K) = 0 /\ Tally(wire'[Listener], K) = 0
    BY <1>2, TallyEmpty
<1>4. Len(outq'[Dialer]) = 0 /\ Len(outq'[Listener]) = 0
    BY <1>2
<1>5. /\ Load(wire', outq', mined') = 2 * 0 + 0 + 0 + 2 * 0 + 0 + 2 * (MaxBlocks - mined)
      /\ Chat(wire') = 0 + 0 /\ Ends(wire') = 0 + 0
    BY <1>3, <1>4, Zenon DEF Load, Chat, Ends
<1>6. Load(wire', outq', mined') <= 2 * MaxBlocks
    <2>1. 2 * 0 + 0 + 0 + 2 * 0 + 0 + 2 * (MaxBlocks - mined) <= 2 * MaxBlocks
        BY <1>1
    <2> QED BY <1>5, <2>1, Zenon
<1>7. Chat(wire') <= Allowed(at'[Dialer]) /\ Ends(wire') <= Awaited(at'[Dialer])
    <2>1. Allowed(at'[Dialer]) = 1 /\ Awaited(at'[Dialer]) = 0
        BY <1>2, Zenon DEF Allowed, Awaited
    <2>2. 0 + 0 <= 1 /\ 0 + 0 <= 0
        OBVIOUS
    <2> QED BY <1>5, <2>1, <2>2, Zenon
<1>8. InOrder(wire')
    BY <1>2, <1>3, FollowsShort, Zenon DEF InOrder
<1>9. mined' \in 0..MaxBlocks /\ at'[Dialer] # "poll" /\ ~GaveUp(why') /\ DOMAIN left' = Node
    BY <1>1, <1>2 DEF Close
<1> QED BY <1>6, <1>7, <1>8, <1>9, Zenon DEF PollInv

\* What the dialer has to read, the Height aside, counts.
LEMMA Pending ==
    ASSUME WireInv, PollInv, wire[Dialer] # <<>>, Head(wire[Dialer]).kind # "Height"
    PROVE  \E L, C \in Nat : L = Load(wire, outq, mined) /\ C = Chat(wire) /\ L + C >= 1
<1> DEFINE q == wire[Dialer]
           k == Head(q).kind
<1>1. /\ q \in Seq(Message) /\ mined \in 0..MaxBlocks /\ MaxBlocks \in Nat
      /\ \A K : Tally(wire[Dialer], K) \in Nat /\ Tally(wire[Listener], K) \in Nat
      /\ Len(outq[Dialer]) \in Nat /\ Len(outq[Listener]) \in Nat
    BY Counters DEF PollInv
<1>2. k \in {"AnnounceBlock"} \/ k \in Requests \/ k \in Chatter
    <2>1. Head(q) \in Message
        BY <1>1, Heads
    <2> QED BY <2>1 DEF Message, Kinds, Requests, Chatter
<1>3. ASSUME NEW K, k \in K PROVE Tally(q, K) # 0
    <2>1. /\ Tally(Tail(q), K) = Tally(q, K) - (IF k \in K THEN 1 ELSE 0) /\ Tally(Tail(q), K) \in Nat
        BY <1>1, TallyTail, Zenon
    <2> QED BY <1>3, <2>1
<1>4. PICK u \in Nat, v \in Nat, a \in Nat :
        /\ u = Tally(wire[Dialer], {"AnnounceBlock"}) /\ v = Tally(wire[Dialer], Requests)
        /\ a = Tally(wire[Dialer], Chatter)
    BY <1>1
<1>5. PICK w \in Nat, b \in Nat, s \in Nat, t \in Nat :
        /\ w = Tally(wire[Listener], {"AnnounceBlock", "GetBlock"}) /\ b = Tally(wire[Listener], {"Ping"})
        /\ s = Len(outq[Listener]) /\ t = Len(outq[Dialer])
    BY <1>1
<1>6. u # 0 \/ v # 0 \/ a # 0
    BY <1>2, <1>3, <1>4
<1> HIDE DEF q, k
<1>7. PICK L \in Nat, C \in Nat :
        L = 2 * u + v + w + 2 * s + t + 2 * (MaxBlocks - mined) /\ C = a + b
    BY <1>1
<1>8. L = Load(wire, outq, mined) /\ C = Chat(wire)
    BY <1>4, <1>5, <1>7, Zenon DEF Load, Chat
<1>9. L + C >= 1
    BY <1>1, <1>6, <1>7
<1> QED BY <1>8, <1>9

\* The dialer polls, or waits for its Pong.
LEMMA PollDialer ==
    ASSUME WireInv, WireInv', PollInv, DialerPoll \/ DialerPong
    PROVE  PollInv'
<1> DEFINE m == Head(wire[Dialer])
<1>0. /\ Dialer \in Node /\ at \in [Node -> Place] /\ MaxBlocks \in Nat /\ wire[Dialer] # <<>>
    BY Counters DEF DialerPoll, DialerPong, Next1
<1>1. PICK place, budget :
        /\ Read(Dialer, place, budget)
        /\ \/ /\ at[Dialer] = "poll" /\ m.kind # "Height" /\ budget = left[Dialer] - 1
              /\ place = IF left[Dialer] = 1 THEN "gave up" ELSE "poll"
           \/ at[Dialer] = "pong" /\ place = "drain"
    BY Zenon DEF DialerPoll, DialerPong
<1>2. mined' = mined /\ mined \in 0..MaxBlocks
    BY <1>1 DEF Read, PollInv
<1>3. CASE Fatal(Dialer, m) # "none"
    <2>1. Close(Fatal(Dialer, m))
        BY <1>1, <1>3, Zenon DEF Read
    <2>2. ~GaveUp(Fatal(Dialer, m))
        BY Zenon DEF Fatal, GaveUp
    <2> QED BY <1>2, <2>1, <2>2, PollClosed
<1>4. CASE Fatal(Dialer, m) = "none"
    <2>1. place # "gave up"
        <3> SUFFICES ASSUME at[Dialer] = "poll", left[Dialer] = 1, m.kind # "Height" PROVE FALSE
            BY <1>1
        <3>1. PICK L \in Nat, C \in Nat : L = Load(wire, outq, mined) /\ C = Chat(wire) /\ L + C >= 1
            BY <1>0, Pending
        <3>2. left[Dialer] > L + C
            BY <3>1 DEF PollInv
        <3> QED BY <3>1, <3>2
    <2>2. /\ wire' = [wire EXCEPT ![Dialer] = Tail(@), ![Other(Dialer)] = @ \o Reply(Dialer, m)]
          /\ at' = [at EXCEPT ![Dialer] = place] /\ left' = [left EXCEPT ![Dialer] = budget]
          /\ outq' = outq /\ why' = why
        BY <1>1, <1>4, <2>1, Zenon DEF Read
    <2>3. PICK a : Passed(Dialer, m.kind, a)
        BY <1>0, <1>4, <2>2, ReadTally
    <2> HIDE DEF m
    <2>a. PICK L \in Nat, M \in Nat, C \in Nat, D \in Nat, E \in Nat, F \in Nat :
            Lightens(m.kind, L, M, C, D, E, F)
        BY <1>2, <2>2, <2>3, DialerReads
    <2>4. /\ Totals(L, M, C, D, E, F) /\ InOrder(wire')
          /\ M <= L /\ D <= C /\ F <= E
          /\ m.kind # "Height" => M + D + 1 <= L + C
        BY <2>a DEF Lightens
    <2>5. at'[Dialer] = place
        BY <1>0, <2>2
    <2>6. /\ L <= 2 * MaxBlocks /\ C <= Allowed(at[Dialer]) /\ E <= Awaited(at[Dialer])
          /\ at[Dialer] = "poll" => left[Dialer] \in Nat /\ left[Dialer] > L + C
          /\ ~GaveUp(why)
        BY <2>4 DEF PollInv, Totals
    <2>7. Allowed(place) = 1 /\ Allowed(at[Dialer]) = 1 /\ Awaited(place) = Awaited(at[Dialer])
          /\ Awaited(place) \in {0, 1}
        BY <1>1, <2>1, Zenon DEF Allowed, Awaited
    <2>8. M <= 2 * MaxBlocks /\ D <= Allowed(at'[Dialer]) /\ F <= Awaited(at'[Dialer])
        <3>1. PICK o \in {0, 1} : o = Awaited(place)
            BY <2>7
        <3>2. C <= 1 /\ E <= o
            BY <2>6, <2>7, <3>1
        <3>3. M <= 2 * MaxBlocks /\ D <= 1 /\ F <= o
            BY <1>0, <2>4, <2>6, <3>2
        <3> QED BY <2>5, <2>7, <3>1, <3>3
    <2>9. ASSUME place = "poll" PROVE left'[Dialer] \in Nat /\ left'[Dialer] > M + D
        <3>1. at[Dialer] = "poll" /\ m.kind # "Height" /\ budget = left[Dialer] - 1
            BY <1>1, <2>9
        <3>2. PICK n \in Nat : n = left[Dialer] /\ n > L + C
            BY <2>6, <3>1
        <3>3. budget = n - 1 /\ n - 1 \in Nat /\ n - 1 > M + D
            BY <2>4, <3>1, <3>2
        <3>4. left'[Dialer] = budget
            BY <1>0, <2>2 DEF PollInv
        <3> QED BY <3>3, <3>4
    <2> QED BY <1>2, <2>2, <2>4, <2>5, <2>6, <2>8, <2>9 DEF PollInv, Totals
<1> QED BY <1>3, <1>4

\* A message that gets no answer leaves the queue of node n.
LEMMA DropTally ==
    ASSUME WireInv, NEW n \in Node, wire[n] # <<>>, wire' = [wire EXCEPT ![n] = Tail(@)]
    PROVE  Passed(n, Head(wire[n]).kind, "none")
<1> DEFINE k == Head(wire[n]).kind
           o == Other(n)
<1>1. /\ wire[n] \in Seq(Message) /\ wire[o] \in Seq(Message) /\ o \in Node /\ o # n
      /\ wire \in [Node -> Seq(Message)] /\ \A K : Tally(wire[o], K) \in Nat
    BY Counters, Others
<1>2. Answered(k, "none") /\ k \in Kinds
    <2>1. Head(wire[n]) \in Message
        BY <1>1, Heads
    <2> QED BY <2>1 DEF Message, Answered
<1>3. wire'[n] = Tail(wire[n]) /\ wire'[o] = wire[o]
    BY <1>1
<1> HIDE DEF o
<1>4. \A K : /\ Tally(wire'[n], K) = Tally(wire[n], K) - IF k \in K THEN 1 ELSE 0
             /\ Tally(wire'[n], K) \in Nat
    BY <1>1, <1>3, TallyTail, Zenon
<1>5. ASSUME NEW K \in SUBSET Kinds
      PROVE  Tally(wire'[o], K) = Tally(wire[o], K) + IF "none" \in K THEN 1 ELSE 0
    <2>1. "none" \notin K
        BY DEF Kinds
    <2>2. Tally(wire[o], K) = Tally(wire[o], K) + 0
        BY <1>1
    <2> QED BY <1>3, <2>1, <2>2, Zenon
<1>6. ASSUME NEW E, NEW C, Follows(wire[n], E, C)
      PROVE  Follows(wire'[n], E, C) /\ (k \in E => Tally(wire'[n], C) = 0)
    BY <1>1, <1>3, <1>6, FollowsTail, Zenon
<1> HIDE DEF k
<1>7. Passed(n, k, "none")
    BY <1>2, <1>3, <1>4, <1>5, <1>6 DEF Passed, o
<1> QED BY <1>7 DEF k

\* The dialer takes its Handshake, or the Height.
LEMMA PollHello ==
    ASSUME WireInv, WireInv', PollInv, DialerHello \/ DialerHeight
    PROVE  PollInv'
<1> DEFINE k == Head(wire[Dialer]).kind
<1>0. /\ Dialer \in Node /\ at \in [Node -> Place] /\ MaxBlocks \in Nat /\ wire[Dialer] # <<>>
      /\ mined \in 0..MaxBlocks
    BY Counters DEF DialerHello, DialerHeight, Next1, PollInv
<1>1. CASE DialerHello /\ Close("handshake")
    <2>1. mined' = mined
        BY <1>1 DEF DialerHello
    <2>2. ~GaveUp("handshake")
        BY Zenon DEF GaveUp
    <2> QED BY <1>1, <2>1, <2>2, PollClosed
<1>2. ASSUME NEW place, wire' = [wire EXCEPT ![Dialer] = Tail(@)], at' = [at EXCEPT ![Dialer] = place],
             left' = left \/ left' = [left EXCEPT ![Dialer] = 0],
             UNCHANGED <<outq, why, mined>>,
             \/ k = "Handshake" /\ at[Dialer] = "hello" /\ place = "drain"
             \/ k = "Height" /\ at[Dialer] = "poll" /\ place = "sleep"
      PROVE  PollInv'
    <2>1. Passed(Dialer, k, "none")
        BY <1>0, <1>2, DropTally
    <2>2. k = "Height" \/ k \in Chatter
        BY <1>2 DEF Chatter
    <2>3. at'[Dialer] = place /\ place # "poll"
        BY <1>0, <1>2
    <2> HIDE DEF k
    <2>a. PICK L \in Nat, M \in Nat, C \in Nat, D \in Nat, E \in Nat, F \in Nat :
            Lightens(k, L, M, C, D, E, F)
        BY <1>2, <2>1, DialerReads
    <2>4. /\ Totals(L, M, C, D, E, F) /\ InOrder(wire')
          /\ M <= L /\ F <= E
          /\ k \in Chatter => D + 1 <= C
          /\ k = "Height" => D = 0 /\ F + 1 <= E
        BY <2>a DEF Lightens
    <2>5. /\ L <= 2 * MaxBlocks /\ C <= Allowed(at[Dialer]) /\ E <= Awaited(at[Dialer])
        BY <2>4 DEF PollInv, Totals
    <2>6. D <= Allowed(place) /\ F <= Awaited(place)
        <3>1. CASE k = "Handshake"
            <4>1. at[Dialer] = "hello" /\ place = "drain"
                BY <1>2, <3>1
            <4>2. Allowed(at[Dialer]) = 2 /\ Awaited(at[Dialer]) = 0 /\ Allowed(place) = 1 /\ Awaited(place) = 0
                BY <4>1, Zenon DEF Allowed, Awaited
            <4>3. D + 1 <= C /\ C <= 2 /\ E <= 0
                BY <2>4, <2>5, <3>1, <4>2 DEF Chatter
            <4>4. D <= 1 /\ F <= 0
                BY <2>4, <4>3
            <4> QED BY <4>2, <4>4
        <3>2. CASE k = "Height"
            <4>1. at[Dialer] = "poll" /\ place = "sleep"
                BY <1>2, <3>2
            <4>2. Awaited(at[Dialer]) = 1 /\ Allowed(place) = 0 /\ Awaited(place) = 0
                BY <4>1, Zenon DEF Allowed, Awaited
            <4>3. D = 0 /\ F + 1 <= E /\ E <= 1
                BY <2>4, <2>5, <3>2, <4>2
            <4>4. D <= 0 /\ F <= 0
                BY <4>3
            <4> QED BY <4>2, <4>4
        <3> QED BY <1>2, <3>1, <3>2
    <2>7. M <= 2 * MaxBlocks
        BY <1>0, <2>4, <2>5
    <2>8. DOMAIN left' = Node /\ ~GaveUp(why')
        BY <1>2 DEF PollInv
    <2> QED BY <1>0, <1>2, <2>3, <2>4, <2>6, <2>7, <2>8 DEF PollInv, Totals
<1>3. CASE DialerHello /\ ~Close("handshake")
    <2>1. /\ k = "Handshake" /\ at[Dialer] = "hello" /\ at' = [at EXCEPT ![Dialer] = "drain"]
          /\ wire' = [wire EXCEPT ![Dialer] = Tail(@)] /\ UNCHANGED <<left, outq, why, mined>>
        BY <1>3 DEF DialerHello
    <2> QED BY <1>2, <2>1
<1>4. CASE DialerHeight
    <2>1. /\ k = "Height" /\ at[Dialer] = "poll" /\ at' = [at EXCEPT ![Dialer] = "sleep"]
          /\ wire' = [wire EXCEPT ![Dialer] = Tail(@)] /\ left' = [left EXCEPT ![Dialer] = 0]
          /\ UNCHANGED <<outq, why, mined>>
        BY <1>4 DEF DialerHeight
    <2> QED BY <1>2, <2>1
<1> QED BY <1>1, <1>3, <1>4

\* The listener reads, in its refresh or serving.
LEMMA PollListener ==
    ASSUME WireInv, WireInv', PollInv, ListenerRefresh \/ ListenerServe
    PROVE  PollInv'
<1> DEFINE m == Head(wire[Listener])
<1>0. /\ Dialer \in Node /\ Listener \in Node /\ Dialer # Listener /\ at \in [Node -> Place]
      /\ wire[Listener] # <<>> /\ mined \in 0..MaxBlocks /\ DOMAIN left = Node
    BY Counters DEF ListenerRefresh, ListenerServe, Next1, PollInv
<1>1. ASSUME NEW place, NEW budget, NEW a, at' = [at EXCEPT ![Listener] = place],
             left' = [left EXCEPT ![Listener] = budget], Passed(Listener, m.kind, a),
             UNCHANGED <<outq, why, mined>>
      PROVE  PollInv'
    <2> HIDE DEF m
    <2>1. PICK L \in Nat, M \in Nat, C \in Nat, D \in Nat, E \in Nat, F \in Nat :
            Totals(L, M, C, D, E, F) /\ InOrder(wire') /\ M <= L /\ D <= C /\ F <= E
        BY <1>1, ListenerReads
    <2>2. at'[Dialer] = at[Dialer] /\ left'[Dialer] = left[Dialer] /\ DOMAIN left' = Node
        BY <1>0, <1>1
    <2> QED BY <1>0, <1>1, <2>1, <2>2, PollEased
<1>2. ASSUME NEW place, NEW budget, place # "gave up", Read(Listener, place, budget)
      PROVE  PollInv'
    <2>1. mined' = mined
        BY <1>2 DEF Read
    <2>2. CASE Fatal(Listener, m) # "none"
        <3>1. Close(Fatal(Listener, m))
            BY <1>2, <2>2, Zenon DEF Read
        <3>2. ~GaveUp(Fatal(Listener, m))
            BY Zenon DEF Fatal, GaveUp
        <3> QED BY <2>1, <3>1, <3>2, PollClosed
    <2>3. CASE Fatal(Listener, m) = "none"
        <3>1. /\ wire' = [wire EXCEPT ![Listener] = Tail(@), ![Other(Listener)] = @ \o Reply(Listener, m)]
              /\ at' = [at EXCEPT ![Listener] = place] /\ left' = [left EXCEPT ![Listener] = budget]
              /\ outq' = outq /\ why' = why
            BY <1>2, <2>3, Zenon DEF Read
        <3>2. PICK a : Passed(Listener, m.kind, a)
            BY <1>0, <2>3, <3>1, ReadTally
        <3> QED BY <1>1, <2>1, <3>1, <3>2
    <2> QED BY <2>2, <2>3
<1>3. \/ \E place, budget : place # "gave up" /\ Read(Listener, place, budget)
      \/ /\ wire' = [wire EXCEPT ![Listener] = Tail(@)] /\ at' = [at EXCEPT ![Listener] = "serve"]
         /\ left' = [left EXCEPT ![Listener] = 0] /\ UNCHANGED <<outq, why, mined>>
    <2>1. CASE ListenerServe
        <3>1. Read(Listener, "serve", 0) /\ "serve" # "gave up"
            BY <2>1, Zenon DEF ListenerServe
        <3> QED BY <3>1, Zenon
    <2>2. CASE ListenerRefresh /\ m.kind \in {"Height", "GetHeight", "Ping"}
        <3>1. PICK place \in {"serve", "refresh"} : \E budget : Read(Listener, place, budget)
            BY <2>2, Zenon DEF ListenerRefresh
        <3>2. place # "gave up"
            BY <3>1, Zenon
        <3> QED BY <3>1, <3>2, Zenon
    <2>3. CASE ListenerRefresh /\ m.kind \notin {"Height", "GetHeight", "Ping"}
        BY <2>3, Zenon DEF ListenerRefresh
    <2> QED BY <2>1, <2>2, <2>3
<1>4. CASE /\ wire' = [wire EXCEPT ![Listener] = Tail(@)] /\ at' = [at EXCEPT ![Listener] = "serve"]
           /\ left' = [left EXCEPT ![Listener] = 0] /\ UNCHANGED <<outq, why, mined>>
    <2>1. Passed(Listener, m.kind, "none")
        BY <1>0, <1>4, DropTally
    <2> QED BY <1>1, <1>4, <2>1
<1> QED BY <1>2, <1>3, <1>4, Zenon

\* Outside a poll no Height is on its way, nor asked for.
LEMMA NoneAwaited ==
    ASSUME WireInv, PollInv, at[Dialer] # "poll"
    PROVE  Tally(wire[Dialer], {"Height"}) = 0 /\ Tally(wire[Listener], {"GetHeight"}) = 0
<1>1. PICK d \in Nat, f \in Nat : d = Tally(wire[Dialer], {"Height"}) /\ f = Tally(wire[Listener], {"GetHeight"})
    BY Counters
<1>2. Ends(wire) = d + f /\ Ends(wire) <= 0
    BY <1>1 DEF PollInv, Ends, Awaited
<1> QED BY <1>1, <1>2

\* A wire that stays as it is.
LEMMA Still ==
    ASSUME WireInv, NEW n \in Node, wire'[n] = wire[n]
    PROVE  \A K : Gain(wire[n], wire'[n], K) = 0 /\ Tally(wire'[n], K) = Tally(wire[n], K)
BY Counters, Gains

\* One message x joins the queue of node n.
LEMMA PutTally ==
    ASSUME WireInv, NEW n \in Node, NEW x \in Message, wire' = [wire EXCEPT ![n] = Append(@, x)]
    PROVE  /\ wire'[n] = wire[n] \o <<x>> /\ wire'[Other(n)] = wire[Other(n)]
           /\ \A K : Gain(wire[n], wire'[n], K) = One(x.kind, K)
           /\ \A K : Gain(wire[Other(n)], wire'[Other(n)], K) = 0
           /\ \A E, C : Follows(wire[n], E, C) /\ (Tally(wire[n], E) = 0 \/ x.kind \notin C) =>
                Follows(wire'[n], E, C)
<1> DEFINE o == Other(n)
<1>1. /\ wire[n] \in Seq(Message) /\ wire[o] \in Seq(Message) /\ o \in Node /\ o # n
      /\ wire \in [Node -> Seq(Message)] /\ \A K : Tally(wire[n], K) \in Nat
    BY Counters, Others
<1>2. wire'[n] = wire[n] \o <<x>> /\ wire'[o] = wire[o]
    <2>1. Append(wire[n], x) = wire[n] \o <<x>>
        BY <1>1
    <2> QED BY <1>1, <2>1
<1>3. ASSUME NEW K PROVE Gain(wire[n], wire'[n], K) = One(x.kind, K)
    <2>1. Tally(wire'[n], K) = Tally(wire[n], K) + One(x.kind, K)
        <3>1. Tally(wire[n] \o <<x>>, K) = Tally(wire[n], K) + (IF x.kind \in K THEN 1 ELSE 0)
            BY <1>1, TallyPut
        <3> QED BY <1>2, <3>1, Zenon DEF One
    <2>2. PICK t \in Nat, o1 \in {0, 1} : t = Tally(wire[n], K) /\ o1 = One(x.kind, K)
        BY <1>1, Zenon DEF One
    <2>3. (t + o1) - t = o1
        OBVIOUS
    <2> QED BY <2>1, <2>2, <2>3, Zenon DEF Gain
<1>4. \A K : Gain(wire[o], wire'[o], K) = 0
    BY <1>1, <1>2, Still
<1>5. ASSUME NEW E, NEW C, Follows(wire[n], E, C), Tally(wire[n], E) = 0 \/ x.kind \notin C
      PROVE  Follows(wire'[n], E, C)
    <2> DEFINE r == <<x>>
    <2>1. r \in Seq(Message) /\ Follows(r, E, C) /\ (x.kind \notin C => Tally(r, C) = 0)
        BY Singles, FollowsShort, TallySingle, Zenon
    <2> HIDE DEF r
    <2>2. Follows(wire[n] \o r, E, C)
        BY <1>1, <1>5, <2>1, FollowsConcat, Zenon
    <2> QED BY <1>2, <2>2 DEF r
<1> QED BY <1>2, <1>3, <1>4, <1>5

\* The dialer connects.
LEMMA PollConnect ==
    ASSUME WireInv, WireInv', PollInv, Connect
    PROVE  PollInv'
<1> DEFINE x == Plain("Handshake")
           r == <<x>>
<1>1. /\ at[Dialer] = "down" /\ at' = [n \in Node |-> "hello"] /\ wire' = [wire EXCEPT ![Listener] = r]
      /\ UNCHANGED <<left, outq, why, mined>>
    BY DEF Connect
<1>2. /\ Dialer \in Node /\ Listener \in Node /\ Dialer # Listener /\ wire \in [Node -> Seq(Message)]
      /\ wire[Dialer] = <<>> /\ wire[Listener] = <<>>
    BY <1>1, Counters DEF WireInv, QuietInv
<1>3. x \in Message /\ x.kind = "Handshake" /\ r \in Seq(Message)
    BY Messages, NoBlockIsNone, Singles DEF Kinds
<1>4. /\ Tally(r, {"AnnounceBlock", "GetBlock"}) = 0 /\ Tally(r, {"Ping"}) = 0
      /\ Tally(r, {"GetHeight"}) = 0
    <2>1. ASSUME NEW K, "Handshake" \notin K PROVE Tally(r, K) = 0
        BY <1>3, <2>1, TallySingle, Zenon
    <2>2. "Handshake" \notin {"AnnounceBlock", "GetBlock"} /\ "Handshake" \notin {"Ping"}
          /\ "Handshake" \notin {"GetHeight"}
        OBVIOUS
    <2> QED BY <2>1, <2>2, Zenon
<1>5. \A E, C : Follows(r, E, C) /\ Follows(<<>>, E, C)
    BY <1>3, FollowsShort, Zenon
<1>6. wire'[Dialer] = wire[Dialer] /\ wire'[Listener] = r /\ at'[Dialer] = "hello"
    BY <1>1, <1>2
<1> HIDE DEF r
<1>7. /\ Load(wire', outq', mined') = Load(wire, outq, mined)
      /\ Chat(wire') = Chat(wire) /\ Ends(wire') = Ends(wire)
    <2>1. /\ Tally(wire'[Listener], {"AnnounceBlock", "GetBlock"}) = Tally(wire[Listener], {"AnnounceBlock", "GetBlock"})
          /\ Tally(wire'[Listener], {"Ping"}) = Tally(wire[Listener], {"Ping"})
          /\ Tally(wire'[Listener], {"GetHeight"}) = Tally(wire[Listener], {"GetHeight"})
        BY <1>2, <1>4, <1>6, TallyEmpty, Zenon
    <2> QED BY <1>1, <1>6, <2>1, Zenon DEF Load, Chat, Ends
<1>8. InOrder(wire')
    <2>1. Tally(wire'[Dialer], {"Height"}) = 0
        BY <1>2, <1>6, TallyEmpty, Zenon
    <2> QED BY <1>2, <1>5, <1>6, <2>1, Zenon DEF InOrder
<1>9. Chat(wire') <= Allowed(at'[Dialer]) /\ Ends(wire') <= Awaited(at'[Dialer])
    <2>1. Allowed(at[Dialer]) = 1 /\ Allowed(at'[Dialer]) = 2 /\ Awaited(at'[Dialer]) = Awaited(at[Dialer])
        BY <1>1, <1>6, Zenon DEF Allowed, Awaited
    <2>2. Chat(wire) = 0 + 0
        BY <1>2, TallyEmpty, Zenon DEF Chat
    <2>3. Chat(wire) <= 2
        BY <2>2
    <2> QED BY <1>7, <2>1, <2>3 DEF PollInv
<1> QED BY <1>1, <1>6, <1>7, <1>8, <1>9, Zenon DEF PollInv

\* The dialer asks for the Height, after its announcements.
LEMMA PollDrain ==
    ASSUME 2 * MaxBlocks + 1 < PollLimit, WireInv, WireInv', PollInv, Drain
    PROVE  PollInv'
<1> DEFINE q == wire[Listener]
           r == outq[Dialer]
           x == Plain("GetHeight")
<1>1. /\ at[Dialer] = "drain" /\ at' = [at EXCEPT ![Dialer] = "poll"]
      /\ wire' = [wire EXCEPT ![Listener] = (q \o r) \o <<x>>] /\ outq' = [outq EXCEPT ![Dialer] = <<>>]
      /\ left' = [left EXCEPT ![Dialer] = PollLimit] /\ UNCHANGED <<why, mined>>
    BY DEF Drain
<1>2. /\ Dialer \in Node /\ Listener \in Node /\ Dialer # Listener /\ mined \in 0..MaxBlocks
      /\ MaxBlocks \in Nat /\ wire \in [Node -> Seq(Message)] /\ wire' \in [Node -> Seq(Message)]
      /\ outq \in [Node -> Seq(Announcement)] /\ outq' \in [Node -> Seq(Announcement)]
      /\ InOrder(wire) /\ at \in [Node -> Place] /\ DOMAIN left = Node /\ PollLimit \in Nat
      /\ mined' \in 0..MaxBlocks
      /\ \A K : Tally(wire[Dialer], K) \in Nat /\ Tally(wire[Listener], K) \in Nat
    BY <1>1, Setting, Counters, WireAssumption DEF PollInv
<1>3. /\ x \in Message /\ x.kind = "GetHeight" /\ q \in Seq(Message) /\ r \in Seq(Announcement)
    BY <1>2, Messages, NoBlockIsNone DEF Kinds
<1>4. /\ wire'[Dialer] = wire[Dialer] /\ wire'[Listener] = (q \o r) \o <<x>>
      /\ outq'[Dialer] = <<>> /\ outq'[Listener] = outq[Listener]
      /\ at'[Dialer] = "poll" /\ left'[Dialer] = PollLimit /\ DOMAIN left' = Node
    BY <1>1, <1>2
<1> HIDE DEF q, r, x
<1>5. PICK n \in Nat : n = Len(r)
    BY <1>3
<1>6. r \in Seq(Message) /\ q \o r \in Seq(Message)
    BY <1>3, TallyAnnounced, ConcatProperties
<1>7. ASSUME NEW K, NEW u \in Nat, u = Tally(r, K) PROVE Gain(q, wire'[Listener], K) = u + One("GetHeight", K)
    <2>1. Tally(q \o r, K) = Tally(q, K) + Tally(r, K)
        BY <1>3, <1>6, TallyConcat
    <2>2. Tally((q \o r) \o <<x>>, K) = Tally(q \o r, K) + One("GetHeight", K)
        <3>1. PICK p \in Seq(Message) : p = q \o r
            BY <1>6
        <3>2. Tally(p \o <<x>>, K) = Tally(p, K) + (IF x.kind \in K THEN 1 ELSE 0)
            BY <1>3, TallyPut
        <3> QED BY <1>3, <3>1, <3>2, Zenon DEF One
    <2>3. PICK t \in Nat, o \in {0, 1} : t = Tally(q, K) /\ o = One("GetHeight", K)
        BY <1>2 DEF One, q
    <2>4. ((t + u) + o) - t = u + o
        OBVIOUS
    <2> QED BY <1>4, <1>7, <2>1, <2>2, <2>3, <2>4, Zenon DEF Gain
<1>8. /\ Tally(r, {"AnnounceBlock", "GetBlock"}) = n /\ Tally(r, {"Ping"}) = 0 /\ Tally(r, {"GetHeight"}) = 0
    BY <1>3, <1>5, TallyAnnounced
<1>9. /\ One("GetHeight", {"AnnounceBlock", "GetBlock"}) = 0 /\ One("GetHeight", {"Ping"}) = 0
      /\ One("GetHeight", {"GetHeight"}) = 1
    BY DEF One
<1>10. /\ Gain(wire[Listener], wire'[Listener], {"AnnounceBlock", "GetBlock"}) = n
       /\ Gain(wire[Listener], wire'[Listener], {"Ping"}) = 0
       /\ Gain(wire[Listener], wire'[Listener], {"GetHeight"}) = 1
    <2>1. n + 0 = n /\ 0 + 0 = 0 /\ 0 + 1 = 1 /\ 0 \in Nat
        OBVIOUS
    <2> QED BY <1>7, <1>8, <1>9, <2>1 DEF q
<1>11. \A K : Gain(wire[Dialer], wire'[Dialer], K) = 0
    BY <1>2, <1>4, Still
<1>12. /\ Len(outq'[Listener]) - Len(outq[Listener]) = 0 /\ Len(outq'[Dialer]) - Len(outq[Dialer]) = -n
       /\ mined' - mined = 0
    <2>1. Len(outq'[Dialer]) = 0 /\ Len(outq[Dialer]) = n /\ Len(outq[Listener]) \in Nat
        BY <1>2, <1>4, <1>5 DEF r
    <2> QED BY <1>1, <1>2, <1>4, <2>1
<1>13. PICK L \in Nat, M \in Nat, C \in Nat, D \in Nat, E \in Nat, F \in Nat :
        /\ Totals(L, M, C, D, E, F)
        /\ M = L + (2 * 0 + 0 + n + 2 * 0 + (-n) - 2 * 0) /\ D = C + (0 + 0) /\ F = E + (0 + 1)
    <2>1. Summed(wire, wire', outq, outq', mined, mined')
        BY <1>2, Shift
    <2> QED BY <1>10, <1>11, <1>12, <2>1, Zenon DEF Summed, Totals
<1>14. L <= 2 * MaxBlocks /\ C <= 1 /\ E <= 0
    <2>1. Allowed(at[Dialer]) = 1 /\ Awaited(at[Dialer]) = 0
        BY <1>1, Zenon DEF Allowed, Awaited
    <2> QED BY <1>13, <2>1 DEF PollInv, Totals
<1>15. M <= 2 * MaxBlocks /\ D <= 1 /\ F <= 1 /\ PollLimit > M + D
    BY <1>2, <1>13, <1>14
<1>16. InOrder(wire')
    <2>1. Tally(wire[Dialer], {"Height"}) = 0 /\ Tally(wire[Listener], {"GetHeight"}) = 0
        BY <1>1, NoneAwaited
    <2>2. \A i \in DOMAIN r : r[i].kind = "AnnounceBlock"
        BY <1>3 DEF Announcement
    <2>3. Follows(r, {"GetHeight"}, {"Ping"})
        BY <2>2 DEF Follows
    <2>4. Follows(q \o r, {"GetHeight"}, {"Ping"})
        BY <1>2, <1>3, <1>6, <2>1, <2>3, FollowsConcat, Zenon DEF InOrder, q
    <2>5. PICK s : s = <<x>>
        OBVIOUS
    <2>6. s \in Seq(Message) /\ Follows(s, {"GetHeight"}, {"Ping"}) /\ Tally(s, {"Ping"}) = 0
        <3>1. Tally(s, {"Ping"}) = One("GetHeight", {"Ping"})
            BY <1>3, <2>5, TallySingle, Zenon DEF One
        <3> QED BY <1>3, <1>9, <2>5, <3>1, Singles, FollowsShort, Zenon
    <2>7. Follows((q \o r) \o s, {"GetHeight"}, {"Ping"})
        BY <1>6, <2>4, <2>6, FollowsConcat, Zenon
    <2> QED BY <1>2, <1>4, <2>1, <2>5, <2>7, Zenon DEF InOrder
<1>17. Allowed(at'[Dialer]) = 1 /\ Awaited(at'[Dialer]) = 1
    BY <1>4, Zenon DEF Allowed, Awaited
<1>18. ~GaveUp(why')
    BY <1>1 DEF PollInv
<1> QED BY <1>2, <1>4, <1>13, <1>15, <1>16, <1>17, <1>18 DEF PollInv, Totals

\* The dialer sends its Ping.
LEMMA PollPing ==
    ASSUME WireInv, WireInv', PollInv, Ping
    PROVE  PollInv'
<1>1. PICK x : x = Plain("Ping")
    OBVIOUS
<1>2. /\ at[Dialer] = "sleep" /\ at' = [at EXCEPT ![Dialer] = "pong"]
      /\ wire' = [wire EXCEPT ![Listener] = Append(@, x)] /\ UNCHANGED <<left, outq, why, mined>>
    BY <1>1 DEF Ping
<1>3. x \in Message /\ x.kind = "Ping"
    BY <1>1, Messages, NoBlockIsNone DEF Kinds
<1>4. /\ Dialer \in Node /\ Listener \in Node /\ mined \in 0..MaxBlocks /\ mined' \in 0..MaxBlocks
      /\ MaxBlocks \in Nat /\ wire \in [Node -> Seq(Message)] /\ wire' \in [Node -> Seq(Message)]
      /\ outq \in [Node -> Seq(Announcement)] /\ outq' \in [Node -> Seq(Announcement)]
      /\ InOrder(wire) /\ at \in [Node -> Place] /\ Other(Listener) = Dialer
      /\ Len(outq[Dialer]) \in Nat /\ Len(outq[Listener]) \in Nat
    BY <1>2, Setting, Counters DEF PollInv
<1>5. at'[Dialer] = "pong"
    BY <1>2, <1>4
<1>6. /\ \A K : Gain(wire[Listener], wire'[Listener], K) = One("Ping", K)
      /\ \A K : Gain(wire[Dialer], wire'[Dialer], K) = 0
      /\ wire'[Dialer] = wire[Dialer]
      /\ \A E, C : Follows(wire[Listener], E, C) /\ (Tally(wire[Listener], E) = 0 \/ "Ping" \notin C) =>
           Follows(wire'[Listener], E, C)
    <2>1. /\ wire'[Other(Listener)] = wire[Other(Listener)]
          /\ \A K : Gain(wire[Listener], wire'[Listener], K) = One(x.kind, K)
          /\ \A K : Gain(wire[Other(Listener)], wire'[Other(Listener)], K) = 0
          /\ \A E, C : Follows(wire[Listener], E, C) /\ (Tally(wire[Listener], E) = 0 \/ x.kind \notin C) =>
               Follows(wire'[Listener], E, C)
        BY <1>2, <1>3, <1>4, PutTally
    <2> QED BY <1>3, <1>4, <2>1, Zenon
<1>7. One("Ping", {"AnnounceBlock", "GetBlock"}) = 0 /\ One("Ping", {"Ping"}) = 1 /\ One("Ping", {"GetHeight"}) = 0
    BY DEF One
<1>8. /\ Len(outq'[Listener]) - Len(outq[Listener]) = 0 /\ Len(outq'[Dialer]) - Len(outq[Dialer]) = 0
      /\ mined' - mined = 0
    BY <1>2, <1>4
<1>9. PICK L \in Nat, M \in Nat, C \in Nat, D \in Nat, E \in Nat, F \in Nat :
        /\ Totals(L, M, C, D, E, F)
        /\ M = L + (2 * 0 + 0 + 0 + 2 * 0 + 0 - 2 * 0) /\ D = C + (0 + 1) /\ F = E + (0 + 0)
    <2>1. Summed(wire, wire', outq, outq', mined, mined')
        BY <1>4, Shift
    <2> QED BY <1>6, <1>7, <1>8, <2>1, Zenon DEF Summed, Totals
<1>10. L <= 2 * MaxBlocks /\ C <= 0 /\ E <= 0
    <2>1. Allowed(at[Dialer]) = 0 /\ Awaited(at[Dialer]) = 0
        BY <1>2, Zenon DEF Allowed, Awaited
    <2> QED BY <1>9, <2>1 DEF PollInv, Totals
<1>11. M <= 2 * MaxBlocks /\ D <= 1 /\ F <= 0
    BY <1>4, <1>9, <1>10
<1>12. Allowed(at'[Dialer]) = 1 /\ Awaited(at'[Dialer]) = 0
    BY <1>5, Zenon DEF Allowed, Awaited
<1>13. InOrder(wire')
    <2>1. Tally(wire[Dialer], {"Height"}) = 0 /\ Tally(wire[Listener], {"GetHeight"}) = 0
        BY <1>2, NoneAwaited
    <2> QED BY <1>4, <1>6, <2>1, Zenon DEF InOrder
<1> QED BY <1>2, <1>4, <1>5, <1>9, <1>11, <1>12, <1>13 DEF PollInv, Totals

\* The listener sends an announcement.
LEMMA PollSend ==
    ASSUME WireInv, WireInv', PollInv, ListenerSend
    PROVE  PollInv'
<1>1. PICK x : x = Head(outq[Listener])
    OBVIOUS
<1>2. /\ wire' = [wire EXCEPT ![Dialer] = Append(@, x)] /\ outq' = [outq EXCEPT ![Listener] = Tail(@)]
      /\ outq[Listener] # <<>> /\ UNCHANGED <<at, left, why, mined>>
    BY <1>1 DEF ListenerSend
<1>3. /\ Dialer \in Node /\ Listener \in Node /\ mined \in 0..MaxBlocks /\ mined' \in 0..MaxBlocks
      /\ Dialer # Listener /\ wire \in [Node -> Seq(Message)] /\ wire' \in [Node -> Seq(Message)]
      /\ outq \in [Node -> Seq(Announcement)] /\ outq' \in [Node -> Seq(Announcement)]
      /\ InOrder(wire) /\ Other(Dialer) = Listener /\ MaxBlocks \in Nat
      /\ Len(outq[Dialer]) \in Nat /\ outq[Listener] \in Seq(Announcement)
    BY <1>2, Setting, Counters DEF PollInv
<1>4. x \in Message /\ x.kind = "AnnounceBlock"
    <2>1. x \in Announcement
        BY <1>1, <1>2, <1>3, Heads
    <2> QED BY <2>1 DEF Announcement
<1>5. /\ \A K : Gain(wire[Dialer], wire'[Dialer], K) = One("AnnounceBlock", K)
      /\ \A K : Gain(wire[Listener], wire'[Listener], K) = 0
      /\ wire'[Listener] = wire[Listener]
      /\ \A E, C : Follows(wire[Dialer], E, C) /\ (Tally(wire[Dialer], E) = 0 \/ "AnnounceBlock" \notin C) =>
           Follows(wire'[Dialer], E, C)
    <2>1. /\ wire'[Other(Dialer)] = wire[Other(Dialer)]
          /\ \A K : Gain(wire[Dialer], wire'[Dialer], K) = One(x.kind, K)
          /\ \A K : Gain(wire[Other(Dialer)], wire'[Other(Dialer)], K) = 0
          /\ \A E, C : Follows(wire[Dialer], E, C) /\ (Tally(wire[Dialer], E) = 0 \/ x.kind \notin C) =>
               Follows(wire'[Dialer], E, C)
        BY <1>2, <1>3, <1>4, PutTally
    <2> QED BY <1>3, <1>4, <2>1, Zenon
<1>6. /\ One("AnnounceBlock", {"AnnounceBlock"}) = 1 /\ One("AnnounceBlock", Requests) = 0
      /\ One("AnnounceBlock", Chatter) = 0 /\ One("AnnounceBlock", {"Height"}) = 0 /\ "AnnounceBlock" \notin Chatter
    BY DEF One, Requests, Chatter
<1>7. /\ Len(outq'[Listener]) - Len(outq[Listener]) = -1 /\ Len(outq'[Dialer]) - Len(outq[Dialer]) = 0
      /\ mined' - mined = 0
    <2>1. outq'[Listener] = Tail(outq[Listener]) /\ outq'[Dialer] = outq[Dialer]
        BY <1>2, <1>3
    <2>2. PICK n \in Nat : n = Len(outq[Listener]) /\ Len(Tail(outq[Listener])) = n - 1
        BY <1>2, <1>3, HeadTailProperties
    <2> QED BY <1>2, <1>3, <2>1, <2>2
<1>8. PICK L \in Nat, M \in Nat, C \in Nat, D \in Nat, E \in Nat, F \in Nat :
        /\ Totals(L, M, C, D, E, F)
        /\ M = L + (2 * 1 + 0 + 0 + 2 * (-1) + 0 - 2 * 0) /\ D = C + (0 + 0) /\ F = E + (0 + 0)
    <2>1. Summed(wire, wire', outq, outq', mined, mined')
        BY <1>3, Shift
    <2>2. /\ Gain(wire[Dialer], wire'[Dialer], {"AnnounceBlock"}) = 1
          /\ Gain(wire[Dialer], wire'[Dialer], Requests) = 0 /\ Gain(wire[Dialer], wire'[Dialer], Chatter) = 0
          /\ Gain(wire[Dialer], wire'[Dialer], {"Height"}) = 0
        BY <1>5, <1>6, Zenon
    <2> QED BY <1>5, <1>7, <2>1, <2>2, Zenon DEF Summed, Totals
<1>9. M <= L /\ D <= C /\ F <= E
    BY <1>8
<1>10. InOrder(wire')
    <2>1. Tally(wire'[Dialer], {"Height"}) = Tally(wire[Dialer], {"Height"})
        <3>1. Gain(wire[Dialer], wire'[Dialer], {"Height"}) = 0
            BY <1>5, <1>6
        <3>2. Tally(wire[Dialer], {"Height"}) \in Nat /\ Tally(wire'[Dialer], {"Height"}) \in Nat
            BY <1>3, Setting
        <3> QED BY <3>1, <3>2 DEF Gain
    <2> QED BY <1>3, <1>5, <1>6, <2>1, Zenon DEF InOrder
<1> QED BY <1>2, <1>3, <1>8, <1>9, <1>10, PollEased DEF PollInv

\* A block is mined.
LEMMA PollMine ==
    ASSUME WireInv, WireInv', PollInv, NEW n \in Node, Mine(n)
    PROVE  PollInv'
<1>1. PICK x : x = Msg("AnnounceBlock", Append(tip[n], n))
    OBVIOUS
<1>2. /\ outq' = [outq EXCEPT ![n] = Append(@, x)] \/ outq' = outq
      /\ mined < MaxBlocks /\ mined' = mined + 1 /\ UNCHANGED <<wire, at, left, why>>
    BY <1>1, Zenon DEF Mine
<1>3. mined \in 0..MaxBlocks /\ MaxBlocks \in Nat
    BY Counters DEF PollInv
<1>4. mined' \in 0..MaxBlocks /\ mined' - mined = 1
    BY <1>2, <1>3
<1>5. /\ Dialer \in Node /\ Listener \in Node /\ Dialer # Listener /\ Node = {Dialer, Listener}
      /\ wire \in [Node -> Seq(Message)] /\ wire' \in [Node -> Seq(Message)]
      /\ outq \in [Node -> Seq(Announcement)] /\ outq' \in [Node -> Seq(Announcement)] /\ InOrder(wire)
    BY <1>4, Setting DEF Node
<1>6. PICK a \in {0, 1}, b \in {0, 1} :
        /\ Len(outq'[Listener]) - Len(outq[Listener]) = a /\ Len(outq'[Dialer]) - Len(outq[Dialer]) = b
        /\ a = 0 \/ b = 0
    <2>1. PICK s \in Nat, t \in Nat : s = Len(outq[Listener]) /\ t = Len(outq[Dialer])
        BY Counters
    <2>2. s - s = 0 /\ t - t = 0 /\ (s + 1) - s = 1 /\ (t + 1) - t = 1
        OBVIOUS
    <2>3. CASE outq' = outq
        BY <2>1, <2>2, <2>3
    <2>4. ASSUME outq' = [outq EXCEPT ![n] = Append(@, x)]
          PROVE  /\ \A u \in Node : u # n => outq'[u] = outq[u]
                 /\ Len(outq'[n]) = Len(outq[n]) + 1
        <3>1. outq[n] \in Seq(Announcement)
            BY <1>5
        <3>2. Len(Append(outq[n], x)) = Len(outq[n]) + 1
            BY <3>1
        <3> QED BY <1>5, <2>4, <3>2
    <2>5. CASE outq' # outq /\ n = Listener
        BY <1>2, <1>5, <2>1, <2>2, <2>4, <2>5
    <2>6. CASE outq' # outq /\ n = Dialer
        BY <1>2, <1>5, <2>1, <2>2, <2>4, <2>6
    <2> QED BY <1>5, <2>3, <2>5, <2>6
<1>7. /\ \A K : Gain(wire[Dialer], wire'[Dialer], K) = 0
      /\ \A K : Gain(wire[Listener], wire'[Listener], K) = 0
    BY <1>2, <1>5, Still
<1>8. PICK L \in Nat, M \in Nat, C \in Nat, D \in Nat, E \in Nat, F \in Nat :
        /\ Totals(L, M, C, D, E, F)
        /\ M = L + (2 * 0 + 0 + 0 + 2 * a + b - 2 * 1) /\ D = C + (0 + 0) /\ F = E + (0 + 0)
    <2>1. Summed(wire, wire', outq, outq', mined, mined')
        BY <1>3, <1>4, <1>5, Shift
    <2> QED BY <1>4, <1>6, <1>7, <2>1, Zenon DEF Summed, Totals
<1>9. M <= L /\ D <= C /\ F <= E
    BY <1>6, <1>8
<1> QED BY <1>2, <1>4, <1>5, <1>8, <1>9, PollEased DEF PollInv

\* The listener answers the handshake and, with an address to dial, asks for the Height.
LEMMA PollListenerHello ==
    ASSUME WireInv, WireInv', FlowInv, PollInv, ListenerHello
    PROVE  PollInv'
<1> DEFINE h == Plain("Handshake")
           g == Plain("GetHeight")
           r == IF Advertises THEN <<g>> ELSE <<>>
<1>0. mined' = mined /\ mined \in 0..MaxBlocks /\ wire[Listener] # <<>> /\ at[Listener] = "hello"
    BY DEF ListenerHello, PollInv, Next1
<1>1. CASE \E reason \in {"before handshake", "handshake"} : Close(reason)
    <2>1. PICK reason \in {"before handshake", "handshake"} : Close(reason)
        BY <1>1
    <2>2. ~GaveUp(reason)
        BY <2>1, Zenon DEF GaveUp
    <2>3. Close(reason)
        BY <2>1, Zenon
    <2> QED BY <1>0, <2>2, <2>3, PollClosed, Zenon
<1>2. CASE ~\E reason \in {"before handshake", "handshake"} : Close(reason)
    <2>1. /\ wire' = [wire EXCEPT ![Listener] = Tail(@), ![Dialer] = (@ \o <<h>>) \o r]
          /\ at' = [at EXCEPT ![Listener] = IF Advertises THEN "refresh" ELSE "serve"]
          /\ left' = [left EXCEPT ![Listener] = IF Advertises THEN PollLimit ELSE 0]
          /\ UNCHANGED <<outq, why, mined>>
        BY <1>2, Zenon DEF ListenerHello
    <2>2. at[Dialer] = "hello" /\ wire[Dialer] = <<>> /\ wire[Listener] = <<h>>
        BY <1>0, Zenon DEF FlowInv
    <2>3. h.kind = "Handshake" /\ h \in Message /\ g.kind = "GetHeight" /\ g \in Message
        BY PlainMessages
    <2>4. /\ Dialer \in Node /\ Listener \in Node /\ Dialer # Listener /\ DOMAIN left = Node
          /\ wire \in [Node -> Seq(Message)] /\ at \in [Node -> Place] /\ ~GaveUp(why)
          /\ \A K : Tally(wire[Dialer], K) \in Nat /\ Tally(wire[Listener], K) \in Nat
        BY Counters DEF PollInv
    <2>5. /\ wire'[Listener] = Tail(<<h>>) /\ wire'[Dialer] = (<<>> \o <<h>>) \o r
          /\ at'[Dialer] = "hello" /\ DOMAIN left' = Node
        BY <2>1, <2>2, <2>4
    <2> HIDE DEF h, g
    <2>6. Tail(<<h>>) = <<>> /\ <<>> \o <<h>> = <<h>>
        BY <2>3, Singles, ConcatEmptySeq
    <2>7. PICK s : s = <<h>>
        OBVIOUS
    <2>8. r \in Seq(Message) /\ s \in Seq(Message)
        BY <2>3, <2>7, Singles
    <2>9. PICK v \in {0, 1} : /\ \A K : Tally(s, K) = One("Handshake", K)
                             /\ \A K : "GetHeight" \notin K => Tally(r, K) = 0
                             /\ Tally(r, Chatter) = v
                             /\ \A E, C : Follows(r, E, C) /\ Follows(s, E, C)
        <3>1. \A K : Tally(s, K) = One("Handshake", K)
            BY <2>3, <2>7, TallySingle, Zenon DEF One
        <3>2. \A E, C : Follows(s, E, C)
            BY <2>3, <2>7, FollowsShort, Zenon
        <3>3. CASE Advertises
            <4>1. \A K : Tally(<<g>>, K) = IF g.kind \in K THEN 1 ELSE 0
                BY <2>3, TallySingle, Zenon
            <4>2. \A E, C : Follows(<<g>>, E, C)
                BY <2>3, FollowsShort, Zenon
            <4>3. r = <<g>>
                BY <3>3, Zenon
            <4>4. "GetHeight" \in Chatter /\ 1 \in {0, 1}
                BY Zenon DEF Chatter
            <4> HIDE DEF r
            <4> QED BY <2>3, <3>1, <3>2, <4>1, <4>2, <4>3, <4>4, Zenon
        <3>4. CASE ~Advertises
            <4>1. r = <<>> /\ 0 \in {0, 1}
                BY <3>4, Zenon
            <4> HIDE DEF r
            <4> QED BY <3>1, <3>2, <4>1, TallyEmpty, FollowsShort, Zenon
        <3> QED BY <3>3, <3>4
    <2> HIDE DEF r
    <2>10. \A K : Tally(wire'[Dialer], K) = One("Handshake", K) + Tally(r, K) /\ Tally(wire'[Listener], K) = 0
        <3>1. \A K : Tally(s \o r, K) = Tally(s, K) + Tally(r, K)
            BY <2>8, TallyConcat
        <3> QED BY <2>5, <2>6, <2>7, <2>9, <3>1, TallyEmpty, Zenon
    <2>11. /\ One("Handshake", {"AnnounceBlock"}) = 0 /\ One("Handshake", Requests) = 0
           /\ One("Handshake", {"AnnounceBlock", "GetBlock"}) = 0 /\ One("Handshake", Chatter) = 1
           /\ One("Handshake", {"Height"}) = 0
           /\ "GetHeight" \notin {"AnnounceBlock"} /\ "GetHeight" \notin Requests /\ "GetHeight" \notin {"Height"}
        BY DEF One, Requests, Chatter
    <2>12. 0 + 0 = 0 /\ (1 + v) + 0 <= 2 /\ 0 + 0 <= 0
        OBVIOUS
    <2>13. /\ Tally(wire'[Dialer], {"AnnounceBlock"}) = 0 /\ Tally(wire'[Dialer], Requests) = 0
           /\ Tally(wire'[Dialer], {"Height"}) = 0 /\ Tally(wire'[Dialer], Chatter) = 1 + v
        BY <2>9, <2>10, <2>11, <2>12, Zenon
    <2>14. Tally(wire[Listener], {"AnnounceBlock", "GetBlock"}) = 0 /\ \A K : Tally(wire[Dialer], K) = 0
        BY <2>2, <2>7, <2>9, <2>11, TallyEmpty, Zenon
    <2>15. Load(wire', outq', mined') = Load(wire, outq, mined)
        BY <2>1, <2>10, <2>13, <2>14, Zenon DEF Load
    <2>16. Chat(wire') <= 2 /\ Ends(wire') <= 0
        BY <2>10, <2>12, <2>13, Zenon DEF Chat, Ends
    <2>17. InOrder(wire')
        <3>1. Tally(s, {"Height"}) = 0
            BY <2>9, <2>11, Zenon
        <3>2. Follows(s \o r, {"Height"}, Chatter)
            BY <2>8, <2>9, <3>1, FollowsConcat, Zenon
        <3>3. Follows(wire'[Dialer], {"Height"}, Chatter)
            BY <2>5, <2>6, <2>7, <3>2, Zenon
        <3>4. Follows(wire'[Listener], {"GetHeight"}, {"Ping"})
            BY <2>5, <2>6, FollowsShort, Zenon
        <3> QED BY <2>13, <3>3, <3>4, Zenon DEF InOrder
    <2>18. Allowed(at'[Dialer]) = 2 /\ Awaited(at'[Dialer]) = 0 /\ at'[Dialer] # "poll"
        BY <2>5, Zenon DEF Allowed, Awaited
    <2> QED BY <1>0, <2>1, <2>4, <2>5, <2>15, <2>16, <2>17, <2>18, Zenon DEF PollInv
<1> QED BY <1>1, <1>2

\* Every step keeps it.
LEMMA PollKept ==
    ASSUME 2 * MaxBlocks + 1 < PollLimit, WireInv, WireInv', FlowInv, PollInv, [Next]_vars
    PROVE  PollInv'
<1>1. CASE LinkDown
    <2>1. ~GaveUp("link")
        BY Zenon DEF GaveUp
    <2> QED BY <1>1, <2>1, PollClosed DEF LinkDown
<1>2. CASE Watchdog \/ Expire \/ UNCHANGED vars
    BY <1>2, PollSilent DEF Watchdog, Expire, vars, sessionVars
<1>3. ASSUME NEW n \in Node, Import(n) \/ Mine(n) \/ Cool(n)
      PROVE  PollInv'
    <2>1. CASE Import(n) \/ Cool(n)
        BY <2>1, PollSilent DEF Import, Cool, sessionVars
    <2> QED BY <1>3, <2>1, PollMine
<1>4. CASE DialerStep
    BY <1>4, PollConnect, PollHello, PollDrain, PollDialer, PollPing DEF DialerStep
<1>5. CASE ListenerStep
    BY <1>5, PollListenerHello, PollListener, PollSend DEF ListenerStep
<1> QED BY <1>1, <1>2, <1>3, <1>4, <1>5 DEF Next

\* And it holds before the first connection.
LEMMA PollInit ==
    ASSUME Init
    PROVE  PollInv
<1>1. Dialer \in Node /\ Listener \in Node /\ MaxBlocks \in Nat
    BY WireAssumption DEF Node
<1>2. /\ wire[Dialer] = <<>> /\ wire[Listener] = <<>> /\ outq[Dialer] = <<>> /\ outq[Listener] = <<>>
      /\ at[Dialer] = "down" /\ why = "none" /\ mined = 0 /\ DOMAIN left = Node
    BY <1>1 DEF Init
<1>3. \A K : Tally(wire[Dialer], K) = 0 /\ Tally(wire[Listener], K) = 0
    BY <1>2, TallyEmpty
<1>4. Len(outq[Dialer]) = 0 /\ Len(outq[Listener]) = 0
    BY <1>2
<1>5. /\ Load(wire, outq, mined) = 2 * 0 + 0 + 0 + 2 * 0 + 0 + 2 * (MaxBlocks - 0)
      /\ Chat(wire) = 0 + 0 /\ Ends(wire) = 0 + 0
    BY <1>2, <1>3, <1>4, Zenon DEF Load, Chat, Ends
<1>6. /\ 2 * 0 + 0 + 0 + 2 * 0 + 0 + 2 * (MaxBlocks - 0) <= 2 * MaxBlocks
      /\ 0 + 0 <= 1 /\ 0 + 0 <= 0 /\ 0 \in 0..MaxBlocks
    BY <1>1
<1>7. Allowed(at[Dialer]) = 1 /\ Awaited(at[Dialer]) = 0 /\ at[Dialer] # "poll" /\ ~GaveUp(why)
    BY <1>2, Zenon DEF Allowed, Awaited, GaveUp
<1>8. InOrder(wire)
    BY <1>2, <1>3, FollowsShort, Zenon DEF InOrder
<1> QED BY <1>2, <1>5, <1>6, <1>7, <1>8, Zenon DEF PollInv

(***************************************************************************)
(* SessionSound itself: with a budget of poll_peer_height greater than     *)
(* what the blocks mined can put before the Height (the announcement of    *)
(* each and the block it leads to, and one answer to a Ping left over), no *)
(* session between two nodes that run this program ends but with the       *)
(* connection or the handshake.                                            *)
(***************************************************************************)
THEOREM SessionSoundHolds ==
    ASSUME 2 * MaxBlocks + 1 < PollLimit
    PROVE  Spec => []SessionSound
<1>1. Init => PollInv
    BY PollInit
<1>2. (WireInv /\ GreetInv) /\ (WireInv /\ GreetInv)' /\ FlowInv /\ PollInv /\ [Next]_vars => PollInv'
    BY PollKept
<1>3. FlowInv /\ PollInv => SessionSound
    BY Zenon DEF FlowInv, Harmless, PollInv, GaveUp, SessionSound
<1> QED BY <1>1, <1>2, <1>3, WireInvariant, FlowInvariant, PTL DEF Spec

=============================================================================
