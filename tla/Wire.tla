-------------------------------- MODULE Wire --------------------------------
(***************************************************************************)
(* One connection between two nodes that both run this program: the dialer *)
(* in seed_peer_loop, the listener in handle_inbound_with_runtime, with    *)
(* the session queues that carry their announcements, the one slot for a   *)
(* requested block, and the channel to the importer of announced blocks.   *)
(* The stream delivers in order; when either side closes, both sides       *)
(* notice and what was still on the way is lost.                           *)
(*                                                                         *)
(* A block is the sequence of the nodes that mined its branch, <<>> being  *)
(* genesis, and work is height: forks of unequal work are Sync's subject.  *)
(***************************************************************************)
EXTENDS Integers, FiniteSets, SequencesExt

CONSTANTS
    Dialer, Listener,
    Greetings,    \* handshakes the listener may send
    Greeting,     \* the dialer's handshake
    Advertises,   \* the dialer advertises an address to dial it back
    PollLimit,    \* messages read while waiting for a Height
    QueueMax,     \* SESSION_OUTBOUND_CAPACITY
    ImportMax,    \* capacity of the channel to the importer
    MaxBlocks,    \* bound on blocks mined
    MaxFaults     \* bound on connections lost

Node == {Dialer, Listener}
Handshake == [node_nonce : Nat, protocol_version : Nat, chain_id : Nat, genesis_hash : Nat,
              econ_hash : Nat, pow_params_hash : Nat]

ASSUME WireAssumption ==
    /\ Dialer # Listener /\ "none" \notin Node
    /\ Greeting \in Handshake /\ Greetings \subseteq Handshake
    /\ Advertises \in BOOLEAN
    /\ PollLimit \in Nat \ {0} /\ QueueMax \in Nat \ {0} /\ ImportMax \in Nat \ {0}
    /\ MaxBlocks \in Nat /\ MaxFaults \in Nat

VARIABLES
    hello,      \* the handshake of each node
    known,      \* blocks each chain has
    tip,        \* and its tip
    orphans,    \* blocks in its orphan pool
    wire,       \* messages on their way to each node
    at,         \* where each node's session is
    left,       \* messages a node may still read before it gives up on a Height
    requested,  \* requested_block_hash
    outq,       \* the session's outbound queue
    inq,        \* the importer's channel
    cooling,    \* the node's sync guard is throttled
    seen,       \* what the listener's peer manager has on the dialer
    why,        \* why the last session ended
    mined, faults

chainVars == <<known, tip, orphans>>
sessionVars == <<wire, at, left, requested, outq>>
vars == <<hello, chainVars, sessionVars, inq, cooling, seen, why, mined, faults>>

Genesis == <<>>
NoBlock == <<"none">>
Other(n) == IF n = Dialer THEN Listener ELSE Dialer
Parent(b) == Front(b)
Branch(b) == {SubSeq(b, 1, i) : i \in 0..Len(b)}

Msg(kind, b) == [kind |-> kind, blk |-> b]
Plain(kind) == Msg(kind, NoBlock)

\* The message kinds that may come before the handshake is done.
is_pre_handshake(m) == m.kind \in {"Handshake", "Disconnect"}

\* Mutant: the economics are not compared.
ValidateLess(remote, ours) ==
    IF remote.node_nonce = ours.node_nonce THEN "SelfConnection"
    ELSE IF remote.protocol_version # ours.protocol_version THEN "VersionMismatch"
    ELSE IF remote.chain_id # ours.chain_id THEN "WrongChainId"
    ELSE IF remote.genesis_hash # ours.genesis_hash THEN "WrongGenesisHash"
    ELSE IF remote.pow_params_hash # ours.pow_params_hash THEN "WrongPowParams"
    ELSE "Accepted"

validate_handshake(remote, ours) ==
    IF remote.node_nonce = ours.node_nonce THEN "SelfConnection"
    ELSE IF remote.protocol_version # ours.protocol_version THEN "VersionMismatch"
    ELSE IF remote.chain_id # ours.chain_id THEN "WrongChainId"
    ELSE IF remote.genesis_hash # ours.genesis_hash THEN "WrongGenesisHash"
    ELSE IF remote.econ_hash # ours.econ_hash THEN "WrongEconHash"
    ELSE IF remote.pow_params_hash # ours.pow_params_hash THEN "WrongPowParams"
    ELSE "Accepted"

Init ==
    /\ hello \in {[n \in Node |-> IF n = Dialer THEN Greeting ELSE h] : h \in Greetings}
    /\ known = [n \in Node |-> {Genesis}] /\ tip = [n \in Node |-> Genesis]
    /\ orphans = [n \in Node |-> {}]
    /\ wire = [n \in Node |-> <<>>] /\ at = [n \in Node |-> "down"]
    /\ left = [n \in Node |-> 0] /\ requested = [n \in Node |-> NoBlock]
    /\ outq = [n \in Node |-> <<>>] /\ inq = [n \in Node |-> <<>>]
    /\ cooling = [n \in Node |-> FALSE]
    /\ seen = [fresh |-> FALSE, tip |-> Genesis]
    /\ why = "none"
    /\ mined = 0 /\ faults = 0

\* The session is in the registry: announcements are queued on it.
Registered(n) == at[n] \notin {"down", "hello"}

Close(reason) ==
    /\ wire' = [n \in Node |-> <<>>] /\ at' = [n \in Node |-> "down"]
    /\ left' = [n \in Node |-> 0] /\ requested' = [n \in Node |-> NoBlock]
    /\ outq' = [n \in Node |-> <<>>]
    /\ why' = reason
    /\ seen' = [fresh |-> FALSE, tip |-> Genesis]

-----------------------------------------------------------------------------
\* What a session does with a message once the handshake is done.

\* Mutant: the slot stays taken after the answer.
KeepSlot(n, m) ==
    IF m.kind = "AnnounceBlock" /\ m.blk \notin known[n] /\ requested[n] = NoBlock
    THEN m.blk ELSE requested[n]

\* The slot after the message: taken by an announcement of an unknown block when
\* it is free, given back by any block.
Slot(n, m) ==
    CASE m.kind = "AnnounceBlock" /\ m.blk \notin known[n] /\ requested[n] = NoBlock -> m.blk
      [] m.kind = "Block" -> NoBlock
      [] OTHER            -> requested[n]

\* Mutant: a block is served only from the canonical chain.
ServeCanonical(n, b) == b \in Branch(tip[n])

block_by_hash(n, b) == b \in known[n]

Reply(n, m) ==
    CASE m.kind = "AnnounceBlock" /\ Slot(n, m) # requested[n] -> <<Msg("GetBlock", m.blk)>>
      [] m.kind = "GetBlock"  -> IF block_by_hash(n, m.blk) THEN <<Msg("Block", m.blk)>>
                                 ELSE <<Plain("Disconnect")>>
      [] m.kind = "GetHeight" -> <<Msg("Height", tip[n])>>
      [] m.kind = "Ping"      -> <<Plain("Pong")>>
      [] OTHER                -> <<>>

\* Why the message ends the session, if it does.
Fatal(n, m) ==
    IF m.kind = "Handshake" THEN "duplicate handshake"
    ELSE IF m.kind = "Disconnect" THEN "disconnected"
    ELSE IF m.kind = "GetBlock" /\ ~block_by_hash(n, m.blk) THEN "unknown block"
    ELSE IF m.kind = "Block" /\ requested[n] = NoBlock THEN "unrequested block"
    ELSE IF m.kind = "Block" /\ requested[n] # m.blk THEN "wrong block"
    ELSE "none"

Queued(n, m) == IF m.kind = "Block" THEN <<m.blk>> ELSE <<>>

\* Read the next message and answer it; go to `place' with `budget' messages left.
Read(n, place, budget) ==
    LET m == Head(wire[n]) IN
    /\ Len(inq[n]) + Len(Queued(n, m)) <= ImportMax
    /\ IF Fatal(n, m) # "none"
       THEN Close(Fatal(n, m)) /\ UNCHANGED inq
       ELSE IF place = "gave up" THEN Close("message limit") /\ UNCHANGED inq
       ELSE /\ wire' = [wire EXCEPT ![n] = Tail(@), ![Other(n)] = @ \o Reply(n, m)]
            /\ requested' = [requested EXCEPT ![n] = Slot(n, m)]
            /\ inq' = [inq EXCEPT ![n] = @ \o Queued(n, m)]
            /\ at' = [at EXCEPT ![n] = place]
            /\ left' = [left EXCEPT ![n] = budget]
            /\ seen' = IF n = Listener /\ m.kind = "Height"
                       THEN [fresh |-> TRUE, tip |-> m.blk] ELSE seen
            /\ UNCHANGED <<outq, why>>
    /\ UNCHANGED <<hello, chainVars, cooling, mined, faults>>

Next1(n) == wire[n] # <<>>

-----------------------------------------------------------------------------
\* The dialer: seed_peer_loop.

Connect ==
    /\ at[Dialer] = "down"
    /\ at' = [n \in Node |-> "hello"]
    /\ wire' = [wire EXCEPT ![Listener] = <<Plain("Handshake")>>]
    /\ UNCHANGED <<hello, chainVars, left, requested, outq, inq, cooling, seen, why, mined,
                   faults>>

DialerHello ==
    /\ at[Dialer] = "hello" /\ Next1(Dialer)
    /\ IF /\ Head(wire[Dialer]).kind = "Handshake"
          /\ validate_handshake(hello[Listener], hello[Dialer]) = "Accepted"
       THEN /\ at' = [at EXCEPT ![Dialer] = "drain"]
            /\ wire' = [wire EXCEPT ![Dialer] = Tail(@)]
            /\ UNCHANGED <<left, requested, outq, why, seen>>
       ELSE Close("handshake")
    /\ UNCHANGED <<hello, chainVars, inq, cooling, mined, faults>>

\* The queued announcements, then GetHeight.
Drain ==
    /\ at[Dialer] = "drain"
    /\ wire' = [wire EXCEPT ![Listener] = @ \o outq[Dialer] \o <<Plain("GetHeight")>>]
    /\ outq' = [outq EXCEPT ![Dialer] = <<>>]
    /\ at' = [at EXCEPT ![Dialer] = "poll"]
    /\ left' = [left EXCEPT ![Dialer] = PollLimit]
    /\ UNCHANGED <<hello, chainVars, requested, inq, cooling, seen, why, mined, faults>>

\* poll_peer_height: up to PollLimit messages until the Height.
DialerPoll ==
    /\ at[Dialer] = "poll" /\ Next1(Dialer)
    /\ Head(wire[Dialer]).kind # "Height"
    /\ Read(Dialer, IF left[Dialer] = 1 THEN "gave up" ELSE "poll", left[Dialer] - 1)

\* Mutant: a lead of one block does not count.
CatchUpLate(n) ==
    IF Len(tip[Other(n)]) > Len(tip[n]) + 1
    THEN /\ known' = [known EXCEPT ![n] = @ \cup Branch(tip[Other(n)])]
         /\ tip' = [tip EXCEPT ![n] = tip[Other(n)]]
         /\ orphans' = [orphans EXCEPT ![n] = @ \ Branch(tip[Other(n)])]
    ELSE UNCHANGED chainVars

\* live_sync_from_peer: node n ends up with the other's branch.
CatchUp(n) ==
    /\ known' = [known EXCEPT ![n] = @ \cup Branch(tip[Other(n)])]
    /\ tip' = [tip EXCEPT ![n] = IF Len(tip[Other(n)]) > Len(@) THEN tip[Other(n)] ELSE @]
    /\ orphans' = [orphans EXCEPT ![n] = @ \ Branch(tip[Other(n)])]

\* The Height: behind the listener and not throttled, the dialer syncs.
DialerHeight ==
    /\ at[Dialer] = "poll" /\ Next1(Dialer)
    /\ Head(wire[Dialer]).kind = "Height"
    /\ LET behind == Len(Head(wire[Dialer]).blk) > Len(tip[Dialer]) IN
       IF behind /\ ~cooling[Dialer]
       THEN CatchUp(Dialer) /\ cooling' = [cooling EXCEPT ![Dialer] = TRUE]
       ELSE UNCHANGED <<chainVars, cooling>>
    /\ wire' = [wire EXCEPT ![Dialer] = Tail(@)]
    /\ at' = [at EXCEPT ![Dialer] = "sleep"]
    /\ left' = [left EXCEPT ![Dialer] = 0]
    /\ UNCHANGED <<hello, requested, outq, inq, seen, why, mined, faults>>

Ping ==
    /\ at[Dialer] = "sleep"
    /\ wire' = [wire EXCEPT ![Listener] = Append(@, Plain("Ping"))]
    /\ at' = [at EXCEPT ![Dialer] = "pong"]
    /\ UNCHANGED <<hello, chainVars, left, requested, outq, inq, cooling, seen, why, mined,
                   faults>>

\* One message, the Pong or another, and the loop starts over.
DialerPong ==
    /\ at[Dialer] = "pong" /\ Next1(Dialer)
    /\ Read(Dialer, "drain", 0)

-----------------------------------------------------------------------------
\* The listener: handle_inbound_with_runtime.

ListenerHello ==
    /\ at[Listener] = "hello" /\ Next1(Listener)
    /\ IF ~is_pre_handshake(Head(wire[Listener])) THEN Close("before handshake")
       ELSE IF validate_handshake(hello[Dialer], hello[Listener]) # "Accepted"
       THEN Close("handshake")
       ELSE /\ at' = [at EXCEPT ![Listener] = IF Advertises THEN "refresh" ELSE "serve"]
            /\ left' = [left EXCEPT ![Listener] = IF Advertises THEN PollLimit ELSE 0]
            /\ wire' = [wire EXCEPT ![Listener] = Tail(@), ![Dialer] =
                  @ \o <<Plain("Handshake")>>
                    \o IF Advertises THEN <<Plain("GetHeight")>> ELSE <<>>]
            /\ UNCHANGED <<requested, outq, why, seen>>
    /\ UNCHANGED <<hello, chainVars, inq, cooling, mined, faults>>

\* request_inbound_peer_summary reads up to PollLimit messages; one it does not
\* expect is lost with the refresh, and the session goes on.
ListenerRefresh ==
    /\ at[Listener] = "refresh" /\ Next1(Listener)
    /\ LET m == Head(wire[Listener]) IN
       IF m.kind \in {"Height", "GetHeight", "Ping"}
       THEN Read(Listener,
                 IF m.kind = "Height" \/ left[Listener] = 1 THEN "serve" ELSE "refresh",
                 IF m.kind = "Height" THEN 0 ELSE left[Listener] - 1)
       ELSE /\ wire' = [wire EXCEPT ![Listener] = Tail(@)]
            /\ at' = [at EXCEPT ![Listener] = "serve"]
            /\ left' = [left EXCEPT ![Listener] = 0]
            /\ UNCHANGED <<hello, chainVars, requested, outq, inq, cooling, seen, why, mined,
                           faults>>

ListenerServe ==
    /\ at[Listener] = "serve" /\ Next1(Listener)
    /\ Read(Listener, "serve", 0)

\* The other branch of the select: an announcement leaves the queue.
ListenerSend ==
    /\ at[Listener] = "serve" /\ outq[Listener] # <<>>
    /\ wire' = [wire EXCEPT ![Dialer] = Append(@, Head(outq[Listener]))]
    /\ outq' = [outq EXCEPT ![Listener] = Tail(@)]
    /\ UNCHANGED <<hello, chainVars, at, left, requested, inq, cooling, seen, why, mined,
                   faults>>

\* The watchdog goes by the last summary of the dialer while it is fresh, and
\* dials the advertised address; the sync renews the summary.
Due == /\ Registered(Listener) /\ seen.fresh /\ ~cooling[Listener]
       /\ Len(seen.tip) > Len(tip[Listener])

Watchdog ==
    /\ Due
    /\ CatchUp(Listener)
    /\ seen' = [fresh |-> TRUE, tip |-> tip[Dialer]]
    /\ cooling' = [cooling EXCEPT ![Listener] = TRUE]
    /\ UNCHANGED <<hello, sessionVars, inq, why, mined, faults>>

-----------------------------------------------------------------------------
\* Both nodes.

\* import_announced_blocks: a block whose parent is missing waits in the orphan
\* pool, and an accepted one brings in those that waited for it.
Import(n) ==
    /\ inq[n] # <<>>
    /\ LET b   == Head(inq[n])
           all == orphans[n] \cup {b}
           new == IF Parent(b) \in known[n]
                  THEN {c \in all : Branch(c) \subseteq known[n] \cup all} ELSE {}
       IN  /\ known' = [known EXCEPT ![n] = @ \cup new]
           /\ orphans' = [orphans EXCEPT ![n] = (all \ new) \ known[n]]
           /\ tip' = [tip EXCEPT ![n] =
                 LET best == CHOOSE c \in new \cup {@} :
                                \A d \in new \cup {@} : Len(d) <= Len(c)
                 IN  IF Len(best) > Len(@) THEN best ELSE @]
    /\ inq' = [inq EXCEPT ![n] = Tail(@)]
    /\ UNCHANGED <<hello, sessionVars, cooling, seen, why, mined, faults>>

\* A mined block is announced on the session, or not at all when its queue is full.
Mine(n) ==
    /\ mined < MaxBlocks
    /\ LET b == Append(tip[n], n) IN
       /\ known' = [known EXCEPT ![n] = @ \cup {b}]
       /\ tip' = [tip EXCEPT ![n] = b]
       /\ outq' = IF Registered(n) /\ Len(outq[n]) < QueueMax
                  THEN [outq EXCEPT ![n] = Append(@, Msg("AnnounceBlock", b))] ELSE outq
    /\ mined' = mined + 1
    /\ UNCHANGED <<hello, orphans, wire, at, left, requested, inq, cooling, seen, why, faults>>

Cool(n) ==
    /\ cooling[n]
    /\ cooling' = [cooling EXCEPT ![n] = FALSE]
    /\ UNCHANGED <<hello, chainVars, sessionVars, inq, seen, why, mined, faults>>

\* A summary is fresh for longer than the watchdog's interval.
Expire ==
    /\ seen.fresh /\ ~Due
    /\ seen' = [seen EXCEPT !.fresh = FALSE]
    /\ UNCHANGED <<hello, chainVars, sessionVars, inq, cooling, why, mined, faults>>

\* The connection breaks, or a 5 second timeout runs out.
LinkDown ==
    /\ at[Dialer] # "down" /\ faults < MaxFaults
    /\ Close("link")
    /\ faults' = faults + 1
    /\ UNCHANGED <<hello, chainVars, inq, cooling, mined>>

DialerStep == Connect \/ DialerHello \/ Drain \/ DialerPoll \/ DialerHeight \/ Ping \/ DialerPong
ListenerStep == ListenerHello \/ ListenerRefresh \/ ListenerServe \/ ListenerSend

Next ==
    \/ DialerStep \/ ListenerStep \/ Watchdog
    \/ \E n \in Node : Import(n) \/ Mine(n) \/ Cool(n)
    \/ Expire \/ LinkDown

Spec == Init /\ [][Next]_vars

\* Each node's tasks run on and cooldowns end.
FairSpec ==
    /\ Spec
    /\ WF_vars(DialerStep) /\ WF_vars(Watchdog)
    /\ WF_vars(ListenerHello \/ ListenerRefresh \/ ListenerServe) /\ WF_vars(ListenerSend)
    /\ \A n \in Node : WF_vars(Import(n)) /\ WF_vars(Cool(n))

-----------------------------------------------------------------------------
\* Properties.

Count(q, m) == Cardinality({i \in DOMAIN q : q[i] = m})

(***************************************************************************)
(* The one slot for a requested block is never taken for nothing: while a  *)
(* session waits for a block, exactly one request for it is on its way to  *)
(* the peer or exactly one answer on its way back.  A slot that stayed     *)
(* taken would make the session ignore every later announcement.           *)
(***************************************************************************)
RequestInFlight ==
    \A n \in Node :
        LET b == requested[n]
            asked  == Count(wire[Other(n)], Msg("GetBlock", b))
            coming == Count(wire[n], Msg("Block", b))
        IN  b # NoBlock => asked + coming = 1

(***************************************************************************)
(* Two nodes that run this program never end a session over the protocol:  *)
(* whatever announcements, polls, pings and block requests cross on the    *)
(* wire, no side sees an unrequested or wrong block, a request it cannot   *)
(* serve, a message before the handshake, or a poll that runs out.         *)
(***************************************************************************)
SessionSound == why \in {"none", "link", "handshake"}

(***************************************************************************)
(* Neither node keeps a session with a peer of another protocol, chain,    *)
(* genesis, economy or proof of work, nor with itself.                     *)
(***************************************************************************)
StrangersStayOut ==
    \A n \in Node : Registered(n) =>
        /\ hello[n].node_nonce # hello[Other(n)].node_nonce
        /\ [hello[n] EXCEPT !.node_nonce = 0] = [hello[Other(n)] EXCEPT !.node_nonce = 0]

Compatible == validate_handshake(hello[Listener], hello[Dialer]) = "Accepted"

(***************************************************************************)
(* The dialer ends up with a chain as long as the listener's, although     *)
(* announcements are dropped by a full queue, ignored while the slot is    *)
(* taken, or lost with the connection.                                     *)
(***************************************************************************)
DialerCatchesUp == Compatible => <>[](Len(tip[Dialer]) >= Len(tip[Listener]))

(***************************************************************************)
(* And so does the listener: connection.rs says of a lost announcement     *)
(* that the peer "will discover the current tip through the existing       *)
(* height/synchronization path".                                           *)
(***************************************************************************)
ListenerCatchesUp == Compatible => <>[](Len(tip[Listener]) >= Len(tip[Dialer]))
=============================================================================
