------------------------- MODULE PeerSessionsProofs -------------------------
(***************************************************************************)
(* Theorems about PeerSessions for any number of transports of the peer    *)
(* and of sessions.                                                        *)
(***************************************************************************)
EXTENDS PeerSessions, TLAPS

\* The stages of a transport that is in the registry.
Open == {"registered", "connected", "live"}

(***************************************************************************)
(* A session's number is its own and below the counter, the registry holds *)
(* exactly the numbers of the open sessions, and only a closing transport  *)
(* holds what unregister answered.                                         *)
(***************************************************************************)
Numbers ==
    /\ next_generation \in Nat /\ latest_generation \in Nat /\ connection_generation \in Nat
    /\ pc \in [Transport -> Stage]
    /\ generation \in [Transport -> Nat] /\ cleanup \in [Transport -> Nat]
    /\ 0 < next_generation
    /\ latest_generation < next_generation /\ connection_generation < next_generation
    /\ \A t \in Transport : generation[t] < next_generation /\ cleanup[t] < next_generation

Registered ==
    /\ \A t \in Transport : pc[t] \notin {"idle", "accepted"} => generation[t] > 0
    /\ \A t, u \in Transport : generation[t] = generation[u] /\ generation[t] > 0 => t = u
    /\ \A t \in Transport : pc[t] \in Open => generation[t] \in active
    /\ \A g \in active : \E t \in Transport : pc[t] \in Open /\ generation[t] = g
    /\ \A t \in Transport : pc[t] # "closing" => cleanup[t] = 0
    /\ \A t \in Live : generation[t] <= connection_generation

(***************************************************************************)
(* When sessions are registered in the order of their numbers, a number    *)
(* that is taken and not yet registered is above everything the registry,  *)
(* the peer's entry and the closing transports hold.                       *)
(***************************************************************************)
Above ==
    ordered =>
      \A t \in Transport : pc[t] = "numbered" =>
        /\ latest_generation < generation[t] /\ connection_generation < generation[t]
        /\ \A u \in Transport :
             cleanup[u] < generation[t] /\ (pc[u] \in Open => generation[u] < generation[t])

(***************************************************************************)
(* What a closing transport is to disconnect is older than every open      *)
(* session.                                                                *)
(***************************************************************************)
Newer ==
    ordered => \A t, u \in Transport : pc[t] \in Open => cleanup[u] < generation[t]

(***************************************************************************)
(* While a session is open the latest number is the highest, and it is the *)
(* peer's connection generation unless its owner has still to connect.     *)
(***************************************************************************)
Latest ==
    ordered /\ active # {} =>
      /\ connection_generation <= latest_generation
      /\ \A u \in Transport : pc[u] \in Open => generation[u] <= latest_generation
      /\ \/ latest_generation <= connection_generation
         \/ \E r \in Transport : pc[r] = "registered" /\ generation[r] = latest_generation

(***************************************************************************)
(* A peer that is connected, or described by what a session said, has an   *)
(* open session or a closing one that will clear it.                       *)
(***************************************************************************)
Responsible ==
    ordered /\ (state = "Connected" \/ ~(summary = NoSummary \/ late_note)) =>
      \/ active # {}
      \/ \E t \in Transport : /\ pc[t] = "closing"
                              /\ cleanup[t] # 0 /\ cleanup[t] = connection_generation

SessionInv ==
    /\ Numbers /\ Registered /\ Above /\ Newer /\ Latest
    /\ Responsible /\ ServedIsConnected

\* A transport that has no number yet holds nothing.
LEMMA HandshakeStep ==
    ASSUME SessionInv, NEW t \in Transport, Handshake(t) PROVE SessionInv'
<1>1. Numbers'
    BY DEF SessionInv, Numbers, Handshake, Goes, registryVars, peerVars, Stage
<1>2. Registered'
    BY DEF SessionInv, Numbers, Registered, Handshake, Goes, registryVars, peerVars, history, Open, Live, Stage
<1>3. Above'
    BY DEF SessionInv, Numbers, Registered, Handshake, Goes, registryVars, peerVars, history, Open, Live, Stage, Above
<1>4. Newer'
    BY DEF SessionInv, Numbers, Registered, Handshake, Goes, registryVars, peerVars, history, Open, Live, Stage, Newer
<1>5. Latest'
    BY DEF SessionInv, Numbers, Registered, Handshake, Goes, registryVars, peerVars, history, Open, Live, Stage, Latest
<1>6. Responsible'
    BY DEF SessionInv, Numbers, Registered, Handshake, Goes, registryVars, peerVars, history, Open, Live, Stage, Responsible, Latest
<1>7. ServedIsConnected'
    BY DEF SessionInv, Numbers, Registered, Handshake, Goes, registryVars, peerVars, history, Open, Live, Stage, ServedIsConnected, Newer
<1> QED BY <1>1, <1>2, <1>3, <1>4, <1>5, <1>6, <1>7 DEF SessionInv

\* A failed dial clears the peer; it is recorded when another transport is there.
LEMMA DialFailsStep ==
    ASSUME SessionInv, NEW t \in Transport, DialFails(t) PROVE SessionInv'
<1>1. Numbers'
    BY DEF SessionInv, Numbers, DialFails, Goes, registryVars, peerVars, Stage, NoTransport
<1>2. Registered'
    BY DEF SessionInv, Numbers, Registered, DialFails, Goes, registryVars, peerVars, history, Open, Live, Stage, NoTransport
<1>3. Above'
    BY DEF SessionInv, Numbers, Registered, DialFails, Goes, registryVars, peerVars, history, Open, Live, Stage, Above, NoTransport
<1>4. Newer'
    BY DEF SessionInv, Numbers, Registered, DialFails, Goes, registryVars, peerVars, history, Open, Live, Stage, Newer, NoTransport
<1>5. Latest'
    BY DEF SessionInv, Numbers, Registered, DialFails, Goes, registryVars, peerVars, history, Open, Live, Stage, Latest, NoTransport
<1>6. Responsible'
    BY DEF SessionInv, Numbers, Registered, DialFails, Goes, registryVars, peerVars, history, Open, Live, Stage, Responsible, Latest, NoTransport
<1>7. ServedIsConnected'
    BY DEF SessionInv, Numbers, Registered, DialFails, Goes, registryVars, peerVars, history, Open, Live, Stage, ServedIsConnected, Newer, NoTransport
<1> QED BY <1>1, <1>2, <1>3, <1>4, <1>5, <1>6, <1>7 DEF SessionInv

\* The new number is above every other.
LEMMA TakeGenerationStep ==
    ASSUME SessionInv, NEW t \in Transport, TakeGeneration(t) PROVE SessionInv'
<1>1. Numbers'
    BY DEF SessionInv, Numbers, TakeGeneration, Goes, registryVars, peerVars, Stage
<1>2. Registered'
    BY DEF SessionInv, Numbers, Registered, TakeGeneration, Goes, registryVars, peerVars, history, Open, Live, Stage
<1>3. Above'
    BY DEF SessionInv, Numbers, Registered, TakeGeneration, Goes, registryVars, peerVars, history, Open, Live, Stage, Above
<1>4. Newer'
    BY DEF SessionInv, Numbers, Registered, TakeGeneration, Goes, registryVars, peerVars, history, Open, Live, Stage, Newer
<1>5. Latest'
    BY DEF SessionInv, Numbers, Registered, TakeGeneration, Goes, registryVars, peerVars, history, Open, Live, Stage, Latest
<1>6. Responsible'
    BY DEF SessionInv, Numbers, Registered, TakeGeneration, Goes, registryVars, peerVars, history, Open, Live, Stage, Responsible, Latest
<1>7. ServedIsConnected'
    BY DEF SessionInv, Numbers, Registered, TakeGeneration, Goes, registryVars, peerVars, history, Open, Live, Stage, ServedIsConnected, Newer
<1> QED BY <1>1, <1>2, <1>3, <1>4, <1>5, <1>6, <1>7 DEF SessionInv

\* A registration in order makes its number the latest.
LEMMA RegisterStep ==
    ASSUME SessionInv, NEW t \in Transport, Register(t) PROVE SessionInv'
<1>1. Numbers'
    BY DEF SessionInv, Numbers, Register, Goes, registryVars, peerVars, Stage
<1>2. Registered'
    BY DEF SessionInv, Numbers, Registered, Register, Goes, registryVars, peerVars, history, Open, Live, Stage
<1>3. Above'
    <2> SUFFICES ASSUME ordered', NEW v \in Transport, pc'[v] = "numbered"
                 PROVE  /\ latest_generation' < generation'[v]
                        /\ connection_generation' < generation'[v]
                        /\ \A u \in Transport :
                             /\ cleanup'[u] < generation'[v]
                             /\ pc'[u] \in Open => generation'[u] < generation'[v]
        BY DEF Above
    <2>1. pc' = [pc EXCEPT ![t] = "registered"] /\ pc[t] = "numbered" /\ ordered
        BY DEF Register, Goes
    <2>2. v # t /\ pc[v] = "numbered"
        BY <2>1 DEF SessionInv, Numbers
    <2>a. \A u \in Transport : pc[u] = "numbered" => generation[t] <= generation[u]
        BY DEF Register
    <2>b. generation[t] # generation[v] /\ generation[t] \in Nat /\ generation[v] \in Nat
        BY <2>1, <2>2 DEF SessionInv, Numbers, Registered
    <2>3. generation[t] < generation[v]
        BY <2>2, <2>a, <2>b
    <2>4. UNCHANGED <<generation, cleanup, connection_generation>>
          /\ latest_generation' = generation[t]
        BY DEF Register, peerVars
    <2>5. \A u \in Transport : pc'[u] \in Open => pc[u] \in Open \/ u = t
        BY <2>1 DEF SessionInv, Numbers
    <2> QED BY <2>1, <2>2, <2>3, <2>4, <2>5 DEF SessionInv, Above
<1>4. Newer'
    BY DEF SessionInv, Numbers, Registered, Register, Goes, peerVars, Open, Stage, Newer, Above
<1>5. Latest'
    <2> SUFFICES ASSUME ordered
                 PROVE  /\ connection_generation' <= latest_generation'
                        /\ \A u \in Transport :
                             pc'[u] \in Open => generation'[u] <= latest_generation'
                        /\ \E r \in Transport :
                             pc'[r] = "registered" /\ generation'[r] = latest_generation'
        BY DEF Latest, Register
    <2>1. pc' = [pc EXCEPT ![t] = "registered"] /\ pc[t] = "numbered"
        BY DEF Register, Goes
    <2>2. UNCHANGED <<generation, connection_generation>> /\ latest_generation' = generation[t]
        BY DEF Register, peerVars
    <2>3. \A u \in Transport : pc'[u] \in Open => pc[u] \in Open \/ u = t
        BY <2>1 DEF SessionInv, Numbers
    <2>4. pc'[t] = "registered" /\ generation[t] \in Nat
        BY <2>1 DEF SessionInv, Numbers
    <2>5. /\ connection_generation < generation[t]
          /\ \A u \in Transport : pc[u] \in Open => generation[u] < generation[t]
        BY <2>1 DEF SessionInv, Above
    <2>6. connection_generation \in Nat /\ \A u \in Transport : generation[u] \in Nat
        BY DEF SessionInv, Numbers
    <2>7. \A u \in Transport : pc'[u] \in Open => generation[u] <= generation[t]
        BY <2>3, <2>4, <2>5, <2>6
    <2> QED BY <2>2, <2>4, <2>5, <2>6, <2>7
<1>6. Responsible'
    BY DEF SessionInv, Numbers, Registered, Register, Goes, registryVars, peerVars, history, Open, Live, Stage, Responsible, Latest
<1>7. ServedIsConnected'
    BY DEF SessionInv, Numbers, Registered, Register, Goes, registryVars, peerVars, history, Open, Live, Stage, ServedIsConnected, Newer
<1> QED BY <1>1, <1>2, <1>3, <1>4, <1>5, <1>6, <1>7 DEF SessionInv

\* A session connects the peer.
LEMMA connect_sessionStep ==
    ASSUME SessionInv, NEW t \in Transport, connect_session(t) PROVE SessionInv'
<1>1. Numbers'
    BY DEF SessionInv, Numbers, connect_session, Goes, registryVars, peerVars, Stage
<1>2. Registered'
    BY DEF SessionInv, Numbers, Registered, connect_session, Goes, registryVars, peerVars, history, Open, Live, Stage
<1>3. Above'
    BY DEF SessionInv, Numbers, Registered, connect_session, Goes, registryVars, peerVars, history, Open, Live, Stage, Above
<1>4. Newer'
    BY DEF SessionInv, Numbers, Registered, connect_session, Goes, registryVars, peerVars, history, Open, Live, Stage, Newer
<1>5. Latest'
    BY DEF SessionInv, Numbers, Registered, connect_session, Goes, registryVars, peerVars, history, Open, Live, Stage, Latest
<1>6. Responsible'
    BY DEF SessionInv, Numbers, Registered, connect_session, Goes, registryVars, peerVars, history, Open, Live, Stage, Responsible, Latest
<1>7. ServedIsConnected'
    BY DEF SessionInv, Numbers, Registered, connect_session, Goes, registryVars, peerVars, history, Open, Live, Stage, ServedIsConnected, Newer
<1> QED BY <1>1, <1>2, <1>3, <1>4, <1>5, <1>6, <1>7 DEF SessionInv

\* A connected session goes on to serve the peer.
LEMMA BecomeLiveStep ==
    ASSUME SessionInv, NEW t \in Transport, BecomeLive(t) PROVE SessionInv'
<1>1. Numbers'
    BY DEF SessionInv, Numbers, BecomeLive, Goes, registryVars, peerVars, Stage, note_peer_height
<1>2. Registered'
    BY DEF SessionInv, Numbers, Registered, BecomeLive, Goes, registryVars, peerVars, history, Open, Live, Stage, note_peer_height
<1>3. Above'
    BY DEF SessionInv, Numbers, Registered, BecomeLive, Goes, registryVars, peerVars, history, Open, Live, Stage, Above, note_peer_height
<1>4. Newer'
    BY DEF SessionInv, Numbers, Registered, BecomeLive, Goes, registryVars, peerVars, history, Open, Live, Stage, Newer, note_peer_height
<1>5. Latest'
    BY DEF SessionInv, Numbers, Registered, BecomeLive, Goes, registryVars, peerVars, history, Open, Live, Stage, Latest, note_peer_height
<1>6. Responsible'
    BY DEF SessionInv, Numbers, Registered, BecomeLive, Goes, registryVars, peerVars, history, Open, Live, Stage, Responsible, note_peer_height, Latest
<1>7. ServedIsConnected'
    BY DEF SessionInv, Numbers, Registered, BecomeLive, Goes, registryVars, peerVars, history, Open, Live, Stage, ServedIsConnected, note_peer_height, Newer
<1> QED BY <1>1, <1>2, <1>3, <1>4, <1>5, <1>6, <1>7 DEF SessionInv

\* A close that leaves the registry empty takes the latest number with it, which is
\* the connection generation then.
LEMMA unregisterStep ==
    ASSUME SessionInv, NEW t \in Transport, unregister(t) PROVE SessionInv'
<1>1. Numbers'
    BY DEF SessionInv, Numbers, unregister, Goes, registryVars, peerVars, Stage
<1>2. Registered'
    BY DEF SessionInv, Numbers, Registered, unregister, Goes, registryVars, peerVars, history, Open, Live, Stage
<1>3. Above'
    BY DEF SessionInv, Numbers, Registered, unregister, Goes, registryVars, peerVars, history, Open, Live, Stage, Above
<1>4. Newer'
    BY DEF SessionInv, Numbers, Registered, unregister, Goes, registryVars, peerVars, history, Open, Live, Stage, Newer
<1>5. Latest'
    BY DEF SessionInv, Numbers, Registered, unregister, Goes, registryVars, peerVars, history, Open, Live, Stage, Latest
<1>6. Responsible'
    BY DEF SessionInv, Numbers, Registered, unregister, Goes, registryVars, peerVars, history, Open, Live, Stage, Responsible, Latest
<1>7. ServedIsConnected'
    BY DEF SessionInv, Numbers, Registered, unregister, Goes, registryVars, peerVars, history, Open, Live, Stage, ServedIsConnected, Newer
<1> QED BY <1>1, <1>2, <1>3, <1>4, <1>5, <1>6, <1>7 DEF SessionInv

\* A late close finds a connection generation above its own when a newer session is open.
LEMMA disconnect_if_generationStep ==
    ASSUME SessionInv, NEW t \in Transport, disconnect_if_generation(t) PROVE SessionInv'
<1>1. Numbers'
    BY DEF SessionInv, Numbers, disconnect_if_generation, Goes, registryVars, peerVars, Stage
<1>2. Registered'
    BY DEF SessionInv, Numbers, Registered, disconnect_if_generation, Goes, registryVars, peerVars, history, Open, Live, Stage
<1>3. Above'
    BY DEF SessionInv, Numbers, Registered, disconnect_if_generation, Goes, registryVars, peerVars, history, Open, Live, Stage, Above
<1>4. Newer'
    BY DEF SessionInv, Numbers, Registered, disconnect_if_generation, Goes, registryVars, peerVars, history, Open, Live, Stage, Newer
<1>5. Latest'
    BY DEF SessionInv, Numbers, Registered, disconnect_if_generation, Goes, registryVars, peerVars, history, Open, Live, Stage, Latest
<1>6. Responsible'
    BY DEF SessionInv, Numbers, Registered, disconnect_if_generation, Goes, registryVars, peerVars, history, Open, Live, Stage, Responsible, Latest
<1>7. ServedIsConnected'
    BY DEF SessionInv, Numbers, Registered, disconnect_if_generation, Goes, registryVars, peerVars, history, Open, Live, Stage, ServedIsConnected, Newer
<1> QED BY <1>1, <1>2, <1>3, <1>4, <1>5, <1>6, <1>7 DEF SessionInv

\* What is recorded on a live session belongs to a session that is open.
LEMMA ReportStep ==
    ASSUME SessionInv, NEW t \in Transport, Report(t) PROVE SessionInv'
<1>1. /\ pc[t] = "live" /\ UNCHANGED <<next_generation, registryVars, pc, generation, cleanup>>
      /\ UNCHANGED <<state, connection_generation, ordered, dial_failed>>
    BY DEF Report, note_peer_summary, history
<1>2. active # {}
    BY <1>1 DEF SessionInv, Registered, Open
<1> QED BY <1>1, <1>2 DEF SessionInv, Numbers, Registered, Above, Newer, Latest, Responsible,
                          ServedIsConnected, Live, registryVars

\* What the watchdog records of a peer that is not connected, it notes.
LEMMA WatchdogStep ==
    ASSUME SessionInv, watchdog_step \/ SyncHandshake \/ SyncSummary \/ SyncFails
    PROVE  SessionInv'
<1>1. /\ UNCHANGED <<next_generation, registryVars, pc, generation, cleanup>>
      /\ UNCHANGED <<state, connection_generation, ordered, dial_failed>>
    BY DEF watchdog_step, SyncHandshake, SyncSummary, SyncFails, note_peer_summary,
           note_peer_height, peerVars, history
<1>2. \/ UNCHANGED <<summary, late_note>>
      \/ late_note' = (late_note \/ state # "Connected")
    BY DEF watchdog_step, SyncHandshake, SyncSummary, SyncFails, SyncNotes, peerVars, history
<1>3. Responsible'
    BY <1>1, <1>2 DEF SessionInv, Responsible, registryVars
<1> QED BY <1>1, <1>3 DEF SessionInv, Numbers, Registered, Above, Newer, Latest,
                          ServedIsConnected, Live, registryVars

-----------------------------------------------------------------------------

(***************************************************************************)
(* The inductive invariant of the registry, the peer's entry and the       *)
(* transports.                                                             *)
(***************************************************************************)
THEOREM SessionInvariant == Spec => []SessionInv
<1>1. Init => SessionInv
    BY DEF Init, SessionInv, Numbers, Registered, Above, Newer, Latest, Responsible,
           ServedIsConnected, Live, Open, Stage
<1>2. SessionInv /\ [Next]_vars => SessionInv'
    <2> SUFFICES ASSUME SessionInv, [Next]_vars PROVE SessionInv'
        OBVIOUS
    <2>1. ASSUME NEW t \in Transport,
                 \/ Handshake(t) \/ DialFails(t) \/ TakeGeneration(t) \/ Register(t)
                 \/ connect_session(t) \/ BecomeLive(t) \/ Report(t)
                 \/ unregister(t) \/ disconnect_if_generation(t)
          PROVE  SessionInv'
        BY <2>1, HandshakeStep, DialFailsStep, TakeGenerationStep, RegisterStep,
           connect_sessionStep, BecomeLiveStep, ReportStep, unregisterStep,
           disconnect_if_generationStep
    <2>2. CASE UNCHANGED vars
        BY <2>2 DEF SessionInv, Numbers, Registered, Above, Newer, Latest, Responsible,
                    ServedIsConnected, Live, vars, registryVars, peerVars, history
    <2> QED BY <2>1, <2>2, WatchdogStep DEF Next
<1> QED BY <1>1, <1>2, PTL DEF Spec

(***************************************************************************)
(* A delayed close of an older session never disconnects a peer another    *)
(* transport serves, however many sessions there are, when they are        *)
(* registered in the order of their numbers and no dial fails meanwhile.   *)
(***************************************************************************)
THEOREM ServedIsConnectedHolds == Spec => []ServedIsConnected
<1>1. SessionInv => ServedIsConnected
    BY DEF SessionInv
<1> QED BY <1>1, SessionInvariant, PTL

(***************************************************************************)
(* When the last transport is gone its close has cleared the peer's entry. *)
(***************************************************************************)
THEOREM GoneIsClearedHolds == Spec => []GoneIsCleared
<1>1. SessionInv => GoneIsCleared
    BY DEF SessionInv, Registered, Responsible, GoneIsCleared, NoTransport, Open
<1> QED BY <1>1, SessionInvariant, PTL
=============================================================================
