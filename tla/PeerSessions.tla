---------------------------- MODULE PeerSessions ----------------------------
(***************************************************************************)
(* One durable peer identity, the transports that serve it and the two     *)
(* tables that describe it: PeerSessionRegistry (which transports live)    *)
(* and the entry of PeerManager (is the peer connected, what chain does it *)
(* report).  Each transport is a task: the seed loop's own, which dials    *)
(* again and again, and one per accepted inbound connection.  The sync     *)
(* watchdog opens a connection of its own, which is not a session, and     *)
(* records what it hears on it.  Tasks run on several threads; the atomic  *)
(* counter and each lock are separate steps.                               *)
(***************************************************************************)
EXTENDS Integers, FiniteSets

CONSTANTS
    Transport,     \* the tasks that may serve this peer
    Outbound,      \* those among them that dial (seed_peer_loop)
    ChainSummary,  \* the summaries the peer may report
    MaxGeneration  \* bound on sessions opened

NoSummary == [height |-> 0, work |-> 0, tip |-> FALSE]

ASSUME TransportAssumption ==
    /\ Outbound \subseteq Transport
    /\ ChainSummary \subseteq [height : Nat, work : Nat, tip : {TRUE}]
    /\ MaxGeneration \in Nat

VARIABLES
    \* PeerSessionRegistry
    next_generation,
    active,                 \* generations in PeerSessions.active
    latest_generation,
    \* the Peer entry of PeerManager
    state,
    connection_generation,
    summary,                \* height, cumulative_work and whether tip_hash is known
    summary_generation,     \* 0 for None
    \* the tasks
    pc,                     \* where each transport is
    generation,             \* its session generation, 0 before it has one
    cleanup,                \* what unregister answered, 0 for None
    sync,                   \* where the watchdog's sync from this peer is
    \* history
    ordered,                \* sessions were registered in the order of their numbers
    dial_failed,            \* a dial failed while another transport was there
    late_note               \* the watchdog recorded something of a peer no longer connected

registryVars == <<active, latest_generation>>
peerVars     == <<state, connection_generation, summary, summary_generation>>
history      == <<ordered, dial_failed, late_note>>
vars == <<next_generation, registryVars, peerVars, pc, generation, cleanup, sync, history>>

PeerState == {"KnownOnly", "Connected", "Disconnected"}
Stage == {"idle", "accepted", "numbered", "registered", "connected", "live", "closing"}

Init ==
    /\ next_generation = 1
    /\ active = {} /\ latest_generation = 0
    /\ state = "KnownOnly" /\ connection_generation = 0
    /\ summary = NoSummary /\ summary_generation = 0
    /\ pc = [t \in Transport |-> "idle"]
    /\ generation = [t \in Transport |-> 0]
    /\ cleanup = [t \in Transport |-> 0]
    /\ sync = "idle"
    /\ ordered = TRUE /\ dial_failed = FALSE /\ late_note = FALSE

NoTransport == \A t \in Transport : pc[t] = "idle"

Goes(t, from, to) == pc[t] = from /\ pc' = [pc EXCEPT ![t] = to]

-----------------------------------------------------------------------------
\* Opening a session.

\* The handshake is accepted; the peer has its entry (upsert, or
\* resolve_inbound_peer_key).
Handshake(t) ==
    /\ Goes(t, "idle", "accepted")
    /\ next_generation + Cardinality({u \in Transport : pc[u] = "accepted"}) <= MaxGeneration
    /\ UNCHANGED <<next_generation, registryVars, peerVars, generation, cleanup,
                   sync, history>>

\* A dial that fails, or a handshake that does: set_state(Disconnected), whatever
\* other transports the peer has.
DialFails(t) ==
    /\ t \in Outbound /\ pc[t] = "idle"
    /\ state' = "Disconnected"
    /\ summary' = NoSummary /\ summary_generation' = 0
    /\ dial_failed' = (dial_failed \/ ~NoTransport)
    /\ late_note' = FALSE
    /\ UNCHANGED <<next_generation, registryVars, connection_generation, pc, generation,
                   cleanup, sync, ordered>>

\* register, up to its lock: the relaxed fetch_add.
TakeGeneration(t) ==
    /\ Goes(t, "accepted", "numbered")
    /\ generation' = [generation EXCEPT ![t] = next_generation]
    /\ next_generation' = next_generation + 1
    /\ UNCHANGED <<registryVars, peerVars, cleanup, sync, history>>

\* register, under the lock.
Register(t) ==
    /\ Goes(t, "numbered", "registered")
    /\ active' = active \cup {generation[t]}
    /\ latest_generation' = generation[t]
    /\ ordered' =
          (ordered /\ \A u \in Transport : pc[u] = "numbered" => generation[t] <= generation[u])
    /\ UNCHANGED <<next_generation, peerVars, generation, cleanup, sync, dial_failed, late_note>>

connect_session(t) ==
    /\ Goes(t, "registered", "connected")
    /\ connection_generation' = IF generation[t] > connection_generation
                                THEN generation[t] ELSE connection_generation
    /\ state' = "Connected"
    /\ UNCHANGED <<next_generation, registryVars, summary, summary_generation, generation,
                   cleanup, sync, history>>

\* The height of a handshake; it never lowers the recorded one.
note_peer_height(s) ==
    /\ summary' = [summary EXCEPT !.height = IF s.height < @ THEN @ ELSE s.height]
    /\ UNCHANGED <<state, connection_generation, summary_generation>>

BecomeLive(t) ==
    /\ Goes(t, "connected", "live")
    /\ \E s \in ChainSummary : note_peer_height(s)
    /\ UNCHANGED <<next_generation, registryVars, generation, cleanup, sync, history>>

-----------------------------------------------------------------------------
\* A live session.

ShouldUpdate(s) == s.work > summary.work \/ s.height >= summary.height \/ ~summary.tip

\* note_peer_summary_from: a summary that names an older session is ignored.
note_peer_summary(s, named, session) ==
    /\ IF (named => session >= connection_generation) /\ ShouldUpdate(s)
       THEN /\ summary' = s
            /\ summary_generation' = IF named THEN session ELSE connection_generation
       ELSE UNCHANGED <<summary, summary_generation>>
    /\ UNCHANGED <<state, connection_generation>>

\* A summary arrives on a session.  The refresh after an inbound handshake names
\* the session's generation, every other poll names none.
Report(t) ==
    /\ pc[t] = "live"
    /\ \E s \in ChainSummary, named \in BOOLEAN :
          (named => t \notin Outbound) /\ note_peer_summary(s, named, generation[t])
    /\ UNCHANGED <<next_generation, registryVars, pc, generation, cleanup, sync, history>>

-----------------------------------------------------------------------------
\* The watchdog: live_sync_from_peer on a connection of its own.

SyncNotes == late_note' = (late_note \/ state # "Connected")

watchdog_step ==
    /\ sync = "idle" /\ state = "Connected"
    /\ sync' = "dialling"
    /\ UNCHANGED <<next_generation, registryVars, peerVars, pc, generation, cleanup, history>>

SyncHandshake ==
    /\ sync = "dialling"
    /\ sync' = "polling"
    /\ \E s \in ChainSummary : note_peer_height(s)
    /\ SyncNotes
    /\ UNCHANGED <<next_generation, registryVars, pc, generation, cleanup, ordered, dial_failed>>

SyncSummary ==
    /\ sync = "polling"
    /\ sync' = "idle"
    /\ \E s \in ChainSummary : note_peer_summary(s, FALSE, 0)
    /\ SyncNotes
    /\ UNCHANGED <<next_generation, registryVars, pc, generation, cleanup, ordered, dial_failed>>

SyncFails ==
    /\ sync # "idle"
    /\ sync' = "idle"
    /\ UNCHANGED <<next_generation, registryVars, peerVars, pc, generation, cleanup, history>>

-----------------------------------------------------------------------------
\* Closing it.

\* Mutant: a close reports the peer gone while other transports are live.
UnregisterEarly(t) ==
    /\ Goes(t, "live", "closing")
    /\ active' = active \ {generation[t]}
    /\ cleanup' = [cleanup EXCEPT ![t] = latest_generation]
    /\ latest_generation' = IF active' = {} THEN 0 ELSE latest_generation
    /\ UNCHANGED <<next_generation, peerVars, generation, sync, history>>

\* Mutant: the last close hands out its own generation, not the latest.
UnregisterOwn(t) ==
    /\ Goes(t, "live", "closing")
    /\ active' = active \ {generation[t]}
    /\ cleanup' = [cleanup EXCEPT ![t] = IF active' = {} THEN generation[t] ELSE 0]
    /\ latest_generation' = IF active' = {} THEN 0 ELSE latest_generation
    /\ UNCHANGED <<next_generation, peerVars, generation, sync, history>>

unregister(t) ==
    /\ Goes(t, "live", "closing")
    /\ active' = active \ {generation[t]}
    /\ cleanup' = [cleanup EXCEPT ![t] = IF active' = {} THEN latest_generation ELSE 0]
    /\ latest_generation' = IF active' = {} THEN 0 ELSE latest_generation
    /\ UNCHANGED <<next_generation, peerVars, generation, sync, history>>

\* The last transport disconnects the peer, unless a newer session took over.
disconnect_if_generation(t) ==
    /\ Goes(t, "closing", "idle")
    /\ IF cleanup[t] # 0 /\ connection_generation = cleanup[t]
       THEN /\ state' = "Disconnected"
            /\ summary' = NoSummary /\ summary_generation' = 0
            /\ late_note' = FALSE
       ELSE UNCHANGED <<state, summary, summary_generation, late_note>>
    /\ generation' = [generation EXCEPT ![t] = 0]
    /\ cleanup' = [cleanup EXCEPT ![t] = 0]
    /\ UNCHANGED <<next_generation, registryVars, connection_generation, sync,
                   ordered, dial_failed>>

Next ==
    \/ \E t \in Transport :
        \/ Handshake(t) \/ DialFails(t) \/ TakeGeneration(t) \/ Register(t)
        \/ connect_session(t) \/ BecomeLive(t) \/ Report(t)
        \/ unregister(t) \/ disconnect_if_generation(t)
    \/ watchdog_step \/ SyncHandshake \/ SyncSummary \/ SyncFails

Spec == Init /\ [][Next]_vars

-----------------------------------------------------------------------------
\* Properties.

Live == {t \in Transport : pc[t] \in {"connected", "live"}}

TypeOK ==
    /\ active \subseteq 1..MaxGeneration
    /\ latest_generation \in 0..MaxGeneration
    /\ state \in PeerState
    /\ connection_generation \in 0..MaxGeneration
    /\ summary_generation \in 0..MaxGeneration
    /\ pc \in [Transport -> Stage]
    /\ generation \in [Transport -> 0..MaxGeneration]
    /\ cleanup \in [Transport -> 0..MaxGeneration]
    /\ sync \in {"idle", "dialling", "polling"}

(***************************************************************************)
(* A peer served by a transport is Connected: a delayed close of an older  *)
(* session never disconnects a newer one, as long as sessions are          *)
(* registered in the order of their numbers and no dial fails meanwhile.   *)
(***************************************************************************)
ServedIsConnected == ordered /\ ~dial_failed /\ Live # {} => state = "Connected"

(***************************************************************************)
(* When the last transport is gone the peer is not Connected, and leaves   *)
(* no height, work or tip behind for the next session to be measured by,   *)
(* unless the watchdog recorded something since, as long as sessions are   *)
(* registered in the order of their numbers.                               *)
(***************************************************************************)
GoneIsCleared ==
    ordered /\ NoTransport => state # "Connected" /\ (summary = NoSummary \/ late_note)

(***************************************************************************)
(* A delayed close never disconnects a newer session, in any order of      *)
(* registration (docs/P2P_INTERNET_SOAK_CHARACTERIZATION.md line 47: "a    *)
(* delayed close from an older session cannot disconnect a newer           *)
(* replacement session for the same peer").                                *)
(***************************************************************************)
CloseSparesNewer == ~dial_failed /\ Live # {} => state = "Connected"

(***************************************************************************)
(* A peer that is Disconnected has no live transport (peer_manager.rs line *)
(* 15: "Not currently connected").                                         *)
(***************************************************************************)
DisconnectedIsUnserved ==
    ordered /\ state = "Disconnected" => \A t \in Transport : pc[t] # "live"
=============================================================================
