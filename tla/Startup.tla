------------------------------- MODULE Startup -------------------------------
(* One node from the launch of its process: the environment read into         *)
(* settings (config/settings.rs), the boundaries main.rs passes one after the *)
(* other, start_services (node/services.rs), and what runs from the moment    *)
(* the P2P listener is bound, while main is still queueing its seeds: the      *)
(* inbound handshakes and the dial supervisor, which share the discovery      *)
(* queue with it.  An address is a record of a host and a port.  What a       *)
(* session does once it is open is PeerSessions and Wire; what opening the     *)
(* chain does is Restart, here one of its two outcomes.                        *)

EXTENDS Integers, FiniteSets, SequencesExt

CONSTANTS
  Environments,    \* the environments a process is launched in, see LoadSettings
  Host,            \* hosts: IP addresses and names
  Names,           \* the hosts that are names and not IP addresses
  PrivateHosts,    \* loopback, private and link-local IPs: is_private_like_ip
  LoopbackHosts,
  HostRank,        \* the order in which host strings sort
  DefaultSeeds,    \* DEFAULT_SEED_PEERS
  DEFAULT_P2P_PORT,
  AutoPort,        \* the port derived from the routed IP
  Transient,       \* source addresses of inbound connections
  Advertisements,  \* advertised addresses of the nodes that dial us
  Gossip,          \* the lists of seed peers that handshakes carry
  QueueLimit,      \* slots of the discovery queue, 128 in the code
  TARGET_OUTBOUND_PEERS,
  MAX_SHARED_PEERS

ASSUME StartupAssumption ==
  /\ QueueLimit \in Nat \ {0} /\ TARGET_OUTBOUND_PEERS \in Nat
  /\ MAX_SHARED_PEERS \in Nat
  /\ AutoPort \in Nat \ {0} /\ DEFAULT_P2P_PORT \in Nat \ {0}
  /\ Names \union PrivateHosts \subseteq Host /\ Names \cap PrivateHosts = {}
  /\ LoopbackHosts \subseteq PrivateHosts

VARIABLES
  env,        \* the environment the process was launched in; never changes
  pc,         \* how far main has come
  settings,   \* Settings, or NoSettings before they are read
  fatal,      \* the boundary at which main returned an error
  peers,      \* PeerManager: address -> [is_outbound, advertised]
  unsent,     \* the seeds start_services has still to queue
  queue,      \* the discovery channel
  scheduled,  \* the supervisor's set
  dials       \* the seed_peer_loops spawned, in order

vars == <<env, pc, settings, fatal, peers, unsent, queue, scheduled, dials>>

----------------------------------------------------------------------------
(* Settings.  A raw variable is <<>> when it is not set, <<"num", n>> when it *)
(* parses as a port, <<"host", h>> as a host name or IP, and <<word>> else.   *)

Unset == <<>>
NoSettings == [port |-> 0, seed_peers |-> <<>>]

parse_p2p_port(raw) ==
  CASE raw = <<"auto">>  -> [port |-> 0, auto |-> TRUE]
    [] Len(raw) = 2      -> [port |-> raw[2], auto |-> FALSE]
    [] OTHER             -> [port |-> DEFAULT_P2P_PORT, auto |-> FALSE]

BadBool(raw) == raw \notin {Unset, <<"true">>, <<"false">>}
parse_explicit_bool(raw, default) == IF raw = Unset THEN default ELSE raw = <<"true">>

BadHost(raw) == raw # Unset /\ Len(raw) # 2
BadPort(raw) == raw \notin {Unset, <<"auto">>} /\ (Len(raw) # 2 \/ raw[2] = 0)

(* parse_p2p_advertised_identity: both or neither. *)
BadIdentity(raw) ==
  \/ BadHost(raw.host) \/ BadPort(raw.advertised_port)
  \/ (raw.host = Unset) # (raw.advertised_port = Unset)

(* <<"list", entries>>, where an entry that is no socket address is <<"bad">>;  *)
(* <<"separators">> is a text that gives no entry and is not empty.            *)
BadSeeds(raw) ==
  \/ raw = <<"separators">>
  \/ Len(raw) = 2 /\ \E k \in DOMAIN raw[2] : raw[2][k] = <<"bad">>
parse_seed_peers(raw) ==
  CASE raw = Unset -> DefaultSeeds
    [] BadSeeds(raw) -> <<>>
    [] OTHER -> [k \in DOMAIN raw[2] |-> [host |-> raw[2][k][1], port |-> raw[2][k][2]]]

(* Nobody listens at the source address of an inbound connection, so none is   *)
(* configured, gossiped or advertised.                                         *)
Address == [host : Host, port : Nat]
Listening == Address \ Transient

ASSUME AddressAssumption ==
  /\ HostRank \in [Host -> Nat]
  /\ \A g, h \in Host : HostRank[g] = HostRank[h] => g = h
  /\ Transient \subseteq Address
  /\ Gossip \subseteq Seq(Listening)
  /\ \A ad \in Advertisements \ {Unset} : [host |-> ad[1], port |-> ad[2]] \in Listening
  /\ \A e \in Environments : parse_seed_peers(e.seeds) \in Seq(Listening)

FromRawFails(raw) ==
  BadIdentity(raw) \/ BadBool(raw.allow_private) \/ BadSeeds(raw.seeds)

from_raw(raw) ==
  [port |-> parse_p2p_port(raw.p2p_port).port,
   auto_port |-> parse_p2p_port(raw.p2p_port).auto,
   host |-> raw.host,
   advertised_port |-> IF Len(raw.advertised_port) = 2 THEN raw.advertised_port[2] ELSE 0,
   advertised_auto |-> raw.advertised_port = <<"auto">>,
   allow_private |-> parse_explicit_bool(raw.allow_private, TRUE),
   mining_enabled |-> raw.mining = <<"true">>,
   seed_peers |-> parse_seed_peers(raw.seeds)]

(* The path is a directory, or one that can be made under an existing parent. *)
DirectoryThere(dir) == dir \notin {"blank", "not a directory", "no parent"}

(* It can be read and written, and its chain.db is no file. *)
DirectoryUsable(dir) == dir \notin {"unwritable", "chain.db is a file"}

prepare_data_directory(dir) == DirectoryThere(dir) /\ DirectoryUsable(dir)

----------------------------------------------------------------------------
(* The peer table and the queue.                                               *)

Upsert(table, a, outbound) ==
  [b \in DOMAIN table \union {a} |->
     IF b # a THEN table[b]
     ELSE [is_outbound |-> outbound \/ (a \in DOMAIN table /\ table[a].is_outbound),
           advertised |-> a \in DOMAIN table /\ table[a].advertised]]

(* All of addrs upserted as outbound peers, one after the other. *)
Upserted(table, addrs) ==
  [b \in DOMAIN table \union Range(addrs) |->
     [is_outbound |-> b \in Range(addrs) \/ table[b].is_outbound,
      advertised |-> b \in DOMAIN table /\ table[b].advertised]]

Before(a, b) == \/ HostRank[a.host] < HostRank[b.host]
                \/ a.host = b.host /\ a.port < b.port

(* What sort and truncate leave of a set of addresses. *)
First(limit, addrs) == {a \in addrs : Cardinality({b \in addrs : Before(b, a)}) < limit}

(* A mistake: Every known address shared. *)
ShareAll(limit) == First(limit, DOMAIN peers)

dialable_addresses(limit) ==
  First(limit, {a \in DOMAIN peers : peers[a].is_outbound \/ peers[a].advertised})

validate_dial_address(a, allow_private) ==
  /\ a.host \notin Names
  /\ a.port # 0
  /\ allow_private \/ a.host \notin PrivateHosts

(* P2PConnectionManager, as start_services makes it: the port it listens on at  *)
(* every interface, the advertised identity, and the rule for private addresses. *)
conn_mgr ==
  [listen_port |-> settings.port,
   advertised |-> IF settings.host = Unset THEN {}
                  ELSE {[host |-> settings.host[2], port |-> settings.advertised_port]},
   allow_private |-> settings.allow_private]

(* The loopback addresses at the listener's port are local, and so is the      *)
(* advertised address when it is an IP.                                        *)
is_local_dial_address(a) ==
  \/ a.host \in LoopbackHosts /\ a.port = conn_mgr.listen_port
  \/ a.host \notin Names /\ a \in conn_mgr.advertised

(* The addresses a handshake of this node carries. *)
local_handshake == dialable_addresses(MAX_SHARED_PEERS)

(* try_send drops what finds no slot. *)
TrySend(q, candidates) ==
  LET room == QueueLimit - Len(q)
  IN  q \o SubSeq(candidates, 1, IF Len(candidates) < room THEN Len(candidates) ELSE room)

----------------------------------------------------------------------------
(* The steps of main.  An error at any of them ends the process.                *)

Die(boundary) ==
  /\ pc' = "failed" /\ fatal' = boundary
  /\ UNCHANGED <<env, settings, peers, unsent, queue, scheduled, dials>>

Init ==
  /\ env \in Environments
  /\ pc = "launched" /\ settings = NoSettings /\ fatal = "None"
  /\ peers = <<>> /\ unsent = <<>> /\ queue = <<>> /\ scheduled = {} /\ dials = <<>>

build_runtime ==
  /\ pc = "launched"
  /\ IF env.threads \in {Unset, <<"positive">>}
     THEN pc' = "runtime"
          /\ UNCHANGED <<env, settings, fatal, peers, unsent, queue, scheduled, dials>>
     ELSE Die("Configuration")

LoadSettings ==
  /\ pc = "runtime"
  /\ IF FromRawFails(env)
     THEN Die("Configuration")
     ELSE /\ settings' = from_raw(env) /\ pc' = "settings"
          /\ UNCHANGED <<env, fatal, peers, unsent, queue, scheduled, dials>>

resolve_auto_p2p_settings ==
  /\ pc = "settings"
  /\ IF settings.auto_port /\ ~env.routed
     THEN Die("Configuration")
     ELSE LET port == IF settings.auto_port THEN AutoPort ELSE settings.port IN
          /\ settings' = [settings EXCEPT !.port = port,
                            !.advertised_port = IF settings.advertised_auto THEN port ELSE @]
          /\ pc' = "configured"
          /\ UNCHANGED <<env, fatal, peers, unsent, queue, scheduled, dials>>

(* The data directory, the database and the chain; then every seed is entered  *)
(* as an outbound peer, unchecked.                                             *)
initialize_chain_state(opens) ==
  /\ pc = "configured"
  /\ IF prepare_data_directory(env.dir) /\ opens
     THEN /\ pc' = "chain" /\ peers' = Upserted(peers, settings.seed_peers)
          /\ UNCHANGED <<env, settings, fatal, unsent, queue, scheduled, dials>>
     ELSE Die("ChainInitialization")

(* Once the listener is bound the importer, the listener and the supervisor     *)
(* run; main goes on to queue the seeds beside them.                            *)
bind_listener(bound) ==
  /\ pc = "chain"
  /\ IF bound
     THEN /\ pc' = "bound" /\ unsent' = settings.seed_peers
          /\ UNCHANGED <<env, settings, fatal, peers, queue, scheduled, dials>>
     ELSE Die("P2pListenerBind")

QueueSeed ==
  /\ pc = "bound" /\ unsent # <<>>
  /\ IF Len(queue) = QueueLimit
     THEN Die("P2pListenerBind")
     ELSE /\ queue' = Append(queue, Head(unsent)) /\ unsent' = Tail(unsent)
          /\ UNCHANGED <<env, pc, settings, fatal, peers, scheduled, dials>>

(* The watchdog and the miner are spawned and start_services returns. *)
start_services ==
  /\ pc = "bound" /\ unsent = <<>> /\ pc' = "services"
  /\ UNCHANGED <<env, settings, fatal, peers, unsent, queue, scheduled, dials>>

(* A mistake: The HTTP listener bound while the seeds are still being queued. *)
BindHttpEarly(bound) ==
  /\ pc \in {"bound", "services"}
  /\ IF bound
     THEN /\ pc' = "http"
          /\ UNCHANGED <<env, settings, fatal, peers, unsent, queue, scheduled, dials>>
     ELSE Die("HttpListenerBind")

BindHttp(bound) ==
  /\ pc = "services"
  /\ IF bound
     THEN /\ pc' = "http"
          /\ UNCHANGED <<env, settings, fatal, peers, unsent, queue, scheduled, dials>>
     ELSE Die("HttpListenerBind")

Serve ==
  /\ pc = "http" /\ pc' = "operational"
  /\ UNCHANGED <<env, settings, fatal, peers, unsent, queue, scheduled, dials>>

----------------------------------------------------------------------------
(* What runs beside main. *)

Running == pc \in {"bound", "services", "http", "operational"}

(* A mistake: The supervisor without its set of scheduled addresses. *)
TakesAgain(a) ==
  /\ validate_dial_address(a, settings.allow_private)
  /\ ~is_local_dial_address(a)
  /\ Cardinality(scheduled) < TARGET_OUTBOUND_PEERS

(* The supervisor gives a candidate a slot once; slots are never given back. *)
Takes(a) ==
  /\ validate_dial_address(a, settings.allow_private)
  /\ ~is_local_dial_address(a)
  /\ a \notin scheduled
  /\ Cardinality(scheduled) < TARGET_OUTBOUND_PEERS

(* A mistake: The supervisor returns at a candidate it does not take. *)
SuperviseUntilRefused ==
  /\ Running /\ queue # <<>>
  /\ Takes(Head(queue))
  /\ queue' = Tail(queue)
  /\ scheduled' = scheduled \union {Head(queue)}
  /\ dials' = Append(dials, Head(queue))
  /\ peers' = Upsert(peers, Head(queue), TRUE)
  /\ UNCHANGED <<env, pc, settings, fatal, unsent>>

peer_dial_supervisor ==
  /\ Running /\ queue # <<>>
  /\ queue' = Tail(queue)
  /\ LET a == Head(queue) IN
     IF Takes(a)
     THEN /\ scheduled' = scheduled \union {a}
          /\ dials' = Append(dials, a)
          /\ peers' = Upsert(peers, a, TRUE)
     ELSE UNCHANGED <<scheduled, dials, peers>>
  /\ UNCHANGED <<env, pc, settings, fatal, unsent>>

(* A dial whose handshake is accepted; the remote's list is queued.  A refused  *)
(* or failed dial changes nothing here and is tried again.                      *)
DialAccepted(a, gossip) ==
  /\ Running /\ a \in Range(dials)
  /\ peers' = Upsert(peers, a, TRUE)
  /\ queue' = TrySend(queue, gossip)
  /\ UNCHANGED <<env, pc, settings, fatal, unsent, scheduled, dials>>

(* validated_advertised_addr: an address that is malformed, or private where   *)
(* private ones are not allowed, ends the session; none leaves the source      *)
(* address as the peer's key.                                                  *)
Refused(ad) ==
  /\ ad # Unset
  /\ \/ ad[2] = 0
     \/ ~conn_mgr.allow_private /\ ad[1] \in PrivateHosts

resolve_inbound_peer_key(observed, ad) ==
  IF ad = Unset THEN observed ELSE [host |-> ad[1], port |-> ad[2]]

InboundAccepted(observed, ad, gossip) ==
  LET key == resolve_inbound_peer_key(observed, ad) IN
  /\ Running /\ ~Refused(ad)
  /\ peers' = [Upsert(peers, key, FALSE) EXCEPT ![key].advertised = @ \/ key # observed]
  /\ queue' = TrySend(queue, gossip)
  /\ UNCHANGED <<env, pc, settings, fatal, unsent, scheduled, dials>>

(* A handshake validate_handshake refuses leaves its source address behind. *)
InboundRejected(observed) ==
  /\ Running
  /\ peers' = Upsert(peers, observed, FALSE)
  /\ UNCHANGED <<env, pc, settings, fatal, unsent, queue, scheduled, dials>>

----------------------------------------------------------------------------

Main ==
  \/ build_runtime \/ LoadSettings \/ resolve_auto_p2p_settings
  \/ \E opens \in BOOLEAN : initialize_chain_state(opens)
  \/ \E bound \in BOOLEAN : bind_listener(bound) \/ BindHttp(bound)
  \/ QueueSeed \/ start_services \/ Serve

Dialled(a) == \E gossip \in Gossip : DialAccepted(a, gossip)

Inbound ==
  \E observed \in Transient :
    \/ InboundRejected(observed)
    \/ \E ad \in Advertisements, gossip \in Gossip : InboundAccepted(observed, ad, gossip)

Next == Main \/ peer_dial_supervisor \/ Inbound \/ \E a \in scheduled : Dialled(a)

Spec == Init /\ [][Next]_vars

(* Main and the supervisor are tasks the runtime schedules. *)
FairSpec == Spec /\ WF_vars(Main) /\ WF_vars(peer_dial_supervisor)

----------------------------------------------------------------------------
(* Properties. *)

Phase ==
  CASE pc \in {"launched", "runtime", "settings"} -> "ProcessLaunched"
    [] pc = "configured"  -> "ConfigurationLoaded"
    [] pc \in {"chain", "bound"} -> "ChainReady"
    [] pc = "services"    -> "P2pServicesStarted"
    [] pc = "http"        -> "HttpBound"
    [] pc = "operational" -> "Operational"
    [] pc = "failed"      -> "Failed"

Rank(phase) == CASE phase = "ProcessLaunched" -> 0 [] phase = "ConfigurationLoaded" -> 1
                 [] phase = "ChainReady" -> 2 [] phase = "P2pServicesStarted" -> 3
                 [] phase = "HttpBound" -> 4 [] phase = "Operational" -> 5

(* How far main had come when it died. *)
Reached ==
  CASE fatal = "None"                -> Rank(Phase)
    [] fatal = "Configuration"       -> 0
    [] fatal = "ChainInitialization" -> 1
    [] fatal = "P2pListenerBind"     -> 2
    [] fatal = "HttpListenerBind"    -> 3

Part(n, boundary) ==
  CASE fatal = boundary -> "Failed" [] Reached >= n -> "Ready" [] OTHER -> "Starting"

SeedsConfigured == parse_seed_peers(env.seeds) # <<>>

Observed ==
  [phase |-> Phase,
   lifecycle |-> CASE fatal # "None" -> "Failed" [] Reached = 5 -> "Ready" [] OTHER -> "Starting",
   configuration |-> Part(1, "Configuration"),
   chain |-> Part(2, "ChainInitialization"),
   p2p_listener |-> Part(3, "P2pListenerBind"),
   http_listener |-> Part(4, "HttpListenerBind"),
   mining |-> IF env.mining = <<"true">> THEN "Starting" ELSE "Disabled",
   seed_dial |-> IF ~SeedsConfigured THEN "NotConfigured"
                 ELSE IF Reached >= 3 THEN "TasksSpawned" ELSE "ConfiguredNotSpawned",
   fatal_boundary |-> fatal]

R == INSTANCE Readiness WITH state <- Observed

(* What an outside observer sees of a start, with every failure it can meet,   *)
(* is a run of the life cycle readiness.rs characterises.                       *)
ImplementsReadiness == R!Spec

(* However the seeds, the gossip of the sessions and the supervisor interleave, *)
(* an address is dialled by at most one task, at most TARGET_OUTBOUND_PEERS     *)
(* tasks dial, no task dials this node, and every dialled peer is known as an   *)
(* outbound peer.                                                               *)
SlotsSound ==
  /\ IsInjective(dials) /\ Range(dials) = scheduled
  /\ Cardinality(scheduled) <= TARGET_OUTBOUND_PEERS
  /\ \A a \in scheduled : ~is_local_dial_address(a) /\ peers[a].is_outbound

(* "Transient inbound source ports are never advertised": what a handshake      *)
(* shares was configured, gossiped or advertised, whatever inbound sessions     *)
(* left in the table, and the list stays within its bound.                      *)
TransientsNeverShared ==
  /\ local_handshake \cap Transient = {}
  /\ Cardinality(local_handshake) <= MAX_SHARED_PEERS

(* A node that came up dials every usable seed in the end, unless other peers   *)
(* have taken all the slots.                                                    *)
SeedsDialled ==
  pc = "operational" ~>
    \/ Cardinality(scheduled) = TARGET_OUTBOUND_PEERS
    \/ \A k \in DOMAIN settings.seed_peers :
         LET a == settings.seed_peers[k] IN
         validate_dial_address(a, settings.allow_private) /\ ~is_local_dial_address(a)
           => a \in scheduled

=============================================================================
