------------------------------ MODULE Readiness ------------------------------
(* What startup promises, as node/readiness.rs states it: the order of the     *)
(* boundaries a starting node passes, what is ready after each, and at which  *)
(* of them it may die.  The record is NodeOperationalState; Startup is shown  *)
(* to implement this specification.                                           *)

EXTENDS FiniteSets

VARIABLE state

Events == {"ConfigurationLoaded", "ChainRecovered", "P2pServicesStarted",
           "HttpListenerBound", "ServicesReportedStarted"}

Boundaries == {"Configuration", "ChainInitialization", "P2pListenerBind",
               "HttpListenerBind"}

launched(mining_enabled, seeds_configured) ==
  [phase |-> "ProcessLaunched", lifecycle |-> "Starting",
   configuration |-> "Starting", chain |-> "Starting",
   p2p_listener |-> "Starting", http_listener |-> "Starting",
   mining |-> IF mining_enabled THEN "Starting" ELSE "Disabled",
   seed_dial |-> IF seeds_configured THEN "ConfiguredNotSpawned" ELSE "NotConfigured",
   fatal_boundary |-> "None"]

(* The phase an event needs, the phase it leads to and the component it makes  *)
(* ready.                                                                      *)
Step(event) ==
  CASE event = "ConfigurationLoaded" ->
         [from |-> "ProcessLaunched", to |-> "ConfigurationLoaded", part |-> "configuration"]
    [] event = "ChainRecovered" ->
         [from |-> "ConfigurationLoaded", to |-> "ChainReady", part |-> "chain"]
    [] event = "P2pServicesStarted" ->
         [from |-> "ChainReady", to |-> "P2pServicesStarted", part |-> "p2p_listener"]
    [] event = "HttpListenerBound" ->
         [from |-> "P2pServicesStarted", to |-> "HttpBound", part |-> "http_listener"]
    [] event = "ServicesReportedStarted" ->
         [from |-> "HttpBound", to |-> "Operational", part |-> "lifecycle"]

advance(event) ==
  /\ state.phase = Step(event).from
  /\ state' = [state EXCEPT !.phase = Step(event).to,
                            ![Step(event).part] = "Ready",
                            !.seed_dial = IF event = "P2pServicesStarted"
                                             /\ @ = "ConfiguredNotSpawned"
                                          THEN "TasksSpawned" ELSE @]

(* A fatal boundary is the failure of the event that was to come next. *)
Fatal(boundary) ==
  CASE boundary = "Configuration"       -> "ConfigurationLoaded"
    [] boundary = "ChainInitialization" -> "ChainRecovered"
    [] boundary = "P2pListenerBind"     -> "P2pServicesStarted"
    [] boundary = "HttpListenerBind"    -> "HttpListenerBound"

record_fatal(boundary) ==
  LET event == Fatal(boundary) IN
  /\ state.phase = Step(event).from
  /\ state' = [state EXCEPT !.phase = "Failed", !.lifecycle = "Failed",
                            ![Step(event).part] = "Failed",
                            !.fatal_boundary = boundary]

Init == \E mining_enabled, seeds_configured \in BOOLEAN :
          state = launched(mining_enabled, seeds_configured)

Next == \/ \E event \in Events : advance(event)
        \/ \E boundary \in Boundaries : record_fatal(boundary)

Spec == Init /\ [][Next]_state

=============================================================================
