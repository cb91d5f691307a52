--------------------------- MODULE StartupProofs ---------------------------
(***************************************************************************)
(* Theorems about Startup for every environment, every queue and slot      *)
(* limit and every set of peers that dial in.                              *)
(***************************************************************************)
EXTENDS Startup, TLAPS, SequenceTheorems, FiniteSetTheorems

-----------------------------------------------------------------------------
\* The life cycle.

Early == {"launched", "runtime", "settings", "configured", "chain"}
Late == {"bound", "services", "http", "operational"}

(***************************************************************************)
(* A boundary is recorded exactly when main has returned an error, and it  *)
(* is one main can meet.                                                   *)
(***************************************************************************)
LifeInv ==
  /\ pc \in Early \union Late \union {"failed"}
  /\ fatal \in {"None", "Configuration", "ChainInitialization", "P2pListenerBind",
                "HttpListenerBind"}
  /\ fatal = "None" <=> pc # "failed"

(***************************************************************************)
(* What each step does to the boundary main has reached.  Everything that  *)
(* runs beside main leaves it alone.                                       *)
(***************************************************************************)
LEMMA LifeSteps ==
  ASSUME LifeInv, [Next]_vars
  PROVE  /\ UNCHANGED env
         /\ \/ UNCHANGED <<pc, fatal>>
            \/ pc = "launched" /\ pc' = "runtime" /\ UNCHANGED fatal
            \/ pc = "runtime" /\ pc' = "settings" /\ UNCHANGED fatal
            \/ pc = "settings" /\ pc' = "configured" /\ UNCHANGED fatal
            \/ pc = "configured" /\ pc' = "chain" /\ UNCHANGED fatal
            \/ pc = "chain" /\ pc' = "bound" /\ UNCHANGED fatal
            \/ pc = "bound" /\ pc' = "services" /\ UNCHANGED fatal
            \/ pc = "services" /\ pc' = "http" /\ UNCHANGED fatal
            \/ pc = "http" /\ pc' = "operational" /\ UNCHANGED fatal
            \/ pc \in {"launched", "runtime", "settings"} /\ pc' = "failed"
                 /\ fatal' = "Configuration"
            \/ pc = "configured" /\ pc' = "failed" /\ fatal' = "ChainInitialization"
            \/ pc \in {"chain", "bound"} /\ pc' = "failed" /\ fatal' = "P2pListenerBind"
            \/ pc = "services" /\ pc' = "failed" /\ fatal' = "HttpListenerBind"
<1> DEFINE Goal ==
         /\ UNCHANGED env
         /\ \/ UNCHANGED <<pc, fatal>>
            \/ pc = "launched" /\ pc' = "runtime" /\ UNCHANGED fatal
            \/ pc = "runtime" /\ pc' = "settings" /\ UNCHANGED fatal
            \/ pc = "settings" /\ pc' = "configured" /\ UNCHANGED fatal
            \/ pc = "configured" /\ pc' = "chain" /\ UNCHANGED fatal
            \/ pc = "chain" /\ pc' = "bound" /\ UNCHANGED fatal
            \/ pc = "bound" /\ pc' = "services" /\ UNCHANGED fatal
            \/ pc = "services" /\ pc' = "http" /\ UNCHANGED fatal
            \/ pc = "http" /\ pc' = "operational" /\ UNCHANGED fatal
            \/ pc \in {"launched", "runtime", "settings"} /\ pc' = "failed"
                 /\ fatal' = "Configuration"
            \/ pc = "configured" /\ pc' = "failed" /\ fatal' = "ChainInitialization"
            \/ pc \in {"chain", "bound"} /\ pc' = "failed" /\ fatal' = "P2pListenerBind"
            \/ pc = "services" /\ pc' = "failed" /\ fatal' = "HttpListenerBind"
<1>1. CASE build_runtime
  BY <1>1 DEF build_runtime, Die
<1>2. CASE LoadSettings
  BY <1>2 DEF LoadSettings, Die
<1>3. CASE resolve_auto_p2p_settings
  BY <1>3 DEF resolve_auto_p2p_settings, Die
<1>4. ASSUME NEW opens \in BOOLEAN, initialize_chain_state(opens) PROVE Goal
  BY <1>4 DEF initialize_chain_state, Die
<1>5. ASSUME NEW bound \in BOOLEAN, bind_listener(bound) PROVE Goal
  BY <1>5 DEF bind_listener, Die
<1>6. ASSUME NEW bound \in BOOLEAN, BindHttp(bound) PROVE Goal
  BY <1>6 DEF BindHttp, Die
<1>7. CASE QueueSeed
  BY <1>7 DEF QueueSeed, Die
<1>8. CASE start_services \/ Serve
  BY <1>8 DEF start_services, Serve
<1>9. CASE peer_dial_supervisor
  BY <1>9 DEF peer_dial_supervisor
<1>10. CASE Inbound
  BY <1>10 DEF Inbound, InboundAccepted, InboundRejected
<1>11. ASSUME NEW a \in scheduled, Dialled(a) PROVE Goal
  BY <1>11 DEF Dialled, DialAccepted
<1>12. CASE UNCHANGED vars
  BY <1>12 DEF vars
<1> HIDE DEF Goal
<1>13. CASE Main
  BY <1>13, <1>1, <1>2, <1>3, <1>4, <1>5, <1>6, <1>7, <1>8 DEF Main, Goal
<1>14. Goal
  BY <1>9, <1>10, <1>11, <1>12, <1>13 DEF Next, Goal
<1> QED BY <1>14 DEF Goal

(***************************************************************************)
(* Every step keeps the life cycle's invariant.                            *)
(***************************************************************************)
LEMMA LifeKept ==
  ASSUME LifeInv, [Next]_vars PROVE LifeInv'
BY LifeSteps DEF LifeInv, Early, Late

(***************************************************************************)
(* The record an observer sees, from the few things it depends on.         *)
(***************************************************************************)
Idle == IF ~SeedsConfigured THEN "NotConfigured" ELSE "ConfiguredNotSpawned"
Spawned == IF ~SeedsConfigured THEN "NotConfigured" ELSE "TasksSpawned"

Seen(phase, lifecycle, configuration, chain, p2p, http, seed_dial, boundary) ==
  [phase |-> phase, lifecycle |-> lifecycle, configuration |-> configuration,
   chain |-> chain, p2p_listener |-> p2p, http_listener |-> http,
   mining |-> IF env.mining = <<"true">> THEN "Starting" ELSE "Disabled",
   seed_dial |-> seed_dial, fatal_boundary |-> boundary]

(***************************************************************************)
(* The record while main runs: a function of how far it has come.          *)
(***************************************************************************)
AliveSeen ==
  fatal = "None" =>
         /\ pc \in {"launched", "runtime", "settings"} => Observed =
              Seen("ProcessLaunched", "Starting", "Starting", "Starting", "Starting",
                   "Starting", Idle, "None")
         /\ pc = "configured" => Observed =
              Seen("ConfigurationLoaded", "Starting", "Ready", "Starting", "Starting",
                   "Starting", Idle, "None")
         /\ pc \in {"chain", "bound"} => Observed =
              Seen("ChainReady", "Starting", "Ready", "Ready", "Starting",
                   "Starting", Idle, "None")
         /\ pc = "services" => Observed =
              Seen("P2pServicesStarted", "Starting", "Ready", "Ready", "Ready",
                   "Starting", Spawned, "None")
         /\ pc = "http" => Observed =
              Seen("HttpBound", "Starting", "Ready", "Ready", "Ready", "Ready", Spawned, "None")
         /\ pc = "operational" => Observed =
              Seen("Operational", "Ready", "Ready", "Ready", "Ready", "Ready", Spawned, "None")

LEMMA SeenAlive == AliveSeen
<1> SUFFICES ASSUME fatal = "None" PROVE AliveSeen
  BY DEF AliveSeen
<1>a. ASSUME NEW n \in 0..5, Reached = n
      PROVE  Observed = Seen(Phase, IF n = 5 THEN "Ready" ELSE "Starting",
                             IF n >= 1 THEN "Ready" ELSE "Starting",
                             IF n >= 2 THEN "Ready" ELSE "Starting",
                             IF n >= 3 THEN "Ready" ELSE "Starting",
                             IF n >= 4 THEN "Ready" ELSE "Starting", IF n >= 3 THEN Spawned ELSE Idle, "None")
  <2>1. /\ Part(1, "Configuration") = IF n >= 1 THEN "Ready" ELSE "Starting"
        /\ Part(2, "ChainInitialization") = IF n >= 2 THEN "Ready" ELSE "Starting"
        /\ Part(3, "P2pListenerBind") = IF n >= 3 THEN "Ready" ELSE "Starting"
        /\ Part(4, "HttpListenerBind") = IF n >= 4 THEN "Ready" ELSE "Starting"
    BY <1>a DEF Part
  <2>2. (CASE fatal # "None" -> "Failed" [] Reached = 5 -> "Ready" [] OTHER -> "Starting")
          = IF n = 5 THEN "Ready" ELSE "Starting"
    BY <1>a
  <2>3. (IF ~SeedsConfigured THEN "NotConfigured"
         ELSE IF Reached >= 3 THEN "TasksSpawned" ELSE "ConfiguredNotSpawned")
          = IF n >= 3 THEN Spawned ELSE Idle
    BY <1>a DEF Spawned, Idle
  <2> QED BY <2>1, <2>2, <2>3, Zenon DEF Observed, Seen
<1>1. pc \in {"launched", "runtime", "settings"} => Phase = "ProcessLaunched" /\ Reached = 0
  BY DEF Phase, Reached, Rank
<1>2. pc = "configured" => Phase = "ConfigurationLoaded" /\ Reached = 1
  BY DEF Phase, Reached, Rank
<1>3. pc \in {"chain", "bound"} => Phase = "ChainReady" /\ Reached = 2
  BY DEF Phase, Reached, Rank
<1>4. pc = "services" => Phase = "P2pServicesStarted" /\ Reached = 3
  BY DEF Phase, Reached, Rank
<1>5. pc = "http" => Phase = "HttpBound" /\ Reached = 4
  BY DEF Phase, Reached, Rank
<1>6. pc = "operational" => Phase = "Operational" /\ Reached = 5
  BY DEF Phase, Reached, Rank
<1> QED BY <1>a, <1>1, <1>2, <1>3, <1>4, <1>5, <1>6 DEF AliveSeen

(***************************************************************************)
(* The record after a fatal error: a function of the boundary.             *)
(***************************************************************************)
DeadSeen ==
  pc = "failed" =>
         /\ fatal = "Configuration" => Observed =
              Seen("Failed", "Failed", "Failed", "Starting", "Starting", "Starting",
                   Idle, "Configuration")
         /\ fatal = "ChainInitialization" => Observed =
              Seen("Failed", "Failed", "Ready", "Failed", "Starting", "Starting",
                   Idle, "ChainInitialization")
         /\ fatal = "P2pListenerBind" => Observed =
              Seen("Failed", "Failed", "Ready", "Ready", "Failed", "Starting",
                   Idle, "P2pListenerBind")
         /\ fatal = "HttpListenerBind" => Observed =
              Seen("Failed", "Failed", "Ready", "Ready", "Ready", "Failed",
                   Spawned, "HttpListenerBind")

LEMMA SeenDead == DeadSeen
<1> SUFFICES ASSUME pc = "failed" PROVE DeadSeen
  BY DEF DeadSeen
<1>0. Phase = "Failed"
  BY DEF Phase
<1>1. ASSUME fatal = "Configuration"
      PROVE  Observed = Seen("Failed", "Failed", "Failed", "Starting", "Starting", "Starting",
                             Idle, "Configuration")
  <2>1. Reached = 0
    BY <1>1 DEF Reached
  <2>2. /\ Part(1, "Configuration") = "Failed"
        /\ Part(2, "ChainInitialization") = "Starting"
        /\ Part(3, "P2pListenerBind") = "Starting"
        /\ Part(4, "HttpListenerBind") = "Starting"
    BY <1>1, <2>1 DEF Part
  <2>3. (IF ~SeedsConfigured THEN "NotConfigured"
         ELSE IF Reached >= 3 THEN "TasksSpawned" ELSE "ConfiguredNotSpawned")
          = Idle
    BY <2>1 DEF Spawned, Idle
  <2>4. (CASE fatal # "None" -> "Failed" [] Reached = 5 -> "Ready" [] OTHER -> "Starting")
          = "Failed"
    BY <1>1, <2>1
  <2> QED BY <1>1, <1>0, <2>2, <2>3, <2>4, Zenon DEF Observed, Seen
<1>2. ASSUME fatal = "ChainInitialization"
      PROVE  Observed = Seen("Failed", "Failed", "Ready", "Failed", "Starting", "Starting",
                             Idle, "ChainInitialization")
  <2>1. Reached = 1
    BY <1>2 DEF Reached
  <2>2. /\ Part(1, "Configuration") = "Ready"
        /\ Part(2, "ChainInitialization") = "Failed"
        /\ Part(3, "P2pListenerBind") = "Starting"
        /\ Part(4, "HttpListenerBind") = "Starting"
    BY <1>2, <2>1 DEF Part
  <2>3. (IF ~SeedsConfigured THEN "NotConfigured"
         ELSE IF Reached >= 3 THEN "TasksSpawned" ELSE "ConfiguredNotSpawned")
          = Idle
    BY <2>1 DEF Spawned, Idle
  <2>4. (CASE fatal # "None" -> "Failed" [] Reached = 5 -> "Ready" [] OTHER -> "Starting")
          = "Failed"
    BY <1>2, <2>1
  <2> QED BY <1>2, <1>0, <2>2, <2>3, <2>4, Zenon DEF Observed, Seen
<1>3. ASSUME fatal = "P2pListenerBind"
      PROVE  Observed = Seen("Failed", "Failed", "Ready", "Ready", "Failed", "Starting",
                             Idle, "P2pListenerBind")
  <2>1. Reached = 2
    BY <1>3 DEF Reached
  <2>2. /\ Part(1, "Configuration") = "Ready"
        /\ Part(2, "ChainInitialization") = "Ready"
        /\ Part(3, "P2pListenerBind") = "Failed"
        /\ Part(4, "HttpListenerBind") = "Starting"
    BY <1>3, <2>1 DEF Part
  <2>3. (IF ~SeedsConfigured THEN "NotConfigured"
         ELSE IF Reached >= 3 THEN "TasksSpawned" ELSE "ConfiguredNotSpawned")
          = Idle
    BY <2>1 DEF Spawned, Idle
  <2>4. (CASE fatal # "None" -> "Failed" [] Reached = 5 -> "Ready" [] OTHER -> "Starting")
          = "Failed"
    BY <1>3, <2>1
  <2> QED BY <1>3, <1>0, <2>2, <2>3, <2>4, Zenon DEF Observed, Seen
<1>4. ASSUME fatal = "HttpListenerBind"
      PROVE  Observed = Seen("Failed", "Failed", "Ready", "Ready", "Ready", "Failed",
                             Spawned, "HttpListenerBind")
  <2>1. Reached = 3
    BY <1>4 DEF Reached
  <2>2. /\ Part(1, "Configuration") = "Ready"
        /\ Part(2, "ChainInitialization") = "Ready"
        /\ Part(3, "P2pListenerBind") = "Ready"
        /\ Part(4, "HttpListenerBind") = "Failed"
    BY <1>4, <2>1 DEF Part
  <2>3. (IF ~SeedsConfigured THEN "NotConfigured"
         ELSE IF Reached >= 3 THEN "TasksSpawned" ELSE "ConfiguredNotSpawned")
          = Spawned
    BY <2>1 DEF Spawned, Idle
  <2>4. (CASE fatal # "None" -> "Failed" [] Reached = 5 -> "Ready" [] OTHER -> "Starting")
          = "Failed"
    BY <1>4, <2>1
  <2> QED BY <1>4, <1>0, <2>2, <2>3, <2>4, Zenon DEF Observed, Seen
<1> QED BY <1>1, <1>2, <1>3, <1>4 DEF DeadSeen

(***************************************************************************)
(* The abstract life cycle takes a step when the record changes as an      *)
(* event, or a fatal boundary, changes it.                                 *)
(***************************************************************************)
LEMMA Advances ==
  ASSUME NEW event \in R!Events, NEW from, NEW to, NEW part,
         R!Step(event) = [from |-> from, to |-> to, part |-> part],
         Observed.phase = from,
         Observed' = [Observed EXCEPT !["phase"] = to, ![part] = "Ready",
                        !["seed_dial"] = IF event = "P2pServicesStarted"
                                         /\ Observed.seed_dial = "ConfiguredNotSpawned"
                                      THEN "TasksSpawned" ELSE Observed.seed_dial]
  PROVE  R!Next
<1>1. R!Step(event).from = from /\ R!Step(event).to = to /\ R!Step(event).part = part
  OBVIOUS
<1>2. R!advance(event)
  BY <1>1, Zenon DEF R!advance
<1> QED BY <1>2, Zenon DEF R!Next

LEMMA Fails ==
  ASSUME NEW boundary \in R!Boundaries, NEW event, R!Fatal(boundary) = event,
         NEW from, NEW to, NEW part,
         R!Step(event) = [from |-> from, to |-> to, part |-> part],
         Observed.phase = from,
         Observed' = [Observed EXCEPT !["phase"] = "Failed", !["lifecycle"] = "Failed",
                        ![part] = "Failed", !["fatal_boundary"] = boundary]
  PROVE  R!Next
<1>1. R!Step(event).from = from /\ R!Step(event).to = to /\ R!Step(event).part = part
  OBVIOUS
<1>2. R!record_fatal(boundary)
  BY <1>1, Zenon DEF R!record_fatal
<1> QED BY <1>2, Zenon DEF R!Next

(***************************************************************************)
(* Refinement step: a step of the starting node is, to an observer, the    *)
(* one event or the one fatal boundary that may come next, or nothing.     *)
(***************************************************************************)
LEMMA ReadinessStep ==
  ASSUME LifeInv, [Next]_vars PROVE R!Next \/ Observed' = Observed
<1>0. /\ env' = env
      /\ Idle' = Idle /\ Idle \in {"NotConfigured", "ConfiguredNotSpawned"}
      /\ Spawned' = IF Idle = "ConfiguredNotSpawned" THEN "TasksSpawned" ELSE Idle
      /\ Spawned = IF Idle = "ConfiguredNotSpawned" THEN "TasksSpawned" ELSE Idle
  BY LifeSteps DEF SeedsConfigured, Idle, Spawned
<1> DEFINE seen(ph, lc, cf, ch, pp, ht, sd, fb) ==
      [phase |-> ph, lifecycle |-> lc, configuration |-> cf,
       chain |-> ch, p2p_listener |-> pp, http_listener |-> ht,
       mining |-> IF env.mining = <<"true">> THEN "Starting" ELSE "Disabled",
       seed_dial |-> sd, fatal_boundary |-> fb]
      s0 == seen("ProcessLaunched", "Starting", "Starting", "Starting", "Starting", "Starting",
                 Idle, "None")
      s1 == seen("ConfigurationLoaded", "Starting", "Ready", "Starting", "Starting", "Starting",
                 Idle, "None")
      s2 == seen("ChainReady", "Starting", "Ready", "Ready", "Starting", "Starting",
                 Idle, "None")
      s3 == seen("P2pServicesStarted", "Starting", "Ready", "Ready", "Ready", "Starting",
                 Spawned, "None")
      s4 == seen("HttpBound", "Starting", "Ready", "Ready", "Ready", "Ready", Spawned, "None")
      s5 == seen("Operational", "Ready", "Ready", "Ready", "Ready", "Ready", Spawned, "None")
      d0 == seen("Failed", "Failed", "Failed", "Starting", "Starting", "Starting",
                 Idle, "Configuration")
      d1 == seen("Failed", "Failed", "Ready", "Failed", "Starting", "Starting",
                 Idle, "ChainInitialization")
      d2 == seen("Failed", "Failed", "Ready", "Ready", "Failed", "Starting",
                 Idle, "P2pListenerBind")
      d3 == seen("Failed", "Failed", "Ready", "Ready", "Ready", "Failed",
                 Spawned, "HttpListenerBind")
<1>s. \A ph, lc, cf, ch, pp, ht, sd, fb :
        /\ Seen(ph, lc, cf, ch, pp, ht, sd, fb) = seen(ph, lc, cf, ch, pp, ht, sd, fb)
        /\ Seen(ph, lc, cf, ch, pp, ht, sd, fb)' = seen(ph, lc, cf, ch, pp, ht, sd, fb)
  BY <1>0 DEF Seen
<1>a. AliveSeen /\ AliveSeen' /\ DeadSeen /\ DeadSeen'
  BY SeenAlive, SeenDead, PTL
<1>b. fatal = "None" =>
        /\ pc \in {"launched", "runtime", "settings"} => Observed = s0
        /\ pc \in {"configured"} => Observed = s1
        /\ pc \in {"chain", "bound"} => Observed = s2
        /\ pc \in {"services"} => Observed = s3
        /\ pc \in {"http"} => Observed = s4
        /\ pc \in {"operational"} => Observed = s5
  BY <1>a, <1>s, Zenon DEF AliveSeen
<1>c. fatal' = "None" =>
        /\ pc' \in {"launched", "runtime", "settings"} => Observed' = s0
        /\ pc' \in {"configured"} => Observed' = s1
        /\ pc' \in {"chain", "bound"} => Observed' = s2
        /\ pc' \in {"services"} => Observed' = s3
        /\ pc' \in {"http"} => Observed' = s4
        /\ pc' \in {"operational"} => Observed' = s5
  BY <1>a, <1>s, <1>0, Zenon DEF AliveSeen
<1>d. pc' = "failed" =>
        /\ fatal' = "Configuration" => Observed' = d0
        /\ fatal' = "ChainInitialization" => Observed' = d1
        /\ fatal' = "P2pListenerBind" => Observed' = d2
        /\ fatal' = "HttpListenerBind" => Observed' = d3
  BY <1>a, <1>s, <1>0, Zenon DEF DeadSeen
<1>1. CASE pc = "settings" /\ pc' = "configured" /\ UNCHANGED fatal
  <2>1. Observed = s0 /\ Observed' = s1
    BY <1>1, <1>b, <1>c, Zenon DEF LifeInv
  <2>2. Observed' = [Observed EXCEPT !["phase"] = "ConfigurationLoaded", !["configuration"] = "Ready",
          !["seed_dial"] = IF "ConfigurationLoaded" = "P2pServicesStarted"
                              /\ Observed.seed_dial = "ConfiguredNotSpawned"
                           THEN "TasksSpawned" ELSE Observed.seed_dial]
    BY <2>1, <1>0
  <2>3. R!Step("ConfigurationLoaded") =
          [from |-> "ProcessLaunched", to |-> "ConfigurationLoaded", part |-> "configuration"]
    BY DEF R!Step
  <2>4. "ConfigurationLoaded" \in R!Events /\ Observed.phase = "ProcessLaunched"
    BY <2>1 DEF R!Events
  <2> QED BY <2>2, <2>3, <2>4, Advances, Zenon
<1>2. CASE pc = "configured" /\ pc' = "chain" /\ UNCHANGED fatal
  <2>1. Observed = s1 /\ Observed' = s2
    BY <1>2, <1>b, <1>c, Zenon DEF LifeInv
  <2>2. Observed' = [Observed EXCEPT !["phase"] = "ChainReady", !["chain"] = "Ready",
          !["seed_dial"] = IF "ChainRecovered" = "P2pServicesStarted"
                              /\ Observed.seed_dial = "ConfiguredNotSpawned"
                           THEN "TasksSpawned" ELSE Observed.seed_dial]
    BY <2>1, <1>0
  <2>3. R!Step("ChainRecovered") =
          [from |-> "ConfigurationLoaded", to |-> "ChainReady", part |-> "chain"]
    BY DEF R!Step
  <2>4. "ChainRecovered" \in R!Events /\ Observed.phase = "ConfigurationLoaded"
    BY <2>1 DEF R!Events
  <2> QED BY <2>2, <2>3, <2>4, Advances, Zenon
<1>3. CASE pc = "bound" /\ pc' = "services" /\ UNCHANGED fatal
  <2>1. Observed = s2 /\ Observed' = s3
    BY <1>3, <1>b, <1>c, Zenon DEF LifeInv
  <2>2. Observed' = [Observed EXCEPT !["phase"] = "P2pServicesStarted", !["p2p_listener"] = "Ready",
          !["seed_dial"] = IF "P2pServicesStarted" = "P2pServicesStarted"
                              /\ Observed.seed_dial = "ConfiguredNotSpawned"
                           THEN "TasksSpawned" ELSE Observed.seed_dial]
    BY <2>1, <1>0
  <2>3. R!Step("P2pServicesStarted") =
          [from |-> "ChainReady", to |-> "P2pServicesStarted", part |-> "p2p_listener"]
    BY DEF R!Step
  <2>4. "P2pServicesStarted" \in R!Events /\ Observed.phase = "ChainReady"
    BY <2>1 DEF R!Events
  <2> QED BY <2>2, <2>3, <2>4, Advances, Zenon
<1>4. CASE pc = "services" /\ pc' = "http" /\ UNCHANGED fatal
  <2>1. Observed = s3 /\ Observed' = s4
    BY <1>4, <1>b, <1>c, Zenon DEF LifeInv
  <2>2. Observed' = [Observed EXCEPT !["phase"] = "HttpBound", !["http_listener"] = "Ready",
          !["seed_dial"] = IF "HttpListenerBound" = "P2pServicesStarted"
                              /\ Observed.seed_dial = "ConfiguredNotSpawned"
                           THEN "TasksSpawned" ELSE Observed.seed_dial]
    BY <2>1, <1>0
  <2>3. R!Step("HttpListenerBound") =
          [from |-> "P2pServicesStarted", to |-> "HttpBound", part |-> "http_listener"]
    BY DEF R!Step
  <2>4. "HttpListenerBound" \in R!Events /\ Observed.phase = "P2pServicesStarted"
    BY <2>1 DEF R!Events
  <2> QED BY <2>2, <2>3, <2>4, Advances, Zenon
<1>5. CASE pc = "http" /\ pc' = "operational" /\ UNCHANGED fatal
  <2>1. Observed = s4 /\ Observed' = s5
    BY <1>5, <1>b, <1>c, Zenon DEF LifeInv
  <2>2. Observed' = [Observed EXCEPT !["phase"] = "Operational", !["lifecycle"] = "Ready",
          !["seed_dial"] = IF "ServicesReportedStarted" = "P2pServicesStarted"
                              /\ Observed.seed_dial = "ConfiguredNotSpawned"
                           THEN "TasksSpawned" ELSE Observed.seed_dial]
    BY <2>1, <1>0
  <2>3. R!Step("ServicesReportedStarted") =
          [from |-> "HttpBound", to |-> "Operational", part |-> "lifecycle"]
    BY DEF R!Step
  <2>4. "ServicesReportedStarted" \in R!Events /\ Observed.phase = "HttpBound"
    BY <2>1 DEF R!Events
  <2> QED BY <2>2, <2>3, <2>4, Advances, Zenon
<1>6. CASE pc \in {"launched", "runtime", "settings"} /\ pc' = "failed" /\ fatal' = "Configuration"
  <2>1. Observed = s0 /\ Observed' = d0
    BY <1>6, <1>b, <1>d DEF LifeInv
  <2>2. Observed' = [Observed EXCEPT !["phase"] = "Failed", !["lifecycle"] = "Failed",
                       !["configuration"] = "Failed", !["fatal_boundary"] = "Configuration"]
    BY <2>1
  <2>3. R!Step("ConfigurationLoaded") =
          [from |-> "ProcessLaunched", to |-> "ConfigurationLoaded", part |-> "configuration"]
    BY DEF R!Step
  <2>4. "Configuration" \in R!Boundaries /\ R!Fatal("Configuration") = "ConfigurationLoaded"
    BY DEF R!Boundaries, R!Fatal
  <2>5. Observed.phase = "ProcessLaunched"
    BY <2>1
  <2> QED BY <2>2, <2>3, <2>4, <2>5, Fails, Zenon
<1>7. CASE pc \in {"configured"} /\ pc' = "failed" /\ fatal' = "ChainInitialization"
  <2>1. Observed = s1 /\ Observed' = d1
    BY <1>7, <1>b, <1>d DEF LifeInv
  <2>2. Observed' = [Observed EXCEPT !["phase"] = "Failed", !["lifecycle"] = "Failed",
                       !["chain"] = "Failed", !["fatal_boundary"] = "ChainInitialization"]
    BY <2>1
  <2>3. R!Step("ChainRecovered") =
          [from |-> "ConfigurationLoaded", to |-> "ChainReady", part |-> "chain"]
    BY DEF R!Step
  <2>4. "ChainInitialization" \in R!Boundaries /\ R!Fatal("ChainInitialization") = "ChainRecovered"
    BY DEF R!Boundaries, R!Fatal
  <2>5. Observed.phase = "ConfigurationLoaded"
    BY <2>1
  <2> QED BY <2>2, <2>3, <2>4, <2>5, Fails, Zenon
<1>8. CASE pc \in {"chain", "bound"} /\ pc' = "failed" /\ fatal' = "P2pListenerBind"
  <2>1. Observed = s2 /\ Observed' = d2
    BY <1>8, <1>b, <1>d DEF LifeInv
  <2>2. Observed' = [Observed EXCEPT !["phase"] = "Failed", !["lifecycle"] = "Failed",
                       !["p2p_listener"] = "Failed", !["fatal_boundary"] = "P2pListenerBind"]
    BY <2>1
  <2>3. R!Step("P2pServicesStarted") =
          [from |-> "ChainReady", to |-> "P2pServicesStarted", part |-> "p2p_listener"]
    BY DEF R!Step
  <2>4. "P2pListenerBind" \in R!Boundaries /\ R!Fatal("P2pListenerBind") = "P2pServicesStarted"
    BY DEF R!Boundaries, R!Fatal
  <2>5. Observed.phase = "ChainReady"
    BY <2>1
  <2> QED BY <2>2, <2>3, <2>4, <2>5, Fails, Zenon
<1>9. CASE pc \in {"services"} /\ pc' = "failed" /\ fatal' = "HttpListenerBind"
  <2>1. Observed = s3 /\ Observed' = d3
    BY <1>9, <1>b, <1>d DEF LifeInv
  <2>2. Observed' = [Observed EXCEPT !["phase"] = "Failed", !["lifecycle"] = "Failed",
                       !["http_listener"] = "Failed", !["fatal_boundary"] = "HttpListenerBind"]
    BY <2>1
  <2>3. R!Step("HttpListenerBound") =
          [from |-> "P2pServicesStarted", to |-> "HttpBound", part |-> "http_listener"]
    BY DEF R!Step
  <2>4. "HttpListenerBind" \in R!Boundaries /\ R!Fatal("HttpListenerBind") = "HttpListenerBound"
    BY DEF R!Boundaries, R!Fatal
  <2>5. Observed.phase = "P2pServicesStarted"
    BY <2>1
  <2> QED BY <2>2, <2>3, <2>4, <2>5, Fails, Zenon
<1>10. CASE UNCHANGED <<pc, fatal>>
  BY <1>10, <1>0 DEF Observed, Phase, Reached, Rank, Part, SeedsConfigured
<1>11. CASE /\ pc \in {"launched", "runtime"} /\ pc' \in {"runtime", "settings"}
            /\ UNCHANGED fatal
  BY <1>11, <1>b, <1>c DEF LifeInv
<1>12. CASE pc = "chain" /\ pc' = "bound" /\ UNCHANGED fatal
  BY <1>12, <1>b, <1>c DEF LifeInv
<1> HIDE DEF s0, s1, s2, s3, s4, s5, d0, d1, d2, d3, seen
<1> QED BY LifeSteps, <1>1, <1>2, <1>3, <1>4, <1>5, <1>6, <1>7, <1>8, <1>9, <1>10, <1>11, <1>12

(***************************************************************************)
(* What an observer sees of any start, in any environment and with every   *)
(* failure main can meet, is a run of the life cycle readiness.rs          *)
(* characterises: no boundary is passed out of order and a fatal error is  *)
(* recorded at the boundary that was next.                                 *)
(***************************************************************************)
THEOREM ReadinessRefined == Spec => ImplementsReadiness
<1>1. Init => LifeInv /\ R!Init
  <2> SUFFICES ASSUME Init PROVE LifeInv /\ R!Init
    OBVIOUS
  <2>1. LifeInv
    BY DEF Init, LifeInv, Early
  <2>2. Observed = Seen("ProcessLaunched", "Starting", "Starting", "Starting", "Starting",
                        "Starting", Idle, "None")
    BY SeenAlive DEF AliveSeen, Init
  <2>3. Observed = R!launched(env.mining = <<"true">>, SeedsConfigured)
    BY <2>2, Zenon DEF Seen, Idle, R!launched
  <2>4. (env.mining = <<"true">>) \in BOOLEAN /\ SeedsConfigured \in BOOLEAN
    BY DEF SeedsConfigured
  <2> QED BY <2>1, <2>3, <2>4, Zenon DEF R!Init
<1>2. LifeInv /\ [Next]_vars => LifeInv' /\ [R!Next]_Observed
  BY LifeKept, ReadinessStep
<1> QED BY <1>1, <1>2, PTL DEF Spec, ImplementsReadiness, R!Spec

-----------------------------------------------------------------------------
\* The peer table and the slots.

(***************************************************************************)
(* Transient source addresses come into the table only by inbound          *)
(* sessions: nothing that is dialled, queued or configured is one, and no  *)
(* entry of one is outbound or advertised.                                 *)
(***************************************************************************)
Entry == [is_outbound : BOOLEAN, advertised : BOOLEAN]

Clean(table) ==
  /\ IsFiniteSet(DOMAIN table) /\ DOMAIN table \subseteq Address
  /\ table \in [DOMAIN table -> Entry]
  /\ \A a \in DOMAIN table \cap Transient : ~table[a].is_outbound /\ ~table[a].advertised

TableInv ==
  /\ env \in Environments
  /\ "seed_peers" \in DOMAIN settings
  /\ settings.seed_peers \in Seq(Listening)
  /\ queue \in Seq(Listening) /\ unsent \in Seq(Listening)
  /\ scheduled \subseteq Listening
  /\ Clean(peers)

(***************************************************************************)
(* Nothing is dialled before the listener is bound, and from then on the   *)
(* settings that say which addresses are this node's own do not change.    *)
(***************************************************************************)
SlotInv ==
  /\ IsFiniteSet(scheduled) /\ Cardinality(scheduled) <= TARGET_OUTBOUND_PEERS
  /\ dials \in Seq(scheduled) /\ IsInjective(dials) /\ Range(dials) = scheduled
  /\ \A a \in scheduled :
       ~is_local_dial_address(a) /\ a \in DOMAIN peers /\ peers[a].is_outbound
  /\ pc \in Early => scheduled = {}

(***************************************************************************)
(* A table that keeps every outbound peer of another.                      *)
(***************************************************************************)
Keeps(old, new) ==
  \A a \in DOMAIN old : a \in DOMAIN new /\ (old[a].is_outbound => new[a].is_outbound)

(***************************************************************************)
(* An upsert keeps the table clean: only an address nobody dials from is   *)
(* entered as outbound.                                                    *)
(***************************************************************************)
LEMMA UpsertClean ==
  ASSUME NEW table, Clean(table), NEW a \in Address, NEW outbound \in BOOLEAN,
         outbound => a \notin Transient
  PROVE  /\ Clean(Upsert(table, a, outbound)) /\ Keeps(table, Upsert(table, a, outbound))
         /\ DOMAIN Upsert(table, a, outbound) = DOMAIN table \union {a}
         /\ outbound => Upsert(table, a, outbound)[a].is_outbound
         /\ a \in Transient => ~Upsert(table, a, outbound)[a].advertised
<1> DEFINE D == DOMAIN table \union {a}
           u == Upsert(table, a, outbound)
<1>1. DOMAIN u = D
  BY DEF Upsert
<1>2. IsFiniteSet(D) /\ D \subseteq Address
  BY FS_AddElement DEF Clean
<1>3. \A b \in DOMAIN table : table[b] \in Entry
  BY DEF Clean
<1>4. \A b \in D : b # a => u[b] = table[b]
  BY DEF Upsert
<1>5. u[a] = [is_outbound |-> outbound \/ (a \in DOMAIN table /\ table[a].is_outbound),
              advertised |-> a \in DOMAIN table /\ table[a].advertised]
  BY DEF Upsert
<1>6. /\ u[a].is_outbound = (outbound \/ (a \in DOMAIN table /\ table[a].is_outbound))
      /\ u[a].advertised = (a \in DOMAIN table /\ table[a].advertised)
  BY <1>5
<1>7. u[a] \in Entry
  BY <1>5 DEF Entry
<1>8. u \in [D -> Entry]
  <2>1. u = [b \in D |-> u[b]]
    BY DEF Upsert
  <2>2. \A b \in D : u[b] \in Entry
    BY <1>3, <1>4, <1>7
  <2> QED BY <2>1, <2>2
<1>9. a \in Transient => ~u[a].is_outbound /\ ~u[a].advertised
  BY <1>6 DEF Clean
<1>10. \A b \in D \cap Transient : ~u[b].is_outbound /\ ~u[b].advertised
  BY <1>9, <1>4 DEF Clean
<1>11. Keeps(table, u)
  BY <1>1, <1>4, <1>6 DEF Keeps
<1>12. Clean(u)
  BY <1>1, <1>2, <1>8, <1>10 DEF Clean
<1> QED BY <1>1, <1>6, <1>9, <1>11, <1>12

(***************************************************************************)
(* Entering the seeds keeps the table clean.                               *)
(***************************************************************************)
LEMMA UpsertedClean ==
  ASSUME NEW table, Clean(table), NEW addrs \in Seq(Listening)
  PROVE  Clean(Upserted(table, addrs)) /\ Keeps(table, Upserted(table, addrs))
<1> DEFINE D == DOMAIN table \union Range(addrs)
           u == Upserted(table, addrs)
<1>1. DOMAIN u = D /\ u = [b \in D |-> u[b]]
  BY DEF Upserted
<1>2. Range(addrs) \subseteq Listening
  BY DEF Range
<1>3. IsFiniteSet(Range(addrs))
  <2>1. addrs \in Surjection(1..Len(addrs), Range(addrs))
    BY DEF Range, Surjection
  <2>2. IsFiniteSet(1..Len(addrs))
    BY FS_Interval
  <2> QED BY <2>1, <2>2, FS_Surjection
<1>4. IsFiniteSet(D) /\ D \subseteq Address
  BY <1>2, <1>3, FS_Union DEF Clean, Listening
<1>5. \A b \in DOMAIN table : table[b] \in Entry
  BY DEF Clean
<1>7. ASSUME NEW b \in D
      PROVE  /\ u[b] \in Entry
             /\ b \in DOMAIN table /\ table[b].is_outbound => u[b].is_outbound
             /\ b \in Transient => ~u[b].is_outbound /\ ~u[b].advertised
  <2>0. u[b] = [is_outbound |-> b \in Range(addrs) \/ table[b].is_outbound,
                advertised |-> b \in DOMAIN table /\ table[b].advertised]
    BY DEF Upserted
  <2>1. /\ u[b].is_outbound = (b \in Range(addrs) \/ table[b].is_outbound)
        /\ u[b].advertised = (b \in DOMAIN table /\ table[b].advertised)
    BY <2>0
  <2>2. u[b] \in Entry
    BY <2>0 DEF Entry
  <2>3. b \in Transient => b \notin Range(addrs) /\ b \in DOMAIN table
    BY <1>2 DEF Listening
  <2>4. b \in Transient => ~table[b].is_outbound /\ ~table[b].advertised
    BY <2>3 DEF Clean
  <2> QED BY <2>1, <2>2, <2>3, <2>4
<1>8. \A b \in D \cap Transient : ~u[b].is_outbound /\ ~u[b].advertised
  BY <1>7
<1>9. Clean(u)
  BY <1>1, <1>4, <1>7, <1>8 DEF Clean
<1>10. Keeps(table, u)
  BY <1>1, <1>7 DEF Keeps
<1> QED BY <1>9, <1>10

(***************************************************************************)
(* An accepted inbound session marks an advertised address, never the      *)
(* source address.                                                         *)
(***************************************************************************)
LEMMA AdvertisedClean ==
  ASSUME NEW table, Clean(table), NEW observed \in Transient, NEW key \in Address,
         key = observed \/ key \notin Transient
  PROVE  LET u == [Upsert(table, key, FALSE) EXCEPT ![key].advertised = @ \/ key # observed]
         IN  Clean(u) /\ Keeps(table, u)
<1> DEFINE v == Upsert(table, key, FALSE)
           u == [v EXCEPT ![key].advertised = @ \/ key # observed]
<1>1. Clean(v) /\ Keeps(table, v) /\ key \in DOMAIN v
  BY UpsertClean
<1> HIDE DEF v
<1>2. /\ DOMAIN u = DOMAIN v /\ u = [b \in DOMAIN v |-> u[b]]
      /\ \A b \in DOMAIN v : b # key => u[b] = v[b]
  OBVIOUS
<1>3. u[key] = [v[key] EXCEPT !["advertised"] = v[key].advertised \/ key # observed]
  BY <1>1
<1>4. v[key] \in Entry /\ u[key] \in Entry /\ u[key].is_outbound = v[key].is_outbound
      /\ u[key].advertised = (v[key].advertised \/ key # observed)
  BY <1>1, <1>3 DEF Clean, Entry
<1>5. \A b \in DOMAIN v : u[b] \in Entry
  BY <1>1, <1>2, <1>4 DEF Clean
<1>6. \A b \in DOMAIN v \cap Transient : ~u[b].is_outbound /\ ~u[b].advertised
  BY <1>1, <1>2, <1>4 DEF Clean
<1>7. Clean(u)
  BY <1>1, <1>2, <1>5, <1>6 DEF Clean
<1>8. Keeps(table, u)
  BY <1>1, <1>2, <1>4 DEF Keeps
<1> QED BY <1>7, <1>8 DEF v

(***************************************************************************)
(* What a full queue drops, it drops whole.                                *)
(***************************************************************************)
LEMMA TrySendListening ==
  ASSUME NEW q \in Seq(Listening), NEW candidates \in Seq(Listening)
  PROVE  TrySend(q, candidates) \in Seq(Listening)
<1> DEFINE room == QueueLimit - Len(q)
           n == IF Len(candidates) < room THEN Len(candidates) ELSE room
<1>1. n \in Int /\ \A i \in 1..n : candidates[i] \in Listening
  BY StartupAssumption
<1> HIDE DEF n
<1>2. SubSeq(candidates, 1, n) \in Seq(Listening)
  BY <1>1, SubSeqProperties
<1> QED BY <1>2, ConcatProperties, Zenon DEF TrySend, n

(***************************************************************************)
(* Addresses sort: the order is total and strict.                          *)
(***************************************************************************)
LEMMA BeforeOrder ==
  /\ \A a \in Address : ~Before(a, a)
  /\ \A a, b \in Address : Before(a, b) \/ Before(b, a) \/ a = b
  /\ \A a, b, c \in Address : Before(a, b) /\ Before(b, c) => Before(a, c)
<1>1. \A a \in Address : a.host \in Host /\ a.port \in Nat
                         /\ HostRank[a.host] \in Nat /\ a = [host |-> a.host, port |-> a.port]
  BY AddressAssumption DEF Address
<1>2. \A a, b \in Address : a.host = b.host <=> HostRank[a.host] = HostRank[b.host]
  BY <1>1, AddressAssumption
<1>3. \A a, b \in Address : a.host = b.host /\ a.port = b.port => a = b
  BY <1>1
<1>4. \A a \in Address : ~Before(a, a)
  BY <1>1 DEF Before
<1>5. \A a, b \in Address : Before(a, b) \/ Before(b, a) \/ a = b
  BY <1>1, <1>2, <1>3 DEF Before
<1>6. \A a, b, c \in Address : Before(a, b) /\ Before(b, c) => Before(a, c)
  BY <1>1, <1>2 DEF Before
<1> QED BY <1>4, <1>5, <1>6

(***************************************************************************)
(* Sorting and truncating leaves at most the limit.                        *)
(***************************************************************************)
LEMMA FirstBounded ==
  ASSUME NEW limit \in Nat, NEW addrs \in SUBSET Address, IsFiniteSet(addrs)
  PROVE  /\ First(limit, addrs) \subseteq addrs
         /\ Cardinality(First(limit, addrs)) <= limit
<1> DEFINE below(a) == {b \in addrs : Before(b, a)}
           rank == [a \in First(limit, addrs) |-> Cardinality(below(a))]
<1>1. First(limit, addrs) \subseteq addrs
  BY DEF First
<1>2. \A a \in addrs : IsFiniteSet(below(a)) /\ Cardinality(below(a)) \in Nat
  BY FS_Subset, FS_CardinalityType
<1>3. ASSUME NEW a \in addrs, NEW c \in addrs, Before(a, c)
      PROVE  Cardinality(below(a)) # Cardinality(below(c))
  <2>1. below(a) \in SUBSET below(c)
    BY <1>3, BeforeOrder
  <2>2. a \in below(c) /\ a \notin below(a)
    BY <1>3, BeforeOrder
  <2> QED BY <2>1, <2>2, <1>2, FS_Subset
<1>4. ASSUME NEW a \in First(limit, addrs) PROVE Cardinality(below(a)) \in 0..(limit - 1)
  <2>1. Cardinality(below(a)) < limit
    BY DEF First
  <2>2. Cardinality(below(a)) \in Nat
    BY <1>1, <1>2
  <2> QED BY <2>1, <2>2
<1>5. rank \in [First(limit, addrs) -> 0..(limit - 1)]
  BY <1>4
<1>6. \A a, c \in First(limit, addrs) : rank[a] = rank[c] => a = c
  BY <1>1, <1>3, BeforeOrder
<1>7. rank \in Injection(First(limit, addrs), 0..(limit - 1))
  BY <1>5, <1>6 DEF Injection, IsInjective
<1>8. IsFiniteSet(0..(limit - 1)) /\ Cardinality(0..(limit - 1)) = limit
  BY FS_Interval
<1> QED BY <1>1, <1>7, <1>8, FS_Injection

(***************************************************************************)
(* Every step keeps the table clean, and keeps every outbound peer in it.  *)
(***************************************************************************)
LEMMA TableKept ==
  ASSUME TableInv, [Next]_vars PROVE TableInv' /\ Keeps(peers, peers')
<1> DEFINE Goal == TableInv' /\ Keeps(peers, peers')
<1>k. peers' = peers => Keeps(peers, peers')
  BY DEF Keeps
<1>d. ASSUME NEW boundary, Die(boundary) PROVE Goal
  BY <1>d, <1>k DEF Die, TableInv, Clean
<1>u. ASSUME UNCHANGED <<env, settings, peers, unsent, queue, scheduled>> PROVE Goal
  BY <1>u, <1>k DEF TableInv, Clean
<1>1. CASE build_runtime
  BY <1>1, <1>d, <1>u DEF build_runtime
<1>2. CASE LoadSettings
  <2>1. CASE FromRawFails(env)
    BY <1>2, <2>1, <1>d DEF LoadSettings
  <2>2. CASE ~FromRawFails(env)
    <3>1. settings' = from_raw(env) /\ UNCHANGED <<env, peers, unsent, queue, scheduled>>
      BY <1>2, <2>2 DEF LoadSettings
    <3>2. "seed_peers" \in DOMAIN from_raw(env)
          /\ from_raw(env).seed_peers = parse_seed_peers(env.seeds)
      BY DEF from_raw
    <3>3. from_raw(env).seed_peers \in Seq(Listening)
      BY <3>2, AddressAssumption DEF TableInv
    <3> QED BY <3>1, <3>2, <3>3, <1>k DEF TableInv, Clean
  <2> QED BY <2>1, <2>2
<1>3. CASE resolve_auto_p2p_settings
  <2>1. CASE settings.auto_port /\ ~env.routed
    BY <1>3, <2>1, <1>d DEF resolve_auto_p2p_settings
  <2>2. CASE ~(settings.auto_port /\ ~env.routed)
    <3>1. PICK port, adv : settings' = [settings EXCEPT !.port = port, !.advertised_port = adv]
      BY <1>3, <2>2, Zenon DEF resolve_auto_p2p_settings
    <3>2. settings' = [settings EXCEPT !["port"] = port, !["advertised_port"] = adv]
      BY <3>1, Zenon
    <3>3. "seed_peers" \in DOMAIN settings' /\ settings'.seed_peers = settings.seed_peers
      BY <3>2 DEF TableInv
    <3>4. UNCHANGED <<env, peers, unsent, queue, scheduled>>
      BY <1>3, <2>2 DEF resolve_auto_p2p_settings
    <3> QED BY <3>3, <3>4, <1>k DEF TableInv, Clean
  <2> QED BY <2>1, <2>2
<1>4. ASSUME NEW opens \in BOOLEAN, initialize_chain_state(opens) PROVE Goal
  <2>1. CASE prepare_data_directory(env.dir) /\ opens
    <3>1. /\ peers' = Upserted(peers, settings.seed_peers)
          /\ UNCHANGED <<env, settings, unsent, queue, scheduled>>
      BY <1>4, <2>1 DEF initialize_chain_state
    <3>2. Clean(peers') /\ Keeps(peers, peers')
      BY <3>1, UpsertedClean DEF TableInv
    <3> QED BY <3>1, <3>2 DEF TableInv, Clean
  <2>2. CASE ~(prepare_data_directory(env.dir) /\ opens)
    BY <1>4, <2>2, <1>d DEF initialize_chain_state
  <2> QED BY <2>1, <2>2
<1>5. ASSUME NEW bound \in BOOLEAN, bind_listener(bound) PROVE Goal
  BY <1>5, <1>d, <1>k DEF bind_listener, TableInv, Clean
<1>6. ASSUME NEW bound \in BOOLEAN, BindHttp(bound) PROVE Goal
  BY <1>6, <1>d, <1>u DEF BindHttp
<1>7. CASE QueueSeed
  <2>1. CASE Len(queue) = QueueLimit
    BY <1>7, <2>1, <1>d DEF QueueSeed
  <2>2. CASE Len(queue) # QueueLimit
    <3>1. /\ queue' = Append(queue, Head(unsent)) /\ unsent' = Tail(unsent) /\ unsent # <<>>
          /\ UNCHANGED <<env, settings, peers, scheduled>>
      BY <1>7, <2>2 DEF QueueSeed
    <3>2. queue' \in Seq(Listening) /\ unsent' \in Seq(Listening)
      BY <3>1, HeadTailProperties, AppendProperties DEF TableInv
    <3> QED BY <3>1, <3>2, <1>k DEF TableInv, Clean
  <2> QED BY <2>1, <2>2
<1>8. CASE start_services \/ Serve
  BY <1>8, <1>u DEF start_services, Serve
<1>9. CASE peer_dial_supervisor
  <2>1. Head(queue) \in Listening /\ Tail(queue) \in Seq(Listening)
    BY <1>9, HeadTailProperties DEF peer_dial_supervisor, TableInv
  <2>2. queue' = Tail(queue) /\ UNCHANGED <<env, settings, unsent>>
    BY <1>9 DEF peer_dial_supervisor
  <2>3. CASE Takes(Head(queue))
    <3>1. /\ scheduled' = scheduled \union {Head(queue)}
          /\ peers' = Upsert(peers, Head(queue), TRUE)
      BY <1>9, <2>3 DEF peer_dial_supervisor
    <3>2. Clean(peers') /\ Keeps(peers, peers')
      BY <3>1, <2>1, UpsertClean DEF TableInv, Listening
    <3> QED BY <3>1, <3>2, <2>1, <2>2 DEF TableInv, Clean
  <2>4. CASE ~Takes(Head(queue))
    <3>1. UNCHANGED <<scheduled, peers>>
      BY <1>9, <2>4 DEF peer_dial_supervisor
    <3> QED BY <3>1, <2>1, <2>2, <1>k DEF TableInv, Clean
  <2> QED BY <2>3, <2>4
<1>10. ASSUME NEW observed \in Transient, InboundRejected(observed) PROVE Goal
  <2>1. /\ peers' = Upsert(peers, observed, FALSE)
        /\ UNCHANGED <<env, settings, unsent, queue, scheduled>>
    BY <1>10 DEF InboundRejected
  <2>2. Clean(peers') /\ Keeps(peers, peers')
    BY <2>1, UpsertClean, AddressAssumption DEF TableInv
  <2> QED BY <2>1, <2>2 DEF TableInv, Clean
<1>11. ASSUME NEW observed \in Transient, NEW ad \in Advertisements, NEW gossip \in Gossip,
              InboundAccepted(observed, ad, gossip)
       PROVE  Goal
  <2> DEFINE key == resolve_inbound_peer_key(observed, ad)
  <2>1. /\ peers' = [Upsert(peers, key, FALSE) EXCEPT ![key].advertised = @ \/ key # observed]
        /\ queue' = TrySend(queue, gossip)
        /\ UNCHANGED <<env, settings, unsent, scheduled>>
    BY <1>11 DEF InboundAccepted
  <2>2. key \in Address /\ (key = observed \/ key \notin Transient)
    BY AddressAssumption DEF resolve_inbound_peer_key, Listening
  <2>3. queue' \in Seq(Listening)
    BY <2>1, TrySendListening, AddressAssumption DEF TableInv
  <2> HIDE DEF key
  <2>4. Clean(peers') /\ Keeps(peers, peers')
    BY <2>1, <2>2, AdvertisedClean DEF TableInv
  <2> QED BY <2>1, <2>3, <2>4 DEF TableInv, Clean
<1>12. ASSUME NEW a \in scheduled, Dialled(a) PROVE Goal
  <2>1. PICK gossip \in Gossip : DialAccepted(a, gossip)
    BY <1>12 DEF Dialled
  <2>2. /\ peers' = Upsert(peers, a, TRUE) /\ queue' = TrySend(queue, gossip)
        /\ UNCHANGED <<env, settings, unsent, scheduled>>
    BY <2>1 DEF DialAccepted
  <2>3. Clean(peers') /\ Keeps(peers, peers')
    BY <2>2, UpsertClean DEF TableInv, Listening
  <2>4. queue' \in Seq(Listening)
    BY <2>2, TrySendListening, AddressAssumption DEF TableInv
  <2> QED BY <2>2, <2>3, <2>4 DEF TableInv, Clean
<1>13. CASE UNCHANGED vars
  BY <1>13, <1>u DEF vars
<1> HIDE DEF Goal
<1>14. CASE Main
  BY <1>14, <1>1, <1>2, <1>3, <1>4, <1>5, <1>6, <1>7, <1>8 DEF Main, Goal
<1>15. CASE Inbound
  BY <1>15, <1>10, <1>11 DEF Inbound, Goal
<1>16. Goal
  BY <1>9, <1>12, <1>13, <1>14, <1>15 DEF Next, Goal
<1> QED BY <1>16 DEF Goal

(***************************************************************************)
(* What each step does to the slots: it leaves them and the settings       *)
(* alone, or it changes the settings before anything runs, or it is the    *)
(* supervisor taking a candidate.                                          *)
(***************************************************************************)
LEMMA SlotSteps ==
  ASSUME [Next]_vars
  PROVE  \/ UNCHANGED <<settings, scheduled, dials>>
         \/ pc \in {"runtime", "settings"} /\ UNCHANGED <<scheduled, dials>>
         \/ /\ Running /\ queue # <<>> /\ Takes(Head(queue))
            /\ scheduled' = scheduled \union {Head(queue)}
            /\ dials' = Append(dials, Head(queue))
            /\ peers' = Upsert(peers, Head(queue), TRUE)
            /\ UNCHANGED <<pc, settings>>
<1> DEFINE Goal ==
         \/ UNCHANGED <<settings, scheduled, dials>>
         \/ pc \in {"runtime", "settings"} /\ UNCHANGED <<scheduled, dials>>
         \/ /\ Running /\ queue # <<>> /\ Takes(Head(queue))
            /\ scheduled' = scheduled \union {Head(queue)}
            /\ dials' = Append(dials, Head(queue))
            /\ peers' = Upsert(peers, Head(queue), TRUE)
            /\ UNCHANGED <<pc, settings>>
<1>1. CASE build_runtime \/ start_services \/ Serve \/ QueueSeed
  BY <1>1 DEF build_runtime, start_services, Serve, QueueSeed, Die
<1>2. CASE LoadSettings \/ resolve_auto_p2p_settings
  BY <1>2 DEF LoadSettings, resolve_auto_p2p_settings, Die
<1>3. ASSUME NEW opens \in BOOLEAN, initialize_chain_state(opens) PROVE Goal
  BY <1>3 DEF initialize_chain_state, Die
<1>4. ASSUME NEW bound \in BOOLEAN, bind_listener(bound) \/ BindHttp(bound) PROVE Goal
  BY <1>4 DEF bind_listener, BindHttp, Die
<1>5. CASE peer_dial_supervisor
  BY <1>5 DEF peer_dial_supervisor
<1>6. CASE Inbound
  BY <1>6 DEF Inbound, InboundAccepted, InboundRejected
<1>7. ASSUME NEW a \in scheduled, Dialled(a) PROVE Goal
  BY <1>7 DEF Dialled, DialAccepted
<1>8. CASE UNCHANGED vars
  BY <1>8 DEF vars
<1> HIDE DEF Goal
<1>9. CASE Main
  BY <1>9, <1>1, <1>2, <1>3, <1>4 DEF Main, Goal
<1>10. Goal
  BY <1>5, <1>6, <1>7, <1>8, <1>9 DEF Next, Goal
<1> QED BY <1>10 DEF Goal

(***************************************************************************)
(* Appending a new element keeps a sequence without repetitions.           *)
(***************************************************************************)
LEMMA AppendFresh ==
  ASSUME NEW S, NEW q \in Seq(S), IsInjective(q), Range(q) = S, NEW a, a \notin S
  PROVE  LET r == Append(q, a) IN
         r \in Seq(S \union {a}) /\ IsInjective(r) /\ Range(r) = S \union {a}
<1> DEFINE r == Append(q, a)
<1>0. q \in Seq(S \union {a})
  OBVIOUS
<1>1. /\ r \in Seq(S \union {a}) /\ Len(r) = Len(q) + 1
      /\ \A k \in 1..Len(q) : r[k] = q[k]
      /\ r[Len(q) + 1] = a
  BY <1>0, AppendProperties
<1>2. /\ DOMAIN q = 1..Len(q) /\ DOMAIN r = 1..(Len(q) + 1) /\ Len(q) \in Nat
  BY <1>1
<1> HIDE DEF r
<1>3. \A k \in 1..Len(q) : q[k] \in S
  OBVIOUS
<1>4. IsInjective(r)
  BY <1>1, <1>2, <1>3 DEF IsInjective
<1>5. \A k \in DOMAIN r : r[k] \in S \union {a}
  BY <1>1, <1>2, <1>3
<1>6. \A x \in S : \E k \in DOMAIN q : q[k] = x
  BY DEF Range
<1>7. \A x \in S \union {a} : \E k \in DOMAIN r : r[k] = x
  <2>1. Len(q) + 1 \in DOMAIN r /\ \A k \in DOMAIN q : k \in DOMAIN r
    BY <1>2
  <2> QED BY <2>1, <1>1, <1>2, <1>6
<1>8. Range(r) = S \union {a}
  BY <1>5, <1>7 DEF Range
<1> QED BY <1>1, <1>4, <1>8 DEF r

(***************************************************************************)
(* Every step keeps the slots sound.                                       *)
(***************************************************************************)
LEMMA SlotKept ==
  ASSUME LifeInv, TableInv, SlotInv, [Next]_vars PROVE SlotInv'
<1>0. Keeps(peers, peers') /\ (pc' \in Early => pc \in Early)
  BY TableKept, LifeSteps DEF Early
<1>1. CASE UNCHANGED <<settings, scheduled, dials>>
  <2>1. \A a \in scheduled' : /\ ~is_local_dial_address(a)'
                              /\ a \in DOMAIN peers' /\ peers'[a].is_outbound
    BY <1>0, <1>1 DEF SlotInv, Keeps, is_local_dial_address, conn_mgr
  <2> QED BY <1>0, <1>1, <2>1 DEF SlotInv
<1>2. CASE pc \in {"runtime", "settings"} /\ UNCHANGED <<scheduled, dials>>
  BY <1>2 DEF SlotInv, Early
<1>3. CASE /\ Running /\ queue # <<>> /\ Takes(Head(queue))
           /\ scheduled' = scheduled \union {Head(queue)}
           /\ dials' = Append(dials, Head(queue))
           /\ peers' = Upsert(peers, Head(queue), TRUE)
           /\ UNCHANGED <<pc, settings>>
  <2> DEFINE a == Head(queue)
  <2>1. a \in Listening
    BY <1>3, HeadTailProperties DEF TableInv
  <2>2. /\ a \notin scheduled /\ ~is_local_dial_address(a)
        /\ Cardinality(scheduled) < TARGET_OUTBOUND_PEERS
    BY <1>3 DEF Takes
  <2>3. a \in DOMAIN peers' /\ peers'[a].is_outbound
    BY <1>3, <2>1, UpsertClean DEF TableInv, Listening
  <2> HIDE DEF a
  <2>4. /\ dials' \in Seq(scheduled') /\ IsInjective(dials') /\ Range(dials') = scheduled'
    BY <1>3, <2>2, AppendFresh DEF SlotInv, a
  <2>5. IsFiniteSet(scheduled') /\ Cardinality(scheduled') <= TARGET_OUTBOUND_PEERS
    <3>1. IsFiniteSet(scheduled) /\ Cardinality(scheduled) \in Nat
      BY FS_CardinalityType DEF SlotInv
    <3>2. scheduled' = scheduled \union {a}
      BY <1>3 DEF a
    <3>3. IsFiniteSet(scheduled') /\ Cardinality(scheduled') = Cardinality(scheduled) + 1
      BY <2>2, <3>1, <3>2, FS_AddElement
    <3> QED BY <2>2, <3>1, <3>3, StartupAssumption
  <2>6. \A b : is_local_dial_address(b)' <=> is_local_dial_address(b)
    BY <1>3 DEF is_local_dial_address, conn_mgr
  <2>7. \A b \in scheduled' : /\ ~is_local_dial_address(b)'
                              /\ b \in DOMAIN peers' /\ peers'[b].is_outbound
    BY <1>0, <1>3, <2>2, <2>3, <2>6 DEF SlotInv, Keeps, a
  <2>8. pc' \notin Early
    BY <1>3 DEF Running, Early
  <2> QED BY <2>4, <2>5, <2>7, <2>8 DEF SlotInv
<1> QED BY <1>1, <1>2, <1>3, SlotSteps

-----------------------------------------------------------------------------

(***************************************************************************)
(* The inductive invariant of Startup.                                     *)
(***************************************************************************)
THEOREM StartupInvariant == Spec => [](LifeInv /\ TableInv /\ SlotInv)
<1>1. Init => LifeInv /\ TableInv /\ SlotInv
  <2> SUFFICES ASSUME Init PROVE LifeInv /\ TableInv /\ SlotInv
    OBVIOUS
  <2>1. LifeInv
    BY DEF Init, LifeInv, Early
  <2>2. DOMAIN peers = {} /\ peers \in [{} -> Entry] /\ IsFiniteSet(DOMAIN peers)
    BY FS_EmptySet DEF Init
  <2>3. Clean(peers)
    BY <2>2 DEF Clean
  <2>4. "seed_peers" \in DOMAIN NoSettings /\ NoSettings.seed_peers = <<>>
    BY DEF NoSettings
  <2>5. TableInv
    BY <2>3, <2>4 DEF Init, TableInv
  <2>6. IsInjective(<<>>) /\ Range(<<>>) = {}
    BY DEF IsInjective, Range
  <2>7. SlotInv
    BY <2>6, FS_EmptySet, StartupAssumption DEF Init, SlotInv
  <2> QED BY <2>1, <2>5, <2>7
<1>2. LifeInv /\ TableInv /\ SlotInv /\ [Next]_vars => (LifeInv /\ TableInv /\ SlotInv)'
  BY LifeKept, TableKept, SlotKept
<1> QED BY <1>1, <1>2, PTL DEF Spec

(***************************************************************************)
(* However the seeds, the gossip and the supervisor interleave, no address *)
(* is dialled by two tasks, the slots are never exceeded, and no task      *)
(* dials this node.                                                        *)
(***************************************************************************)
THEOREM SlotsSoundHolds == Spec => []SlotsSound
<1>1. SlotInv => SlotsSound
  BY DEF SlotInv, SlotsSound
<1> QED BY <1>1, StartupInvariant, PTL

(***************************************************************************)
(* No handshake shares the source address of an inbound connection, and    *)
(* the shared list stays within its bound.                                 *)
(***************************************************************************)
THEOREM TransientsHold == Spec => []TransientsNeverShared
<1>1. TableInv => TransientsNeverShared
  <2> SUFFICES ASSUME TableInv PROVE TransientsNeverShared
    OBVIOUS
  <2> DEFINE dialable == {a \in DOMAIN peers : peers[a].is_outbound \/ peers[a].advertised}
  <2>1. dialable \in SUBSET Address /\ IsFiniteSet(dialable)
    BY FS_Subset DEF TableInv, Clean
  <2>2. dialable \cap Transient = {}
    BY DEF TableInv, Clean
  <2>3. local_handshake = First(MAX_SHARED_PEERS, dialable)
    BY DEF local_handshake, dialable_addresses
  <2> HIDE DEF dialable
  <2>4. /\ First(MAX_SHARED_PEERS, dialable) \subseteq dialable
        /\ Cardinality(First(MAX_SHARED_PEERS, dialable)) <= MAX_SHARED_PEERS
    BY <2>1, FirstBounded, StartupAssumption
  <2> QED BY <2>2, <2>3, <2>4 DEF TransientsNeverShared
<1> QED BY <1>1, StartupInvariant, PTL
=============================================================================
