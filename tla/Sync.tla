-------------------------------- MODULE Sync --------------------------------
(***************************************************************************)
(* How a node catches up with its peers: the loop of each dialled peer     *)
(* polls it, the watchdog picks a peer from the peer manager's summaries,  *)
(* and either runs its own live_sync_from_peer against the one chain, with *)
(* a guard that only that task sees.  A peer with more work raises the     *)
(* node-wide recovery claim that pauses mining.  The chain is the set of   *)
(* blocks it knows and its tip; what apply_block does to it is the subject *)
(* of ChainState.                                                          *)
(***************************************************************************)
EXTENDS Integers, FiniteSets, SequencesExt

CONSTANTS
    Block, Genesis, Parent, Height,
    Work,          \* cumulative work of the branch that ends in a block
    Invalid,       \* blocks that apply_block rejects
    Seeds,         \* dialled peers; a peer is its address, as a number
    Inbound,       \* peers that dialled this node and advertise an address
    Watchdog,      \* the watchdog task
    LagThreshold,  \* SYNC_LAG_THRESHOLD
    NoTip,         \* tip_hash is None
    Tips,          \* the tips each peer may have
    Mineable,      \* blocks this node's own miner may add
    MaxFaults      \* bound on lost connections and expired summaries

Peer == Seeds \cup Inbound
Task == Seeds \cup {Watchdog}

ASSUME SyncAssumption ==
    /\ Genesis \in Block /\ NoTip \notin Block
    /\ Parent \in [Block -> Block] /\ Height \in [Block -> Nat] /\ Work \in [Block -> Nat]
    /\ \A b \in Block \ {Genesis} : Height[b] = Height[Parent[b]] + 1
                                     /\ Work[b] > Work[Parent[b]]
    /\ Seeds \cap Inbound = {} /\ Watchdog \notin Peer /\ Peer \subseteq Nat
    /\ LagThreshold \in Nat /\ MaxFaults \in Nat /\ Genesis \notin Invalid

VARIABLES
    known, tip,  \* the chain
    remote,      \* the tip each peer has
    peers,       \* the peer manager's record of each peer
    guard,       \* the SyncGuard of each task
    at,          \* where each task is
    job,         \* what each task holds across its awaits
    claim,       \* the recovery claim
    accepted,    \* the importer accepted an announced block and has yet to look at the claim
    faults

vars == <<known, tip, remote, peers, guard, at, job, claim, accepted, faults>>
chainVars == <<known, tip>>

from_chain(b) == [height |-> Height[b], tip |-> b, work |-> Work[b]]
NoSummary == [height |-> 0, tip |-> NoTip, work |-> 0]
Known == [connected |-> FALSE, fresh |-> FALSE, summary |-> NoSummary]

\* seen: the peer's summary the task goes by; ahead, more: how it compared with
\* the chain's; caught: the chain had that work after the sync.
NoJob == [peer |-> 0, seen |-> NoSummary, ahead |-> FALSE, more |-> FALSE,
          want |-> NoTip, fetched |-> <<>>, result |-> "Ok", caught |-> FALSE]
NoClaim == [mode |-> "normal", peer |-> 0, work |-> 0]

\* Strictly more work on another tip.
remote_work_ahead(r, l) == r.work > l.work /\ r.tip # l.tip

\* Mutant: only the height counts.
HeightAhead(r, l) == r.height > l.height

\* The remote branch is worth asking for.
Worth(r, l) == r.height > l.height \/ remote_work_ahead(r, l)

-----------------------------------------------------------------------------
\* The peer manager.

note_peer_height(q, h) ==
    IF h < q.summary.height THEN q
    ELSE [q EXCEPT !.summary.height = h, !.fresh = TRUE]

note_peer_summary(q, s) ==
    IF s.work > q.summary.work \/ s.height >= q.summary.height \/ q.summary.tip = NoTip
    THEN [q EXCEPT !.summary = s, !.fresh = TRUE]
    ELSE q

\* Connected, refreshed lately and not owing an answer to a poll.
Usable == {p \in Peer : peers[p].connected /\ peers[p].fresh}

best_remote_height ==
    LET heights == {peers[p].summary.height : p \in Usable} \cup {0}
    IN  CHOOSE h \in heights : \A k \in heights : k <= h

\* The peer to sync from as a set, empty when there is none; among equals the
\* smaller address wins.
best_sync_target(height) ==
    LET S == {p \in Usable : peers[p].summary.height > height}
        better(p, q) == peers[p].summary.height > peers[q].summary.height
    IN  {p \in S : \A q \in S \ {p} : better(p, q) \/ (~better(q, p) /\ p < q)}

best_work_sync_target(local) ==
    LET S == {p \in Usable : /\ peers[p].summary.work > local.work
                             /\ peers[p].summary.tip \notin {local.tip, NoTip}}
        better(p, q) ==
            \/ peers[p].summary.work > peers[q].summary.work
            \/ peers[p].summary.work = peers[q].summary.work
               /\ peers[p].summary.height > peers[q].summary.height
    IN  {p \in S : \A q \in S \ {p} : better(p, q) \/ (~better(q, p) /\ p < q)}

-----------------------------------------------------------------------------
\* The recovery claim.

begin_higher_work_recovery(p, r) == claim' = [mode |-> "higher_work", peer |-> p, work |-> r.work]
Mark(mode) == claim' = IF claim = NoClaim THEN NoClaim ELSE [claim EXCEPT !.mode = mode]
clear == claim' = NoClaim

-----------------------------------------------------------------------------
Init ==
    /\ known = {Genesis} /\ tip = Genesis
    /\ remote \in [Peer -> {Genesis}]
    /\ peers = [p \in Peer |-> Known]
    /\ guard = [t \in Task |-> "free"]
    /\ at = [t \in Task |-> IF t = Watchdog THEN "idle" ELSE "down"]
    /\ job = [t \in Task |-> NoJob]
    /\ claim = NoClaim
    /\ accepted = FALSE
    /\ faults = 0

Goto(t, place) == at' = [at EXCEPT ![t] = place]
Hold(t, j) == job' = [job EXCEPT ![t] = j]
Idle(t) == IF t = Watchdog THEN "idle" ELSE "sleep"

\* A block whose parent is known joins the chain, and becomes its tip when its
\* branch has more work.
apply_block(b) ==
    /\ known' = known \cup {b}
    /\ tip' = IF Work[b] > Work[tip] THEN b ELSE tip

-----------------------------------------------------------------------------
\* seed_peer_loop.

\* Connect and handshake.
Dial(p) ==
    /\ at[p] = "down"
    /\ peers' = [peers EXCEPT ![p] =
          note_peer_height([@ EXCEPT !.connected = TRUE], Height[remote[p]])]
    /\ Goto(p, "poll")
    /\ UNCHANGED <<chainVars, remote, guard, job, claim, accepted, faults>>

poll_peer_height(p) ==
    /\ at[p] = "poll"
    /\ peers' = [peers EXCEPT ![p] = note_peer_summary(@, from_chain(remote[p]))]
    /\ Hold(p, [NoJob EXCEPT !.peer = p, !.seen = from_chain(remote[p])])
    /\ Goto(p, "compare")
    /\ UNCHANGED <<chainVars, remote, guard, claim, accepted, faults>>

\* The local summary, taken under the chain lock, is what the loop goes by.
Compare(p) ==
    /\ at[p] = "compare"
    /\ LET local == from_chain(tip) IN
       Hold(p, [job[p] EXCEPT !.ahead = Worth(job[p].seen, local),
                              !.more = remote_work_ahead(job[p].seen, local)])
    /\ Goto(p, "decide")
    /\ UNCHANGED <<chainVars, remote, peers, guard, claim, accepted, faults>>

\* More work raises the claim, also when the guard keeps the sync from starting.
Decide(p) ==
    /\ at[p] = "decide"
    /\ IF job[p].more THEN begin_higher_work_recovery(p, job[p].seen) ELSE UNCHANGED claim
    /\ IF job[p].ahead /\ guard[p] = "free"
       THEN /\ Goto(p, "connect") /\ UNCHANGED job
            /\ guard' = [guard EXCEPT ![p] = "running"]
       ELSE /\ Goto(p, "sleep") /\ UNCHANGED guard
            /\ Hold(p, NoJob)
    /\ UNCHANGED <<chainVars, remote, peers, accepted, faults>>

\* Five seconds, a ping and its answer.
Heartbeat(p) ==
    /\ at[p] = "sleep"
    /\ Goto(p, "poll")
    /\ UNCHANGED <<chainVars, remote, peers, guard, job, claim, accepted, faults>>

\* The session ends; the peer's last transport takes its summary along.
EndSession(p) ==
    /\ Goto(p, "down")
    /\ peers' = [peers EXCEPT ![p] = Known]

Drop(p) ==
    /\ at[p] \in {"poll", "sleep"} /\ faults < MaxFaults
    /\ EndSession(p)
    /\ faults' = faults + 1
    /\ UNCHANGED <<chainVars, remote, guard, job, claim, accepted>>

-----------------------------------------------------------------------------
\* watchdog_step.

\* should_sync_for_summary: height lag first, then work.
Choice(local) ==
    LET behind == IF best_remote_height - local.height >= LagThreshold
                  THEN best_sync_target(local.height) ELSE {}
    IN  IF behind # {} THEN [peer |-> behind, more |-> FALSE]
        ELSE [peer |-> best_work_sync_target(local), more |-> TRUE]

Tick ==
    /\ at[Watchdog] = "idle" /\ guard[Watchdog] = "free"
    /\ LET local == from_chain(tip)
           pick  == Choice(local)
       IN  /\ pick.peer # {}
           /\ \E p \in pick.peer :
                 Hold(Watchdog, [NoJob EXCEPT !.peer = p, !.seen = peers[p].summary,
                                              !.ahead = TRUE, !.more = pick.more])
    /\ Goto(Watchdog, "decide")
    /\ UNCHANGED <<chainVars, remote, peers, guard, claim, accepted, faults>>

StartSync ==
    /\ at[Watchdog] = "decide"
    /\ IF job[Watchdog].more
       THEN begin_higher_work_recovery(job[Watchdog].peer, job[Watchdog].seen)
       ELSE UNCHANGED claim
    /\ guard' = [guard EXCEPT ![Watchdog] = "running"]
    /\ Goto(Watchdog, "connect")
    /\ UNCHANGED <<chainVars, remote, peers, job, accepted, faults>>

-----------------------------------------------------------------------------
\* live_sync_from_peer, over a connection of its own.

Asked(t) == remote[job[t].peer]

\* Handshake and GetHeight.  The caller still judges the outcome by the work it
\* saw before: the summary learned here goes to `want' and the peer manager.
Connect(t) ==
    /\ at[t] = "connect"
    /\ LET p == job[t].peer IN
       peers' = [peers EXCEPT ![p] =
          note_peer_summary(note_peer_height(@, Height[Asked(t)]), from_chain(Asked(t)))]
    /\ Hold(t, [job[t] EXCEPT !.want = Asked(t)])
    /\ Goto(t, "judge")
    /\ UNCHANGED <<chainVars, remote, guard, claim, accepted, faults>>

Judge(t) ==
    /\ at[t] = "judge"
    /\ Goto(t, IF Worth(from_chain(job[t].want), from_chain(tip)) THEN "fetch" ELSE "done")
    /\ UNCHANGED <<chainVars, remote, peers, guard, job, claim, accepted, faults>>

\* From the remote tip down to a block that is known, or to a block numbered 0.
Fetch(t) ==
    /\ at[t] = "fetch"
    /\ LET b == job[t].want IN
       IF b \in known
       THEN Goto(t, "import") /\ UNCHANGED job
       ELSE IF b \in ToSet(job[t].fetched)
       THEN Goto(t, "done") /\ Hold(t, [job[t] EXCEPT !.result = "loop"])
       ELSE /\ Goto(t, IF Height[b] = 0 THEN "import" ELSE "fetch")
            /\ Hold(t, [job[t] EXCEPT !.fetched = Append(@, b), !.want = Parent[b]])
    /\ UNCHANGED <<chainVars, remote, peers, guard, claim, accepted, faults>>

\* Mutant: the blocks are imported in the order they came.
NextComer(q) == Head(q)

\* fetched.reverse(): the last block that came is the first to import.
NextFetched(q) == Last(q)

\* import_fetched_blocks, one block under the chain lock.
Import(t) ==
    /\ at[t] = "import"
    /\ IF job[t].fetched = <<>>
       THEN Goto(t, "done") /\ UNCHANGED <<chainVars, job>>
       ELSE LET b == NextFetched(job[t].fetched)
                stop(why) == /\ Goto(t, "done")
                             /\ Hold(t, [job[t] EXCEPT !.result = why, !.fetched = <<>>])
                             /\ UNCHANGED chainVars
                step == Hold(t, [job[t] EXCEPT !.fetched = Front(@)])
            IN  IF b \in known THEN step /\ UNCHANGED <<chainVars, at>>
                ELSE IF Parent[b] \notin known THEN stop("sync import stored orphan")
                ELSE IF b \in Invalid THEN stop("sync import rejected")
                ELSE step /\ apply_block(b) /\ UNCHANGED at
    /\ UNCHANGED <<remote, peers, guard, claim, accepted, faults>>

\* The connection fails, times out, or the peer closes it.
Fail(t) ==
    /\ at[t] \in {"connect", "fetch"} /\ faults < MaxFaults
    /\ Goto(t, "done")
    /\ Hold(t, [job[t] EXCEPT !.result = "error", !.fetched = <<>>])
    /\ faults' = faults + 1
    /\ UNCHANGED <<chainVars, remote, peers, guard, claim, accepted>>

-----------------------------------------------------------------------------
\* What the caller does with the outcome.

\* mark_done, then the chain's summary after the sync.
Done(t) ==
    /\ at[t] = "done"
    /\ guard' = [guard EXCEPT ![t] = "cooling"]
    /\ Hold(t, [job[t] EXCEPT !.caught = Work[tip] >= job[t].seen.work])
    /\ Goto(t, "settle")
    /\ UNCHANGED <<chainVars, remote, peers, claim, accepted, faults>>

\* The end of a sync that was for the peer's work: the claim goes when the chain
\* has that work or rejected the branch, and is marked otherwise.
SettleClaim(j) ==
    IF j.result = "Ok" /\ j.caught THEN clear
    ELSE IF j.result = "Ok" THEN Mark("recovery_limited")
    ELSE IF j.result = "sync import rejected" THEN clear
    ELSE Mark("high_risk_fork")

Settle(t) ==
    /\ at[t] = "settle"
    /\ IF job[t].more THEN SettleClaim(job[t]) ELSE UNCHANGED claim
    /\ IF t \in Seeds /\ job[t].result # "Ok" THEN EndSession(t)
       ELSE Goto(t, Idle(t)) /\ UNCHANGED peers
    /\ Hold(t, NoJob)
    /\ UNCHANGED <<chainVars, remote, guard, accepted, faults>>

\* The cooldown of STALL_OVERRIDE_SECS is over.
Cool(t) ==
    /\ guard[t] = "cooling"
    /\ guard' = [guard EXCEPT ![t] = "free"]
    /\ UNCHANGED <<chainVars, remote, peers, at, job, claim, accepted, faults>>

-----------------------------------------------------------------------------
\* The other writers of the chain, and the world outside.

Mine(b) ==
    /\ b \in Mineable /\ Parent[b] = tip
    /\ apply_block(b)
    /\ UNCHANGED <<remote, peers, guard, at, job, claim, accepted, faults>>

\* The branch that ends in b.
Branch[b \in Block] == IF Height[b] = 0 THEN {b} ELSE {b} \cup Branch[Parent[b]]

\* A block that a peer announced and sent, when it extends the canonical chain.
ImportAnnounced(b) ==
    /\ ~accepted /\ \E p \in Peer : peers[p].connected /\ b \in Branch[remote[p]]
    /\ b \notin known \cup Invalid /\ Parent[b] \in known /\ Work[b] > Work[tip]
    /\ apply_block(b)
    /\ accepted' = TRUE
    /\ UNCHANGED <<remote, peers, guard, at, job, claim, faults>>

clear_if_local_satisfies_claim ==
    /\ accepted
    /\ accepted' = FALSE
    /\ IF claim # NoClaim /\ Work[tip] >= claim.work THEN clear ELSE UNCHANGED claim
    /\ UNCHANGED <<chainVars, remote, peers, guard, at, job, faults>>

\* An inbound peer shakes hands and answers the one summary request.
InboundUp(p) ==
    /\ ~peers[p].connected
    /\ peers' = [peers EXCEPT ![p] =
          note_peer_summary(note_peer_height([@ EXCEPT !.connected = TRUE], Height[remote[p]]),
                            from_chain(remote[p]))]
    /\ UNCHANGED <<chainVars, remote, guard, at, job, claim, accepted, faults>>

\* PEER_HEIGHT_STALE_SECS without a refresh, or an unanswered poll.
Expire(p) ==
    /\ peers[p].fresh /\ faults < MaxFaults
    /\ peers' = [peers EXCEPT ![p].fresh = FALSE]
    /\ faults' = faults + 1
    /\ UNCHANGED <<chainVars, remote, guard, at, job, claim, accepted>>

RemoteAdvance(p, b) ==
    /\ b \in Tips[p] /\ Work[b] > Work[remote[p]]
    /\ remote' = [remote EXCEPT ![p] = b]
    /\ UNCHANGED <<chainVars, peers, guard, at, job, claim, accepted, faults>>

-----------------------------------------------------------------------------
SeedStep(p) == Dial(p) \/ poll_peer_height(p) \/ Compare(p) \/ Decide(p) \/ Heartbeat(p)
LiveSync(t) == Connect(t) \/ Judge(t) \/ Fetch(t) \/ Import(t) \/ Done(t) \/ Settle(t)

Next ==
    \/ \E p \in Seeds : SeedStep(p) \/ Drop(p)
    \/ Tick \/ StartSync
    \/ \E t \in Task : LiveSync(t) \/ Fail(t) \/ Cool(t)
    \/ \E b \in Block : Mine(b) \/ ImportAnnounced(b)
    \/ clear_if_local_satisfies_claim
    \/ \E p \in Inbound : InboundUp(p)
    \/ \E p \in Peer : Expire(p) \/ \E b \in Block : RemoteAdvance(p, b)

Spec == Init /\ [][Next]_vars

\* Every task runs on, every cooldown ends and the importer looks at the claim;
\* nothing is assumed of the peers, of mining or of announcements.
FairSpec ==
    /\ Spec
    /\ \A p \in Seeds : WF_vars(SeedStep(p))
    /\ WF_vars(Tick \/ StartSync)
    /\ \A t \in Task : WF_vars(LiveSync(t)) /\ WF_vars(Cool(t))
    /\ WF_vars(clear_if_local_satisfies_claim)

-----------------------------------------------------------------------------
\* Properties.

(***************************************************************************)
(* What a sync has fetched is a path: each block is the parent of the one  *)
(* fetched before it, and once importing starts the path hangs from a      *)
(* known block (or begins with a block numbered 0), whatever the other     *)
(* syncs, the miner and the importer add meanwhile.  So no import of a     *)
(* fetched branch ever stores an orphan or comes around in a loop.         *)
(***************************************************************************)
FetchedConnects ==
    \A t \in Task :
        LET q == job[t].fetched IN
        /\ \A i \in 1..(Len(q) - 1) : Parent[q[i]] = q[i + 1]
        /\ at[t] = "import" /\ q # <<>> =>
              Height[Last(q)] = 0 \/ Parent[Last(q)] \in known
        /\ job[t].result \notin {"sync import stored orphan", "loop"}

(***************************************************************************)
(* A node ends up with at least the work of every peer it dials, once the  *)
(* peer stops advancing, unless the peer's branch has a block the node     *)
(* rejects: also when the heavier branch is the shorter one, when several  *)
(* syncs run at once, and whatever connections were lost on the way.       *)
(***************************************************************************)
CatchesUp ==
    \A p \in Seeds :
        <>[](Branch[remote[p]] \cap Invalid # {} \/ Work[tip] >= Work[remote[p]])

(***************************************************************************)
(* A claim does not outlive the work it is about: recovery.rs says that a  *)
(* claim is cleared "once the local canonical chain has caught up to or    *)
(* surpassed the work advertised by that claim".                           *)
(***************************************************************************)
ClaimEnds == (claim # NoClaim /\ Work[tip] >= claim.work) ~> (claim = NoClaim)
=============================================================================
