----------------------------- MODULE SyncProofs -----------------------------
(***************************************************************************)
(* Theorems about Sync for every block tree, every set of peers and every  *)
(* number of lost connections.                                             *)
(***************************************************************************)
EXTENDS Sync, TLAPS, SequenceTheorems

Fields == {"peer", "seen", "ahead", "more", "want", "fetched", "result", "caught"}
Outcomes == {"Ok", "error", "sync import rejected"}

(***************************************************************************)
(* A job by what its task is doing with it.  It has a peer from the poll   *)
(* to the connection, a block to ask for until that block is known, and    *)
(* fetched blocks only while it fetches and imports.                       *)
(***************************************************************************)
Tasked(j, place) ==
    /\ DOMAIN j = Fields
    /\ j.result \in Outcomes
    /\ j.fetched \in Seq(Block)
    /\ place \in {"compare", "decide", "connect"} => j.peer \in Peer
    /\ place \in {"judge", "fetch"} => j.want \in Block
    /\ place \notin {"fetch", "import"} => j.fetched = <<>>

(***************************************************************************)
(* The fetched blocks lead from the remote tip towards genesis without     *)
(* reaching it: while the task fetches, the block it asks for next is the  *)
(* parent of the last one and lies below them all; while it imports, the   *)
(* parent of the last one is in the chain K.                               *)
(***************************************************************************)
Path(q) ==
    /\ \A i \in 1..Len(q) : q[i] # Genesis
    /\ \A i \in 1..(Len(q) - 1) : Parent[q[i]] = q[i + 1]

Hangs(j, place, K) ==
    /\ Path(j.fetched)
    /\ place = "fetch" =>
         /\ \A i \in 1..Len(j.fetched) : Height[j.fetched[i]] > Height[j.want]
         /\ j.fetched # <<>> => j.want = Parent[Last(j.fetched)]
    /\ place = "import" /\ j.fetched # <<>> => Parent[Last(j.fetched)] \in K

(***************************************************************************)
(* The inductive invariant.                                                *)
(***************************************************************************)
SyncInv ==
    /\ Genesis \in known
    /\ remote \in [Peer -> Block]
    /\ DOMAIN at = Task /\ DOMAIN job = Task
    /\ \A t \in Task : Tasked(job[t], at[t]) /\ Hangs(job[t], at[t], known)

-----------------------------------------------------------------------------
\* Lemmas.

LEMMA Updated ==
    ASSUME NEW j, DOMAIN j = Fields, NEW f \in Fields, NEW v
    PROVE  /\ DOMAIN [j EXCEPT ![f] = v] = Fields
           /\ \A g \in Fields : [j EXCEPT ![f] = v][g] = IF g = f THEN v ELSE j[g]
OBVIOUS

LEMMA UpdateForms ==
    /\ \A j, v : [j EXCEPT !.want = v] = [j EXCEPT !["want"] = v]
    /\ \A j, v : [j EXCEPT !.result = v] = [j EXCEPT !["result"] = v]
    /\ \A j, v : [j EXCEPT !.caught = v] = [j EXCEPT !["caught"] = v]
    /\ \A j, v : [j EXCEPT !.fetched = v] = [j EXCEPT !["fetched"] = v]
    /\ \A j, v, w : [j EXCEPT !.ahead = v, !.more = w] = [[j EXCEPT !["ahead"] = v] EXCEPT !["more"] = w]
    /\ \A j, v, w : [j EXCEPT !.result = v, !.fetched = w]
                      = [[j EXCEPT !["result"] = v] EXCEPT !["fetched"] = w]
    /\ \A j, v, w : [j EXCEPT !.fetched = v, !.want = w]
                      = [[j EXCEPT !["fetched"] = v] EXCEPT !["want"] = w]
    /\ \A j, v, w : [j EXCEPT !.peer = v, !.seen = w] = [[j EXCEPT !["peer"] = v] EXCEPT !["seen"] = w]
    /\ \A j, v, w, x, y : [j EXCEPT !.peer = v, !.seen = w, !.ahead = x, !.more = y]
          = [[[[j EXCEPT !["peer"] = v] EXCEPT !["seen"] = w] EXCEPT !["ahead"] = x] EXCEPT !["more"] = y]
BY Zenon

LEMMA NoJobIsEmpty ==
    DOMAIN NoJob = Fields /\ NoJob.result = "Ok" /\ NoJob.fetched = <<>>
BY DEF NoJob, Fields

\* A job that has not fetched.
LEMMA EmptyTasked ==
    ASSUME NEW j, DOMAIN j = Fields, j.result \in Outcomes, j.fetched = <<>>, NEW place,
           place \in {"compare", "decide", "connect"} => j.peer \in Peer,
           place \in {"judge", "fetch"} => j.want \in Block
    PROVE  Tasked(j, place)
<1>1. <<>> \in Seq(Block)
    OBVIOUS
<1> QED BY <1>1, Zenon DEF Tasked

\* A task moves on with its job.
Moves(t, j, place) ==
    /\ DOMAIN at' = Task /\ DOMAIN job' = Task
    /\ at'[t] = place /\ job'[t] = j
    /\ \A u \in Task \ {t} : at'[u] = at[u] /\ job'[u] = job[u]

LEMMA HangsGrows ==
    ASSUME NEW j, NEW place, NEW K, NEW L, K \subseteq L, Hangs(j, place, K)
    PROVE  Hangs(j, place, L)
BY DEF Hangs

LEMMA MoveStep ==
    ASSUME SyncInv, NEW t \in Task, NEW j, NEW place, Moves(t, j, place),
           known \subseteq known', remote' = remote,
           Tasked(j, place), Hangs(j, place, known')
    PROVE  SyncInv'
<1>1. \A u \in Task : Tasked(job'[u], at'[u]) /\ Hangs(job'[u], at'[u], known')
    <2> SUFFICES ASSUME NEW u \in Task, u # t
                 PROVE  Tasked(job'[u], at'[u]) /\ Hangs(job'[u], at'[u], known')
        BY DEF Moves
    <2>1. at'[u] = at[u] /\ job'[u] = job[u] /\ Tasked(job[u], at[u]) /\ Hangs(job[u], at[u], known)
        BY DEF Moves, SyncInv
    <2> QED BY <2>1, HangsGrows
<1> QED BY <1>1 DEF SyncInv, Moves

LEMMA SilentStep ==
    ASSUME SyncInv, known \subseteq known', remote' \in [Peer -> Block], UNCHANGED <<at, job>>
    PROVE  SyncInv'
<1>1. \A u \in Task : Tasked(job'[u], at'[u]) /\ Hangs(job'[u], at'[u], known')
    BY HangsGrows DEF SyncInv
<1> QED BY <1>1 DEF SyncInv

\* The two ways a task moves on.
LEMMA MovesForms ==
    ASSUME SyncInv, NEW t \in Task, NEW place, Goto(t, place)
    PROVE  /\ \A j : Hold(t, j) => Moves(t, j, place)
           /\ job' = job => Moves(t, job[t], place)
BY DEF Goto, Hold, Moves, SyncInv

LEMMA EmptyHangs ==
    ASSUME NEW j, j.fetched = <<>>, NEW place, NEW K
    PROVE  Hangs(j, place, K)
<1> DEFINE q == j.fetched
<1>1. q = <<>> /\ Len(q) = 0
    OBVIOUS
<1> HIDE DEF q
<1>2. Path(q)
    BY <1>1 DEF Path
<1> QED BY <1>1, <1>2 DEF Hangs, q

-----------------------------------------------------------------------------
\* The steps.

\* A task moves on without having fetched.
LEMMA EmptyStep ==
    ASSUME SyncInv, NEW t \in Task, NEW j, NEW place, Moves(t, j, place),
           known' = known, remote' = remote,
           DOMAIN j = Fields, j.result \in Outcomes, j.fetched = <<>>,
           place \in {"compare", "decide", "connect"} => j.peer \in Peer,
           place \in {"judge", "fetch"} => j.want \in Block
    PROVE  SyncInv'
BY EmptyTasked, EmptyHangs, MoveStep

LEMMA SeedTask ==
    ASSUME NEW p \in Seeds
    PROVE  p \in Task /\ p \in Peer
BY DEF Task, Peer

LEMMA SeedStepKept ==
    ASSUME SyncInv, NEW p \in Seeds, SeedStep(p) \/ Drop(p)
    PROVE  SyncInv'
<1>0. /\ p \in Task /\ p \in Peer /\ Tasked(job[p], at[p]) /\ DOMAIN job[p] = Fields
      /\ job[p].result \in Outcomes
    BY SeedTask DEF SyncInv, Tasked
<1>n. DOMAIN NoJob = Fields /\ NoJob.result \in Outcomes /\ NoJob.fetched = <<>>
    BY NoJobIsEmpty DEF Outcomes
<1>1. CASE Dial(p) \/ Heartbeat(p) \/ Drop(p)
    <2>1. PICK place \in {"poll", "down"} : Goto(p, place) /\ UNCHANGED <<known, remote, job>>
        BY <1>1 DEF Dial, Heartbeat, Drop, EndSession, chainVars
    <2>2. at[p] \in {"down", "sleep", "poll"}
        BY <1>1 DEF Dial, Heartbeat, Drop
    <2>3. job[p].fetched = <<>>
        BY <1>0, <2>2 DEF Tasked
    <2>4. Moves(p, job[p], place)
        BY <1>0, <2>1, MovesForms
    <2> QED BY <1>0, <2>1, <2>3, <2>4, EmptyStep
<1>2. CASE poll_peer_height(p)
    <2> DEFINE j == [NoJob EXCEPT !.peer = p, !.seen = from_chain(remote[p])]
               k == [NoJob EXCEPT !["peer"] = p]
    <2>1. Goto(p, "compare") /\ Hold(p, j) /\ UNCHANGED <<known, remote>>
        BY <1>2 DEF poll_peer_height, chainVars
    <2>2. j = [k EXCEPT !["seen"] = from_chain(remote[p])]
        BY UpdateForms, Zenon
    <2>3. DOMAIN k = Fields /\ \A g \in Fields : k[g] = IF g = "peer" THEN p ELSE NoJob[g]
        BY <1>n, Updated DEF Fields
    <2>m. Moves(p, j, "compare")
        BY <1>0, <2>1, MovesForms
    <2> HIDE DEF j, k
    <2>4. DOMAIN j = Fields /\ \A g \in Fields : g # "seen" => j[g] = k[g]
        BY <2>2, <2>3, Updated DEF Fields
    <2>5. j.peer = p /\ j.result \in Outcomes /\ j.fetched = <<>>
        BY <1>n, <2>3, <2>4 DEF Fields
    <2> QED BY <1>0, <2>1, <2>4, <2>5, <2>m, EmptyStep
<1>3. CASE Compare(p)
    <2>1. PICK a, b : /\ Hold(p, [job[p] EXCEPT !.ahead = a, !.more = b])
                      /\ Goto(p, "decide") /\ UNCHANGED <<known, remote>> /\ at[p] = "compare"
        BY <1>3, Zenon DEF Compare, chainVars
    <2> DEFINE j == [job[p] EXCEPT !.ahead = a, !.more = b]
               k == [job[p] EXCEPT !["ahead"] = a]
    <2>2. j = [k EXCEPT !["more"] = b]
        BY UpdateForms, Zenon
    <2>3. DOMAIN k = Fields /\ \A g \in Fields : g # "ahead" => k[g] = job[p][g]
        BY <1>0, Updated DEF Fields
    <2>m. Moves(p, j, "decide")
        BY <1>0, <2>1, MovesForms
    <2>e. job[p].fetched = <<>> /\ job[p].peer \in Peer
        BY <1>0, <2>1 DEF Tasked
    <2> HIDE DEF j, k
    <2>4. DOMAIN j = Fields /\ \A g \in Fields : g # "more" => j[g] = k[g]
        BY <2>2, <2>3, Updated DEF Fields
    <2>5. j.peer \in Peer /\ j.result \in Outcomes /\ j.fetched = <<>>
        BY <1>0, <2>3, <2>4, <2>e DEF Fields
    <2> QED BY <1>0, <2>1, <2>4, <2>5, <2>m, EmptyStep
<1>4. CASE Decide(p)
    <2>e. job[p].fetched = <<>> /\ job[p].peer \in Peer
        BY <1>0, <1>4 DEF Tasked, Decide
    <2>k. UNCHANGED <<known, remote>>
        BY <1>4 DEF Decide, chainVars
    <2>1. CASE Goto(p, "connect") /\ job' = job
        BY <1>0, <2>1, <2>e, <2>k, MovesForms, EmptyStep
    <2>2. CASE Goto(p, "sleep") /\ Hold(p, NoJob)
        BY <1>0, <1>n, <2>2, <2>k, MovesForms, EmptyStep
    <2> QED BY <1>4, <2>1, <2>2 DEF Decide
<1> QED BY <1>1, <1>2, <1>3, <1>4 DEF SeedStep

LEMMA WatchdogKept ==
    ASSUME SyncInv, Tick \/ StartSync
    PROVE  SyncInv'
<1> DEFINE t == Watchdog
<1>0. /\ t \in Task /\ Tasked(job[t], at[t]) /\ DOMAIN job[t] = Fields
      /\ job[t].result \in Outcomes
    BY DEF SyncInv, Tasked, Task
<1>n. DOMAIN NoJob = Fields /\ NoJob.result \in Outcomes /\ NoJob.fetched = <<>>
    BY NoJobIsEmpty DEF Outcomes
<1>1. CASE StartSync
    <2>1. Goto(t, "connect") /\ UNCHANGED <<known, remote, job>> /\ at[t] = "decide"
        BY <1>1 DEF StartSync, chainVars
    <2>e. job[t].fetched = <<>> /\ job[t].peer \in Peer
        BY <1>0, <2>1 DEF Tasked
    <2> QED BY <1>0, <2>1, <2>e, MovesForms, EmptyStep
<1>2. CASE Tick
    <2>1. PICK p \in Choice(from_chain(tip)).peer :
             /\ Hold(t, [NoJob EXCEPT !.peer = p, !.seen = peers[p].summary, !.ahead = TRUE,
                                      !.more = Choice(from_chain(tip)).more])
             /\ Goto(t, "decide") /\ UNCHANGED <<known, remote>>
        BY <1>2, Zenon DEF Tick, chainVars
    <2>2. p \in Peer
        <3>1. \A h : best_sync_target(h) \subseteq Peer
            BY DEF best_sync_target, Usable
        <3>2. \A l : best_work_sync_target(l) \subseteq Peer
            BY DEF best_work_sync_target, Usable
        <3>3. \A l : Choice(l).peer \subseteq Peer
            <4> SUFFICES ASSUME NEW l PROVE Choice(l).peer \subseteq Peer
                OBVIOUS
            <4>1. \/ \E h : Choice(l) = [peer |-> best_sync_target(h), more |-> FALSE]
                  \/ \E h : Choice(l) = [peer |-> {}, more |-> FALSE]
                  \/ Choice(l) = [peer |-> best_work_sync_target(l), more |-> TRUE]
                BY Zenon DEF Choice
            <4> QED BY <3>1, <3>2, <4>1
        <3> QED BY <3>3
    <2> DEFINE c == Choice(from_chain(tip)).more
               j == [NoJob EXCEPT !.peer = p, !.seen = peers[p].summary, !.ahead = TRUE, !.more = c]
               j1 == [NoJob EXCEPT !["peer"] = p]
               j2 == [j1 EXCEPT !["seen"] = peers[p].summary]
               j3 == [j2 EXCEPT !["ahead"] = TRUE]
    <2>m. Moves(t, j, "decide")
        BY <1>0, <2>1, MovesForms
    <2>3. j = [j3 EXCEPT !["more"] = c]
        BY UpdateForms, Zenon
    <2>4. DOMAIN j1 = Fields /\ \A g \in Fields : j1[g] = IF g = "peer" THEN p ELSE NoJob[g]
        BY <1>n, Updated DEF Fields
    <2> HIDE DEF j, j1
    <2>5. DOMAIN j2 = Fields /\ \A g \in Fields : g # "seen" => j2[g] = j1[g]
        BY <2>4, Updated DEF Fields
    <2> HIDE DEF j2
    <2>6. DOMAIN j3 = Fields /\ \A g \in Fields : g # "ahead" => j3[g] = j2[g]
        BY <2>5, Updated DEF Fields
    <2> HIDE DEF j3
    <2>7. DOMAIN j = Fields /\ \A g \in Fields : g # "more" => j[g] = j3[g]
        BY <2>3, <2>6, Updated DEF Fields
    <2>8. j.peer = p /\ j.result \in Outcomes /\ j.fetched = <<>>
        BY <1>n, <2>4, <2>5, <2>6, <2>7 DEF Fields
    <2> QED BY <1>0, <2>1, <2>2, <2>7, <2>8, <2>m, EmptyStep
<1> QED BY <1>1, <1>2

\* The parent of a block other than genesis is one lower.
LEMMA Lower ==
    ASSUME NEW b \in Block, b # Genesis
    PROVE  Parent[b] \in Block /\ Height[Parent[b]] < Height[b] /\ Height[b] # 0
<1>1. Parent[b] \in Block /\ Height[b] = Height[Parent[b]] + 1 /\ Height[Parent[b]] \in Nat
    BY SyncAssumption
<1> QED BY <1>1

LEMMA ConnectKept ==
    ASSUME SyncInv, NEW t \in Task, Connect(t) \/ Judge(t) \/ Done(t) \/ Settle(t) \/ Fail(t)
    PROVE  SyncInv'
<1>0. /\ Tasked(job[t], at[t]) /\ DOMAIN job[t] = Fields /\ job[t].result \in Outcomes
    BY DEF SyncInv, Tasked
<1>n. DOMAIN NoJob = Fields /\ NoJob.result \in Outcomes /\ NoJob.fetched = <<>>
    BY NoJobIsEmpty DEF Outcomes
<1>k. UNCHANGED <<known, remote>>
    BY DEF Connect, Judge, Done, Settle, Fail, chainVars
<1>1. CASE Connect(t)
    <2> DEFINE j == [job[t] EXCEPT !.want = Asked(t)]
    <2>1. Hold(t, j) /\ Goto(t, "judge") /\ at[t] = "connect"
        BY <1>1 DEF Connect
    <2>e. job[t].fetched = <<>> /\ Asked(t) \in Block
        BY <1>0, <2>1 DEF Tasked, Asked, SyncInv
    <2>2. j = [job[t] EXCEPT !["want"] = Asked(t)]
        BY UpdateForms, Zenon
    <2>m. Moves(t, j, "judge")
        BY <2>1, MovesForms
    <2> HIDE DEF j
    <2>3. DOMAIN j = Fields /\ \A g \in Fields : j[g] = IF g = "want" THEN Asked(t) ELSE job[t][g]
        BY <1>0, <2>2, Updated DEF Fields
    <2>4. j.want \in Block /\ j.fetched = <<>> /\ j.result \in Outcomes
        BY <1>0, <2>3, <2>e DEF Fields
    <2> QED BY <1>k, <2>3, <2>4, <2>m, EmptyStep
<1>2. CASE Judge(t)
    <2>1. PICK place \in {"fetch", "done"} : Goto(t, place) /\ job' = job /\ at[t] = "judge"
        BY <1>2, Zenon DEF Judge
    <2>e. job[t].fetched = <<>> /\ job[t].want \in Block
        BY <1>0, <2>1 DEF Tasked
    <2> QED BY <1>0, <1>k, <2>1, <2>e, MovesForms, EmptyStep
<1>3. CASE Done(t)
    <2>1. PICK c : Hold(t, [job[t] EXCEPT !.caught = c]) /\ Goto(t, "settle") /\ at[t] = "done"
        BY <1>3, Zenon DEF Done
    <2> DEFINE j == [job[t] EXCEPT !.caught = c]
    <2>e. job[t].fetched = <<>>
        BY <1>0, <2>1 DEF Tasked
    <2>2. j = [job[t] EXCEPT !["caught"] = c]
        BY UpdateForms, Zenon
    <2>m. Moves(t, j, "settle")
        BY <2>1, MovesForms
    <2> HIDE DEF j
    <2>3. DOMAIN j = Fields /\ \A g \in Fields : g # "caught" => j[g] = job[t][g]
        BY <1>0, <2>2, Updated DEF Fields
    <2>4. j.fetched = <<>> /\ j.result \in Outcomes
        BY <1>0, <2>3, <2>e DEF Fields
    <2> QED BY <1>k, <2>3, <2>4, <2>m, EmptyStep
<1>4. CASE Settle(t)
    <2>1. PICK place \in {"down", "idle", "sleep"} : Goto(t, place)
        BY <1>4 DEF Settle, EndSession, Idle
    <2>2. Hold(t, NoJob)
        BY <1>4 DEF Settle
    <2> QED BY <1>k, <1>n, <2>1, <2>2, MovesForms, EmptyStep
<1>5. CASE Fail(t)
    <2> DEFINE j == [job[t] EXCEPT !.result = "error", !.fetched = <<>>]
               k == [job[t] EXCEPT !["result"] = "error"]
    <2>1. Hold(t, j) /\ Goto(t, "done")
        BY <1>5 DEF Fail
    <2>2. j = [k EXCEPT !["fetched"] = <<>>]
        BY UpdateForms, Zenon
    <2>3. DOMAIN k = Fields /\ \A g \in Fields : k[g] = IF g = "result" THEN "error" ELSE job[t][g]
        BY <1>0, Updated DEF Fields
    <2>m. Moves(t, j, "done")
        BY <2>1, MovesForms
    <2> HIDE DEF j, k
    <2>4. DOMAIN j = Fields /\ \A g \in Fields : j[g] = IF g = "fetched" THEN <<>> ELSE k[g]
        BY <2>2, <2>3, Updated DEF Fields
    <2>5. j.fetched = <<>> /\ j.result = "error"
        BY <2>3, <2>4 DEF Fields
    <2> QED BY <1>k, <2>4, <2>5, <2>m, EmptyStep DEF Outcomes
<1> QED BY <1>1, <1>2, <1>3, <1>4, <1>5

LEMMA FetchKept ==
    ASSUME SyncInv, NEW t \in Task, Fetch(t)
    PROVE  SyncInv'
<1> DEFINE q == job[t].fetched
           b == job[t].want
<1>0. /\ at[t] = "fetch" /\ DOMAIN job[t] = Fields /\ job[t].result \in Outcomes
      /\ q \in Seq(Block) /\ b \in Block /\ Genesis \in known /\ Path(q)
      /\ \A i \in 1..Len(q) : Height[q[i]] > Height[b]
      /\ q # <<>> => b = Parent[Last(q)]
    BY DEF Fetch, SyncInv, Tasked, Hangs
<1>k. UNCHANGED <<known, remote>>
    BY DEF Fetch, chainVars
<1>1. CASE b \in known
    <2>1. Goto(t, "import") /\ job' = job
        BY <1>1, Zenon DEF Fetch
    <2>2. Moves(t, job[t], "import")
        BY <2>1, MovesForms
    <2>3. Tasked(job[t], "import")
        BY <1>0 DEF Tasked
    <2>4. Hangs(job[t], "import", known')
        BY <1>0, <1>1, <1>k DEF Hangs
    <2> QED BY <1>k, <2>2, <2>3, <2>4, MoveStep
<1>2. CASE b \notin known
    <2>1. b # Genesis /\ Parent[b] \in Block /\ Height[Parent[b]] < Height[b] /\ Height[b] # 0
        BY <1>0, <1>2, Lower
    <2>2. b \notin ToSet(q)
        <3>1. \A i \in DOMAIN q : i \in 1..Len(q) /\ q[i] \in Block
            BY <1>0
        <3>2. \A c \in Block : Height[c] \in Nat
            BY SyncAssumption
        <3>3. \A i \in DOMAIN q : q[i] # b
            BY <1>0, <3>1, <3>2
        <3> QED BY <3>3 DEF ToSet
    <2> DEFINE j == [job[t] EXCEPT !.fetched = Append(q, b), !.want = Parent[b]]
               k == [job[t] EXCEPT !["fetched"] = Append(q, b)]
    <2>3. Goto(t, "fetch") /\ Hold(t, j)
        BY <1>2, <2>1, <2>2, Zenon DEF Fetch
    <2>4. j = [k EXCEPT !["want"] = Parent[b]]
        BY UpdateForms, Zenon
    <2>5. DOMAIN k = Fields /\ \A g \in Fields : k[g] = IF g = "fetched" THEN Append(q, b) ELSE job[t][g]
        BY <1>0, Updated DEF Fields
    <2>m. Moves(t, j, "fetch")
        BY <2>3, MovesForms
    <2> HIDE DEF j, k
    <2>6. DOMAIN j = Fields /\ \A g \in Fields : j[g] = IF g = "want" THEN Parent[b] ELSE k[g]
        BY <2>4, <2>5, Updated DEF Fields
    <2>7. j.want = Parent[b] /\ j.fetched = Append(q, b) /\ j.result \in Outcomes
        BY <1>0, <2>5, <2>6 DEF Fields
    <2> HIDE DEF q, b
    <2> DEFINE r == Append(q, b)
    <2>8. /\ r \in Seq(Block) /\ Len(r) = Len(q) + 1 /\ Len(q) \in Nat /\ r[Len(r)] = b /\ r # <<>>
          /\ \A i \in 1..Len(q) : r[i] = q[i] /\ q[i] \in Block
        BY <1>0, AppendProperties
    <2> HIDE DEF r
    <2>9. \A i \in 1..Len(r) : r[i] # Genesis /\ Height[r[i]] > Height[Parent[b]]
        <3> SUFFICES ASSUME NEW i \in 1..Len(r)
                     PROVE  r[i] # Genesis /\ Height[r[i]] > Height[Parent[b]]
            OBVIOUS
        <3>1. CASE i = Len(r)
            BY <3>1, <2>1, <2>8, SyncAssumption, <1>0
        <3>2. CASE i \in 1..Len(q)
            <4>1. r[i] = q[i] /\ q[i] # Genesis /\ Height[q[i]] > Height[b]
                BY <1>0, <2>8, <3>2 DEF Path
            <4>2. Height[q[i]] \in Nat /\ Height[b] \in Nat /\ Height[Parent[b]] \in Nat
                BY <1>0, <2>1, <2>8, <3>2, SyncAssumption
            <4> QED BY <2>1, <4>1, <4>2
        <3> QED BY <2>8, <3>1, <3>2
    <2>10. \A i \in 1..(Len(r) - 1) : Parent[r[i]] = r[i + 1]
        <3> SUFFICES ASSUME NEW i \in 1..Len(q) PROVE Parent[r[i]] = r[i + 1]
            BY <2>8
        <3>1. CASE i = Len(q)
            <4>1. q # <<>> /\ Last(q) = q[i]
                BY <3>1, <1>0 DEF Last
            <4>2. r[i] = q[i] /\ r[i + 1] = b
                BY <2>8, <3>1
            <4> QED BY <1>0, <4>1, <4>2
        <3>2. CASE i \in 1..(Len(q) - 1)
            <4>1. Parent[q[i]] = q[i + 1] /\ i + 1 \in 1..Len(q)
                BY <1>0, <2>8, <3>2 DEF Path
            <4> QED BY <2>8, <4>1
        <3> QED BY <2>8, <3>1, <3>2
    <2>11. Path(r) /\ Last(r) = b
        BY <2>8, <2>9, <2>10 DEF Path, Last
    <2>12. Tasked(j, "fetch")
        BY <2>1, <2>6, <2>7, <2>8, Zenon DEF Tasked, r
    <2>13. Hangs(j, "fetch", known')
        <3>1. j.fetched = r /\ j.want = Parent[b]
            BY <2>7 DEF r
        <3> QED BY <2>9, <2>11, <3>1, Zenon DEF Hangs
    <2> QED BY <1>k, <2>12, <2>13, <2>m, MoveStep
<1> QED BY <1>1, <1>2

LEMMA Fronts ==
    ASSUME NEW q \in Seq(Block), q # <<>>
    PROVE  /\ Front(q) \in Seq(Block) /\ Len(q) \in Nat \ {0} /\ Len(Front(q)) = Len(q) - 1
           /\ \A i \in 1..(Len(q) - 1) : Front(q)[i] = q[i]
<1>1. Len(q) \in Nat \ {0}
    BY EmptySeq
<1>2. /\ SubSeq(q, 1, Len(q) - 1) \in Seq(Block)
      /\ Len(SubSeq(q, 1, Len(q) - 1)) = Len(q) - 1
      /\ \A i \in 1..(Len(q) - 1) : SubSeq(q, 1, Len(q) - 1)[i] = q[i]
    <2> DEFINE n == Len(q) - 1
    <2>1. n \in Nat /\ n \in Int /\ 1 \in Int /\ \A i \in 1..n : q[i] \in Block
        BY <1>1
    <2> HIDE DEF n
    <2>2. /\ SubSeq(q, 1, n) \in Seq(Block)
          /\ Len(SubSeq(q, 1, n)) = IF 1 <= n THEN n - 1 + 1 ELSE 0
          /\ \A i \in 1..(n - 1 + 1) : SubSeq(q, 1, n)[i] = q[1 + i - 1]
        BY <2>1, SubSeqProperties
    <2>3. (IF 1 <= n THEN n - 1 + 1 ELSE 0) = n /\ n - 1 + 1 = n /\ \A i \in 1..n : 1 + i - 1 = i
        BY <2>1
    <2>4. Len(SubSeq(q, 1, n)) = n /\ \A i \in 1..n : SubSeq(q, 1, n)[i] = q[i]
        BY <2>2, <2>3, Zenon
    <2> QED BY <2>2, <2>4 DEF n
<1> QED BY <1>1, <1>2 DEF Front

LEMMA ImportKept ==
    ASSUME SyncInv, NEW t \in Task, Import(t)
    PROVE  SyncInv'
<1> DEFINE q == job[t].fetched
           b == NextFetched(q)
<1>0. /\ at[t] = "import" /\ DOMAIN job[t] = Fields /\ job[t].result \in Outcomes
      /\ q \in Seq(Block) /\ Genesis \in known /\ Path(q) /\ DOMAIN at = Task
      /\ q # <<>> => Parent[Last(q)] \in known
    BY DEF Import, SyncInv, Tasked, Hangs
<1>r. remote' = remote
    BY DEF Import
<1>1. CASE q = <<>>
    <2>1. Goto(t, "done") /\ job' = job /\ known' = known
        BY <1>1, Zenon DEF Import, chainVars
    <2> QED BY <1>0, <1>1, <1>r, <2>1, MovesForms, EmptyStep
<1>2. CASE q # <<>> /\ ~(b \notin known /\ b \in Invalid)
    <2> DEFINE j == [job[t] EXCEPT !.fetched = Front(q)]
    <2>1. b = Last(q) /\ b = q[Len(q)]
        BY DEF NextFetched, Last
    <2>2. /\ Hold(t, j) /\ at' = at
          /\ known \subseteq known' /\ b \in known'
        <3>1. CASE b \in known
            <4>1. Hold(t, j) /\ UNCHANGED <<chainVars, at>>
                BY <1>2, <3>1, Zenon DEF Import
            <4> QED BY <3>1, <4>1 DEF chainVars
        <3>2. CASE b \notin known
            <4>1. Parent[b] \in known /\ b \notin Invalid
                BY <1>0, <1>2, <2>1, <3>2
            <4>2. Hold(t, j) /\ apply_block(b) /\ at' = at
                BY <1>2, <3>2, <4>1, Zenon DEF Import
            <4> QED BY <4>2 DEF apply_block
        <3> QED BY <3>1, <3>2
    <2>4. j = [job[t] EXCEPT !["fetched"] = Front(q)]
        BY UpdateForms, Zenon
    <2>m. Moves(t, j, "import")
        BY <1>0, <2>2 DEF Moves, Hold, SyncInv
    <2> HIDE DEF j
    <2>5. DOMAIN j = Fields /\ \A g \in Fields : j[g] = IF g = "fetched" THEN Front(q) ELSE job[t][g]
        BY <1>0, <2>4, Updated DEF Fields
    <2>6. j.fetched = Front(q) /\ j.result \in Outcomes
        BY <1>0, <2>5 DEF Fields
    <2> DEFINE r == Front(q)
    <2> HIDE DEF q, b
    <2>7. /\ r \in Seq(Block) /\ Len(q) \in Nat \ {0} /\ Len(r) = Len(q) - 1
          /\ \A i \in 1..Len(r) : r[i] = q[i]
        BY <1>0, <1>2, Fronts
    <2> HIDE DEF r
    <2>8. Path(r)
        <3>1. \A i \in 1..Len(r) : i \in 1..Len(q) /\ r[i] # Genesis
            BY <1>0, <2>7 DEF Path
        <3>2. \A i \in 1..(Len(r) - 1) : i \in 1..(Len(q) - 1) /\ i \in 1..Len(r) /\ i + 1 \in 1..Len(r)
            BY <2>7
        <3>3. \A i \in 1..(Len(r) - 1) : Parent[r[i]] = r[i + 1]
            BY <1>0, <2>7, <3>2 DEF Path
        <3> QED BY <3>1, <3>3 DEF Path
    <2>9. r # <<>> => Parent[Last(r)] \in known'
        <3> SUFFICES ASSUME r # <<>> PROVE Parent[Last(r)] \in known'
            OBVIOUS
        <3>1. Len(r) \in 1..(Len(q) - 1) /\ Last(r) = q[Len(r)] /\ Len(r) + 1 = Len(q)
            BY <2>7 DEF Last
        <3>2. Parent[q[Len(r)]] = q[Len(r) + 1]
            BY <1>0, <3>1 DEF Path
        <3> QED BY <2>1, <2>2, <3>1, <3>2
    <2>10. Tasked(j, "import")
        BY <2>5, <2>6, <2>7, Zenon DEF Tasked, r
    <2>11. Hangs(j, "import", known')
        <3>1. j.fetched = r
            BY <2>6 DEF r
        <3> QED BY <2>8, <2>9, <3>1, Zenon DEF Hangs
    <2> QED BY <1>r, <2>2, <2>10, <2>11, <2>m, MoveStep
<1>3. CASE q # <<>> /\ b \notin known /\ b \in Invalid
    <2> DEFINE w == "sync import rejected"
               j == [job[t] EXCEPT !.result = w, !.fetched = <<>>]
               k == [job[t] EXCEPT !["result"] = w]
    <2>1. Parent[b] \in known
        BY <1>0, <1>3 DEF NextFetched
    <2>2. Goto(t, "done") /\ Hold(t, j) /\ known' = known
        BY <1>3, <2>1, Zenon DEF Import, chainVars
    <2>3. j = [k EXCEPT !["fetched"] = <<>>]
        BY UpdateForms, Zenon
    <2>4. DOMAIN k = Fields /\ \A g \in Fields : k[g] = IF g = "result" THEN w ELSE job[t][g]
        BY <1>0, Updated DEF Fields
    <2>m. Moves(t, j, "done")
        BY <2>2, MovesForms
    <2> HIDE DEF j, k
    <2>5. DOMAIN j = Fields /\ \A g \in Fields : j[g] = IF g = "fetched" THEN <<>> ELSE k[g]
        BY <2>3, <2>4, Updated DEF Fields
    <2>6. j.fetched = <<>> /\ j.result = w
        BY <2>4, <2>5 DEF Fields
    <2> QED BY <1>r, <2>2, <2>5, <2>6, <2>m, EmptyStep DEF Outcomes
<1> QED BY <1>1, <1>2, <1>3

LEMMA SyncKept ==
    ASSUME SyncInv, [Next]_vars
    PROVE  SyncInv'
<1>1. ASSUME NEW t \in Task, LiveSync(t) \/ Fail(t) \/ Cool(t)
      PROVE  SyncInv'
    <2>1. CASE Cool(t)
        BY <2>1, SilentStep DEF Cool, chainVars, SyncInv
    <2> QED BY <1>1, <2>1, ConnectKept, FetchKept, ImportKept DEF LiveSync
<1>2. ASSUME NEW b \in Block, Mine(b) \/ ImportAnnounced(b)
      PROVE  SyncInv'
    BY <1>2, SilentStep DEF Mine, ImportAnnounced, apply_block, SyncInv
<1>3. CASE clear_if_local_satisfies_claim \/ UNCHANGED vars
    BY <1>3, SilentStep DEF clear_if_local_satisfies_claim, vars, chainVars, SyncInv
<1>4. ASSUME NEW p \in Inbound, InboundUp(p)
      PROVE  SyncInv'
    BY <1>4, SilentStep DEF InboundUp, chainVars, SyncInv
<1>5. ASSUME NEW p \in Peer, Expire(p) \/ \E b \in Block : RemoteAdvance(p, b)
      PROVE  SyncInv'
    <2>1. known' = known /\ remote' \in [Peer -> Block] /\ UNCHANGED <<at, job>>
        BY <1>5 DEF Expire, RemoteAdvance, chainVars, SyncInv
    <2> QED BY <2>1, SilentStep
<1> QED BY <1>1, <1>2, <1>3, <1>4, <1>5, SeedStepKept, WatchdogKept DEF Next

LEMMA SyncStarts == Init => SyncInv
<1> SUFFICES ASSUME Init PROVE SyncInv
    OBVIOUS
<1>1. \A t \in Task : at[t] \in {"idle", "down"} /\ job[t] = NoJob
    BY DEF Init
<1>2. DOMAIN NoJob = Fields /\ NoJob.result \in Outcomes /\ NoJob.fetched = <<>>
    BY NoJobIsEmpty DEF Outcomes
<1>3. \A t \in Task : Tasked(job[t], at[t])
    BY <1>1, <1>2, EmptyTasked
<1>4. \A t \in Task : Hangs(job[t], at[t], known)
    BY <1>1, <1>2, EmptyHangs
<1>5. Genesis \in known /\ remote \in [Peer -> Block] /\ DOMAIN at = Task /\ DOMAIN job = Task
    BY SyncAssumption DEF Init
<1> QED BY <1>3, <1>4, <1>5 DEF SyncInv

-----------------------------------------------------------------------------
\* The theorems.

(***************************************************************************)
(* The inductive invariant: what every sync task holds across its awaits.  *)
(***************************************************************************)
THEOREM SyncInvariant == Spec => []SyncInv
BY SyncStarts, SyncKept, PTL DEF Spec

(***************************************************************************)
(* FetchedConnects for every block tree: however many syncs run at once    *)
(* and whatever they, the miner and the importer add to the chain between  *)
(* the fetch and the import of live_sync_from_peer, the fetched blocks     *)
(* hang from the chain, no import stores an orphan, and no walk down from  *)
(* a peer's tip comes around in a loop.                                    *)
(***************************************************************************)
THEOREM FetchedConnectsHolds == Spec => []FetchedConnects
<1>1. SyncInv => FetchedConnects
    <2> SUFFICES ASSUME SyncInv, NEW t \in Task
                 PROVE  LET q == job[t].fetched IN
                        /\ \A i \in 1..(Len(q) - 1) : Parent[q[i]] = q[i + 1]
                        /\ at[t] = "import" /\ q # <<>> =>
                              Height[Last(q)] = 0 \/ Parent[Last(q)] \in known
                        /\ job[t].result \notin {"sync import stored orphan", "loop"}
        BY DEF FetchedConnects
    <2>1. Tasked(job[t], at[t]) /\ Hangs(job[t], at[t], known)
        BY DEF SyncInv
    <2>2. job[t].result \notin {"sync import stored orphan", "loop"}
        BY <2>1 DEF Tasked, Outcomes
    <2>3. Path(job[t].fetched)
        BY <2>1 DEF Hangs
    <2> QED BY <2>1, <2>2, <2>3, Zenon DEF Hangs, Path
<1> QED BY <1>1, SyncInvariant, PTL
=============================================================================
