------------------------------ MODULE Restart ------------------------------
(***************************************************************************)
(* A node's life around ChainState: startup (open, bootstrap, snapshot     *)
(* restore, replay or rebuild), running, crash, and startup again.         *)
(*                                                                         *)
(* sled writes its log behind the program's back and recovers a prefix of  *)
(* it, so what a crash leaves is the database as it was at some earlier    *)
(* moment, between any two writes.  `durable' is that moment: it follows   *)
(* the database by Flush, and by the images between the several writes of  *)
(* one step.                                                               *)
(***************************************************************************)
EXTENDS ChainState

CONSTANTS
    BootstrapCut,  \* how many of bootstrap's five writes a failure may leave
    ClockBack,     \* TRUE: the wall clock may be set back while the node is down
    MaxCrashes     \* bound on crashes

ASSUME RestartAssumption ==
    /\ BootstrapCut \subseteq 0..4 /\ ClockBack \in BOOLEAN /\ MaxCrashes \in Nat

VARIABLES
    db_genesis,  \* meta:genesis_hash
    durable,     \* the database image a crash would leave
    phase,       \* where startup is
    next,        \* the height startup replays next
    target,      \* the stored tip height, read before the replay
    goal,        \* the tip the database named when it was opened
    held,        \* the durable tip when the node last ceased to be up
    crashes

diskVars == <<db_genesis, durable>>
bootVars == <<phase, next, target, goal, held, crashes>>
nodeVars == <<vars, diskVars, bootVars>>

Phase == {"down", "opened", "booted", "replay", "up", "failed"}

Image == [blocks |-> db_blocks, height |-> db_height, tip |-> db_tip, snap |-> db_snap,
          genesis |-> db_genesis]
EmptyImage == [blocks |-> {}, height |-> [h \in Heights |-> NoBlock],
               tip |-> [height |-> NoHeight, hash |-> NoBlock],
               snap |-> [h \in Heights |-> NoSnapshot], genesis |-> NoBlock]

DiskBecomes(image) ==
    /\ db_blocks' = image.blocks /\ db_height' = image.height
    /\ db_tip' = image.tip /\ db_snap' = image.snap /\ db_genesis' = image.genesis

-----------------------------------------------------------------------------
\* Memory.

\* ChainState::empty, and what the rebuild clears.
ClearMemory ==
    /\ blocks' = <<>> /\ top' = -1
    /\ canon_index' = [b \in Block |-> NoHeight]
    /\ side_blocks' = {} /\ seen_blocks' = {}
    /\ cumulative_work' = [b \in Block |-> 0]
    /\ orphan_pool' = [b \in Block |-> <<>>]
    /\ ledger' = Genesis
    /\ pending_reorg_recovery' = {}

\* Mutant: a block's own difficulty is left out of the running sum.
IndexesWorkBelow(f, n) ==
    LET members == {f[i] : i \in 0..n} IN
    /\ blocks' = [i \in 0..n |-> f[i]]
    /\ top' = n
    /\ canon_index' = [b \in Block |-> IF b \in members THEN Number[b] ELSE NoHeight]
    /\ seen_blocks' = members
    /\ cumulative_work' = [b \in Block |-> IF b \in members THEN TotalWork[b] - Work[b] ELSE 0]

\* The indexes as load_canon_chain and restore_snapshot_at rebuild them from a
\* canonical Vec f on 0..n.
IndexesOf(f, n) ==
    LET members == {f[i] : i \in 0..n}
        At(b)   == CHOOSE i \in 0..n : f[i] = b
        cumulative[i \in 0..n] == IF i = 0 THEN Work[f[0]] ELSE cumulative[i - 1] + Work[f[i]]
    IN
    /\ blocks' = [i \in 0..n |-> f[i]]
    /\ top' = n
    /\ canon_index' = [b \in Block |-> IF b \in members THEN Number[b] ELSE NoHeight]
    /\ seen_blocks' = members
    /\ cumulative_work' =
          [b \in Block |-> IF b \in members THEN cumulative[At(b)] ELSE 0]

RestartInit ==
    /\ blocks = <<>> /\ top = -1 /\ canon_index = [b \in Block |-> NoHeight]
    /\ side_blocks = {} /\ seen_blocks = {} /\ cumulative_work = [b \in Block |-> 0]
    /\ orphan_pool = [b \in Block |-> <<>>] /\ ledger = Genesis
    /\ pending_reorg_recovery = {}
    /\ db_blocks = {} /\ db_height = EmptyImage.height /\ db_tip = EmptyImage.tip
    /\ db_snap = EmptyImage.snap /\ db_genesis = NoBlock
    /\ durable = EmptyImage
    /\ work = <<>> /\ result = "idle" /\ now = 0 /\ faults = 0
    /\ phase = "down" /\ next = 0 /\ target = 0
    /\ goal = NoBlock /\ held = NoBlock /\ crashes = 0

-----------------------------------------------------------------------------
\* Startup.

Stored(h) == h \in Heights /\ db_height[h] \in db_blocks

current_height == IF top < 0 THEN 0 ELSE Number[tip_hash]

\* open_with_genesis on a database without a tip: nothing to load.
OpenEmpty ==
    /\ phase = "down" /\ db_tip.height = NoHeight
    /\ goal' = NoBlock
    /\ phase' = "opened"
    /\ UNCHANGED <<vars, diskVars, next, target, held, crashes>>

\* open_with_genesis, load_canon_chain: every height up to the stored tip must be
\* there.
Open ==
    LET loadable == \A h \in 0..db_tip.height : Stored(h) IN
    /\ phase = "down" /\ db_tip.height # NoHeight
    /\ goal' = db_tip.hash
    /\ phase' = IF loadable THEN "opened" ELSE "failed"
    /\ IF loadable THEN IndexesOf(db_height, db_tip.height)
       ELSE UNCHANGED <<blocks, top, canon_index, seen_blocks, cumulative_work>>
    /\ UNCHANGED <<side_blocks, orphan_pool, ledger, pending_reorg_recovery, dbVars,
                   work, result, now, faults, diskVars, next, target, held, crashes>>

\* Mutant: the tip pointer is written before the block and its height.
TipPointerFirst(n) ==
    [Image EXCEPT
        !.blocks = IF n >= 4 THEN @ \cup {Genesis} ELSE @,
        !.height = IF n >= 3 THEN [@ EXCEPT ![0] = Genesis] ELSE @,
        !.tip = [height |-> IF n >= 1 THEN 0 ELSE @.height,
                 hash |-> IF n >= 2 THEN Genesis ELSE @.hash],
        !.genesis = IF n >= 5 THEN Genesis ELSE @]

\* The database after the first n of bootstrap's five inserts: the block,
\* height:0, tip_height, tip_hash, genesis_hash.
BootstrapImage(n) ==
    [Image EXCEPT
        !.blocks = IF n >= 1 THEN @ \cup {Genesis} ELSE @,
        !.height = IF n >= 2 THEN [@ EXCEPT ![0] = Genesis] ELSE @,
        !.tip = [height |-> IF n >= 3 THEN 0 ELSE @.height,
                 hash |-> IF n >= 4 THEN Genesis ELSE @.hash],
        !.genesis = IF n >= 5 THEN Genesis ELSE @]

\* bootstrap_chain on a database without genesis_hash.  It pushes genesis on
\* whatever was loaded.
WriteGenesis ==
    /\ phase = "opened" /\ db_genesis = NoBlock
    /\ DiskBecomes(BootstrapImage(5))
    /\ durable' \in {durable} \cup {BootstrapImage(n) : n \in BootstrapCut}
    /\ blocks' = [i \in 0..(top + 1) |-> IF i <= top THEN blocks[i] ELSE Genesis]
    /\ top' = top + 1
    /\ canon_index' = [canon_index EXCEPT ![Genesis] = 0]
    /\ phase' = "booted"
    /\ UNCHANGED <<side_blocks, seen_blocks, cumulative_work, orphan_pool, ledger,
                   pending_reorg_recovery, work, result, now, faults,
                   next, target, goal, held, crashes>>

\* One of its inserts fails, and startup with it.
WriteGenesisFails ==
    /\ phase = "opened" /\ db_genesis = NoBlock
    /\ faults < MaxFaults
    /\ faults' = faults + 1
    /\ \E n \in BootstrapCut : DiskBecomes(BootstrapImage(n))
    /\ phase' = "failed"
    /\ UNCHANGED <<memVars, work, result, now, durable, next, target, goal, held, crashes>>

\* A database of another network is refused.
verify_stored_genesis(stored) == stored = Genesis

\* bootstrap_chain on any other database only compares the stored hash.
VerifyGenesis ==
    /\ phase = "opened" /\ db_genesis # NoBlock
    /\ phase' = IF verify_stored_genesis(db_genesis) THEN "booted" ELSE "failed"
    /\ UNCHANGED <<vars, diskVars, next, target, goal, held, crashes>>

\* Mutant: the snapshot's state is not compared with the block's state root.
RestorableAnyHash(h) ==
    LET s == db_snap[h] IN
    /\ h <= current_height
    /\ s.hash # NoBlock /\ s.balances # NoBlock /\ s.nonces # NoBlock

\* restore_snapshot_at accepts the snapshot at h.  Its state root is that of the
\* canonical block only if both maps are that block's.
Restorable(h) ==
    LET s == db_snap[h] IN
    /\ h <= current_height
    /\ s.hash # NoBlock /\ s.hash = db_height[h] /\ s.hash \in db_blocks
    /\ s.balances = s.hash /\ s.nonces = s.hash
    /\ s.root \in {NoBlock, s.hash}

\* restore_latest_snapshot: the newest acceptable one; the tail above it, if any,
\* is replayed.
RestoreSnapshot ==
    /\ phase = "booted"
    /\ \E h \in Heights :
        /\ Restorable(h) /\ \A k \in Heights : Restorable(k) => k <= h
        /\ IndexesOf(blocks, IF h < top THEN h ELSE top)
        /\ ledger' = db_snap[h].hash
        /\ next' = h + 1
        /\ target' = db_tip.height
        /\ phase' = IF db_tip.height <= h THEN "up" ELSE "replay"
    /\ UNCHANGED <<side_blocks, orphan_pool, pending_reorg_recovery, dbVars, work, result,
                   now, faults, diskVars, goal, held, crashes>>

\* No snapshot will do and there is more than genesis: every stored block is read,
\* memory is cleared, and the chain is applied again from genesis.
RebuildFromGenesis ==
    LET readable == \A h \in 0..db_tip.height : Stored(h) /\ Number[db_height[h]] = h IN
    /\ phase = "booted"
    /\ ~\E h \in Heights : Restorable(h)
    /\ current_height > 0
    /\ phase' = IF readable THEN "replay" ELSE "failed"
    /\ next' = 0
    /\ target' = db_tip.height
    /\ IF readable THEN ClearMemory ELSE UNCHANGED memVars
    /\ UNCHANGED <<dbVars, work, result, now, faults, diskVars, goal, held, crashes>>

StartAtGenesis ==
    /\ phase = "booted"
    /\ ~\E h \in Heights : Restorable(h)
    /\ current_height = 0
    /\ phase' = "up"
    /\ UNCHANGED <<vars, diskVars, next, target, goal, held, crashes>>

\* replay_stored_canonical_tail and the loop of the rebuild: the stored block at
\* the next height goes through apply_block, which persists it again.
ReplayBlock ==
    LET readable == Stored(next) /\ Number[db_height[next]] = next IN
    /\ phase = "replay" /\ result = "idle" /\ next <= target
    /\ phase' = IF readable THEN phase ELSE "failed"
    /\ work' = IF readable THEN <<db_height[next]>> ELSE work
    /\ result' = IF readable THEN "pending" ELSE result
    /\ UNCHANGED <<memVars, dbVars, now, faults, diskVars, next, target, goal, held, crashes>>

\* Mutant: the replay stops one block short of the stored tip.
ReplayShort ==
    /\ phase = "replay" /\ work = <<>> /\ result \in Outcome
    /\ result' = "idle"
    /\ next' = next + 1
    /\ phase' = IF result # "CanonExtension" THEN "failed"
                ELSE IF next + 1 >= target THEN "up" ELSE "replay"
    /\ UNCHANGED <<memVars, dbVars, work, now, faults, diskVars, target, goal, held, crashes>>

\* Startup goes on only if the block became the new tip.
ReplayResult ==
    /\ phase = "replay" /\ work = <<>> /\ result \in Outcome
    /\ result' = "idle"
    /\ next' = next + 1
    /\ phase' = IF result # "CanonExtension" THEN "failed"
                ELSE IF next = target THEN "up" ELSE "replay"
    /\ UNCHANGED <<memVars, dbVars, work, now, faults, diskVars, target, goal, held, crashes>>

-----------------------------------------------------------------------------
\* apply_block during startup and while the node is up.

\* The images between the inserts of a snapshot.  (The image between the two
\* writes of LANE-B, a block that no height names, is read like the one before.)
TornSnapshots ==
    LET b == db_tip'.hash IN
    IF db_snap' = db_snap THEN {}
    ELSE {[blocks |-> db_blocks', height |-> db_height', tip |-> db_tip',
           snap |-> [db_snap EXCEPT ![Number[b]] = SnapshotParts(@, b, n)],
           genesis |-> db_genesis] :
             n \in {m \in 0..3 : SnapshotParts(db_snap'[Number[b]], b, m) = db_snap'[Number[b]]}}

Apply ==
    /\ phase \in {"replay", "up"}
    /\ Step \/ \E b \in Block : ApplyGenesis(b)
    /\ durable' \in {durable} \cup TornSnapshots
    /\ UNCHANGED <<db_genesis, bootVars>>

Serve ==
    /\ phase = "up"
    /\ (\E b \in Block : Submit(b)) \/ Return
    /\ UNCHANGED <<diskVars, bootVars>>

Advance == Tick /\ UNCHANGED <<diskVars, bootVars>>

Flush ==
    /\ durable # Image
    /\ durable' = Image
    /\ UNCHANGED <<vars, db_genesis, bootVars>>

-----------------------------------------------------------------------------
\* The process ends: memory is gone, the disk is what was durable.

Lost ==
    /\ ClearMemory
    /\ DiskBecomes(durable)
    /\ work' = <<>> /\ result' = "idle"
    /\ phase' = "down" /\ next' = 0 /\ target' = 0 /\ goal' = NoBlock
    /\ UNCHANGED <<faults, durable>>

Crash ==
    /\ phase \notin {"down", "failed"}
    /\ crashes < MaxCrashes
    /\ crashes' = crashes + 1
    /\ held' = IF phase = "up" THEN durable.tip.hash ELSE held
    /\ now' \in IF ClockBack THEN 0..now ELSE {now}
    /\ Lost

\* A failed startup ends the process; it is started again.
Relaunch ==
    /\ phase = "failed"
    /\ Lost
    /\ UNCHANGED <<now, held, crashes>>

Startup == \/ OpenEmpty \/ Open \/ WriteGenesis \/ WriteGenesisFails \/ VerifyGenesis
           \/ RestoreSnapshot \/ RebuildFromGenesis \/ StartAtGenesis
           \/ ReplayBlock \/ ReplayResult

RestartNext == Startup \/ Apply \/ Serve \/ Advance \/ Flush \/ Crash \/ Relaunch

RestartSpec == RestartInit /\ [][RestartNext]_nodeVars

(***************************************************************************)
(* Startup is a straight-line program, a supervisor starts the process     *)
(* again when it exits, and the clock goes on.  Nothing obliges a crash.   *)
(***************************************************************************)
RestartFairSpec ==
    /\ RestartSpec
    /\ WF_nodeVars(Startup) /\ WF_nodeVars(Apply)
    /\ WF_nodeVars(Relaunch) /\ WF_nodeVars(Advance)

-----------------------------------------------------------------------------
\* Properties.

RestartTypeOK ==
    /\ phase \in Phase
    /\ top \in Nat \cup {-1} /\ DOMAIN blocks = 0..top
    /\ \A h \in Heights : db_height[h] \in Hash /\ db_snap[h] \in Snapshot
    /\ db_genesis \in {NoBlock, Genesis}
    /\ {ledger, goal, held} \subseteq Hash

(***************************************************************************)
(* Whenever services run, after any number of crashes and with any image   *)
(* left on disk, the chain in memory is sound: Vec, index, side blocks,    *)
(* duplicate filter and account state (initialize_chain_state).            *)
(***************************************************************************)
ChainWhenUp == phase = "up" => CanonicalPath /\ SideBranches /\ LedgerAtTip

(***************************************************************************)
(* A chain read back from disk carries the exact cumulative work, also     *)
(* after a partial restore and a replay on top of it.                      *)
(***************************************************************************)
RestoredWork == phase = "up" /\ Genesis \in seen_blocks => WorkIsExact

(***************************************************************************)
(* At every moment, in the middle of a reorganisation or of a replay, the  *)
(* image a crash would leave names a complete chain up to its tip height   *)
(* (the atomic batches of persist_canonical_extension and _reorg).         *)
(***************************************************************************)
DurableChain ==
    \A h \in 0..durable.tip.height :
        /\ durable.height[h] \in durable.blocks
        /\ h > 0 => Parent[durable.height[h]] = durable.height[h - 1]

(***************************************************************************)
(* While no database write fails and the clock is not set back, a node     *)
(* always starts: nothing it wrote itself makes startup refuse the         *)
(* database.                                                               *)
(***************************************************************************)
StartsAgain == faults = 0 /\ ~ClockBack => phase # "failed"

(***************************************************************************)
(* Startup ends at the tip the database named when it was opened, through  *)
(* a snapshot and a tail or a full rebuild (bootstrap.rs line 370).        *)
(***************************************************************************)
TipRestored ==
    [][phase # "up" /\ phase' = "up" /\ goal # NoBlock => tip_hash' = goal]_nodeVars

(***************************************************************************)
(* The node comes up again after every crash and every failed startup,     *)
(* also when the clock was set back and stored blocks seem to lie in the   *)
(* future for a while.                                                     *)
(***************************************************************************)
ComesUp == (phase # "up") ~> (phase = "up")

(***************************************************************************)
(* The durable tip of a running node is the tip it has when it runs again  *)
(* (bootstrap.rs line 370: existing databases replay "any locally stored   *)
(* canonical tail so ... the canonical tip are restored before sync").     *)
(***************************************************************************)
TipKept ==
    [][phase # "up" /\ phase' = "up" /\ held # NoBlock => tip_hash' = held]_nodeVars
=============================================================================
