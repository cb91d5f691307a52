CONSTANTS
    g = g  a1 = a1  a2 = a2  a3 = a3  b1 = b1  b2 = b2  b3 = b3  c2 = c2
    x1 = x1  none = none  t1 = t1  t2 = t2
    Block = {g, a1, a2, b1}
    Genesis = g
    NoBlock = none
    Parent <- MCParent
    Number <- MCDepth
    Work <- HeavyWork
    Depth <- MCDepth
    Lineage <- MCLineage
    TotalWork <- HeavyTotal
    Tx = {t1, t2}
    Txs <- MCTxs
    Malformed = {}
    Invalid = {}
    ReadyAt <- MCReadyAt
    OrphanPoolMax = 1
    SnapshotEvery = 1
    Fresh = TRUE
    MaxNow = 1
    MaxFaults = 1
    BootstrapCut = {0, 1, 2}
    ClockBack = FALSE
    MaxCrashes = 2
SPECIFICATION RestartFairSpec
INVARIANTS  RestoredWork DurableChain StartsAgain
PROPERTIES TipRestored 
