CONSTANTS
    g = g  a1 = a1  a2 = a2  a3 = a3  b1 = b1  b2 = b2  b3 = b3  c2 = c2
    x1 = x1  none = none  t1 = t1  t2 = t2
    Block = {g, a1, a2, a3, b1, b2}
    Genesis = g
    NoBlock = none
    Parent <- MCParent
    Number <- MCDepth
    Work <- FlatWork
    Depth <- MCDepth
    Lineage <- MCLineage
    TotalWork <- FlatTotal
    Tx = {t1, t2}
    Txs <- MCTxs
    Malformed = {}
    Invalid = {}
    ReadyAt <- MCReadyAt
    OrphanPoolMax = 2
    SnapshotEvery = 2
    Fresh = TRUE
    MaxNow = 1
    MaxFaults = 0
SPECIFICATION FairSpec
INVARIANT TipHasMostWork
