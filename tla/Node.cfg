CONSTANTS
    g = g  a1 = a1  a2 = a2  b1 = b1  b2 = b2  none = none
    t1 = t1  t2 = t2  t3 = t3  watchdog = watchdog
    Block = {g, a1, a2, b1, b2}
    Genesis = g
    NoBlock = none
    Parent <- MCParent
    Number <- MCDepth
    Work <- MCWork
    Depth <- MCDepth
    Lineage <- MCLineage
    TotalWork <- MCTotal
    Tx = {t1, t2, t3}
    Txs <- MCTxs
    Malformed = {}
    Invalid = {}
    ReadyAt <- MCReadyAt
    OrphanPoolMax = 2
    SnapshotEvery = 100
    Fresh = FALSE
    MaxNow = 0
    MaxFaults = 0
    Sender <- MCSender
    TxNonce <- MCNonce
    Tip <- MCTip
    BadTx = {}
    Coinbase = {}
    Unpayable = {}
    MempoolMax = 2
    BlockTarget = 3
    Sync = {watchdog}
    Mineable = {a2}
SPECIFICATION NodeSpec
INVARIANTS PoolSound PendingConfirmedKnown
PROPERTIES PendingKept DisplacedReturns
