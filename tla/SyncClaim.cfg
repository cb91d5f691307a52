CONSTANTS
    g = g  a1 = a1  a2 = a2  b1 = b1  b2 = b2  m1 = m1  watchdog = watchdog
    Block = {g, a1, a2, b1, b2, m1}
    Genesis = g
    NoTip = NoTip
    Parent <- MCParent
    Height <- MCHeight
    Work <- MCWork
    Tips <- MCTipsGrow
    Invalid = {}
    Seeds = {1}
    Inbound = {}
    Watchdog = watchdog
    LagThreshold = 2
    Mineable = {}
    MaxFaults = 0
SPECIFICATION FairSpec
PROPERTY ClaimEnds
