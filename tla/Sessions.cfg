CONSTANTS
    dialled = dialled
    accepted1 = accepted1
    accepted2 = accepted2
    Transport = {dialled, accepted1, accepted2}
    Outbound = {dialled}
    ChainSummary <- MCSummary
    MaxGeneration = 3
SPECIFICATION Spec
INVARIANTS ServedIsConnected GoneIsCleared
