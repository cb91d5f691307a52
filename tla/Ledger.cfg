CONSTANTS
    al = al  bo = bo  nobody = nobody
    Address = {al, bo}
    NoAddress = nobody
    Tx <- MCTx
    Selection <- MCSelection
    Own = al
    Other = bo
    Digest = {0, 9}
    MaxU64 = 1023
    MaxU128 = 15
    MinFeeLimit = 2
    BaseFee = 1
    MaxTxBytes = 2
    Emission = 8
    HalvingInterval = 2
    TargetTime = 8
    Window = 2
    Floor = 1
    StallMultiplier = 2
    MinInterval = 2
    MaxInterval = 48
    MaxFuture = 10
    WeightLimit = 3
    BlockTarget = 3
    Jump = 20
    Spacing = {0, 1, 11, 20}
    AirdropEnabled = TRUE
    Grant = {0, 3}
    MaxHeight = 3
    MaxClock = 21
    MaxGrants = 1
SPECIFICATION Spec
INVARIANTS  ExecutedOnce ReplayAgrees CandidateAccepted 
