CONSTANTS
    w1 = w1  w2 = w2  v1 = v1
    Parent = {1, 2}
    Height = {0, 2}
    Difficulty = {2}
    Worker = {w1}
    Validator = {v1, w2}
    EpochBlocks = 2
    CacheCapacity = 1
    MaxU64 = 7
    MaxNonce = 2
    Mix <- MCMix
SPECIFICATION Spec
INVARIANTS CacheSound FoundVerifies
