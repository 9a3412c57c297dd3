\* Seven slots do not divide the PSN space: the two chunks at the wrap share a slot.
SPECIFICATION Spec
CONSTANTS
    Ranks = {0, 1}
    NChunks = 2
    OpOf <- MixedOps
    AggLen = 7
    StartPsn = 7
    PsnMod = 8
    VerMod = 8
    UpCap = 2
    RecircCap = 1
    DownCap = 1
    MaxLoss = 0
INVARIANT
    ResultCorrect
