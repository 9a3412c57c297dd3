\* Two ranks, two losses anywhere, strong fairness of retransmission.
SPECIFICATION FairSpec
CONSTANTS
    Ranks = {0, 1}
    NChunks = 3
    OpOf <- MixedOps
    AggLen = 2
    StartPsn = 3
    PsnMod = 4
    VerMod = 4
    UpCap = 1
    RecircCap = 2
    DownCap = 1
    MaxLoss = 2
INVARIANT
    IndInv
PROPERTY
    AllComplete
