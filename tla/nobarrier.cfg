\* Two groups without a barrier between them.
SPECIFICATION Spec
CONSTANTS
    NSubOps = 3
    GroupOf <- TwoGroups
    SizeOf <- MixedSizes
    PAYLOAD_SIZE = 2
    AggLen = 4
    MAX_WIN_LEN = 4
    CC_CWND_MIN = 1
    CwndMax = 2
    Groups = {1, 2}
    StartPsn <- NearWrap
    PsnMod = 8
    Barrier = FALSE
    TxCap = 2
    MaxLoss = 0
INVARIANT
    WindowOneGroup
