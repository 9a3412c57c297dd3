\* Two groups with a barrier between them; six packets through a ring of four,
\* across the PSN wrap.
SPECIFICATION FairSpec
CONSTANTS
    NSubOps = 3
    GroupOf <- TwoGroups
    SizeOf <- MixedSizes
    PAYLOAD_SIZE = 2
    AggLen = 4
    MAX_WIN_LEN = 4
    CC_CWND_MIN = 1
    CwndMax = 3
    Groups = {1, 2}
    StartPsn <- NearWrap
    PsnMod = 8
    Barrier = TRUE
    TxCap = 3
    MaxLoss = 1
INVARIANTS
    TxContentStable
    AnswersMatch
    CompleteInOrder
    WindowOneGroup
PROPERTIES
    AllSubOpsComplete
    ImplementsWindow
