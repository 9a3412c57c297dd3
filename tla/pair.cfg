\* Two ranks with windows of two chunks; five chunks over four slots, across the PSN wrap.
SPECIFICATION Spec
CONSTANTS
    Ranks = {0, 1}
    NChunks = 5
    OpOf <- MixedOps
    AggLen = 4
    StartPsn = 6
    PsnMod = 8
    VerMod = 8
    UpCap = 2
    RecircCap = 1
    DownCap = 1
    MaxLoss = 1
INVARIANTS
    TypeOK
    ResultCorrect
    RecircStable
    Lockstep
PROPERTIES
    SlotMonotone
    ImplementsCollective
    HostsImplementWindow
