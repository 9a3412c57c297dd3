\* Three workers, four operations, three of them outstanding.
SPECIFICATION FairSpec
CONSTANTS
    NWorker = 3
    NOps = 4
    OpSize <- OddSizes
    GroupAggAddr = 16
    GroupAggLen = 10
    QUEUE_SIZE = 3
INVARIANTS
    QueuesFit
    AnsweredWhole
    SplitExact
PROPERTY
    AllOpsAnswered
