SPECIFICATION Spec
CONSTANTS
    ThreadArgs = {0, 1, 2, 3, 4}
    bind_addr = "10.0.0.1"
    DevOf <- MCDevOf
    PciOf <- MCPciOf
    NodeOf <- MCNodeOf
    SocketList <- MCSocketList
    Tags = 3
    MaxStray = 2
    MaxSend = 1
INVARIANTS CpusOnSocket SteeredHome
PROPERTIES OnlyOwnArrive AnswersProcessed
CHECK_DEADLOCK FALSE
