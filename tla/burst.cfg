\* Bursts of three packets.
SPECIFICATION Spec
CONSTANTS
    tx_size = 3
    rx_size = 3
    Ports <- MCPorts
    RxRing = 3
    MaxTx = 7
    MaxRx = 4
INVARIANTS
    SentWhole
    InFlightLimited
PROPERTIES
    TxImplementsQueue
    RxImplementsQueue
