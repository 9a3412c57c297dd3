SPECIFICATION BytesSpec
CONSTANTS
    Rank = {a, b, c}
    Base = 2
    WORD = 2
    PAYLOAD_LEN = 2
    Spare = 0
SYMMETRY Symmetry
INVARIANTS SumExact BroadcastExact OnlyOwnBytes
