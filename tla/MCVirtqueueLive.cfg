SPECIFICATION LiveSpec
CONSTANTS
    N = 1
    M = 3
    Bufs = {b1, b2}
    NoBuf = NoBuf
    MaxChain = 1
    MaxBatch = 1
    EventIdx = FALSE
    CallerCounts = TRUE
    Rearm = FALSE
PROPERTY EveryBufferMoves
