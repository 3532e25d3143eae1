SPECIFICATION Spec
CONSTANTS
    N = 2
    M = 4
    Bufs = {b1, b2}
    NoBuf = NoBuf
    MaxChain = 1
    MaxBatch = 2
    EventIdx = TRUE
    CallerCounts = TRUE
    Rearm = TRUE
SYMMETRY BufSymmetry
INVARIANT NoLostWakeup
