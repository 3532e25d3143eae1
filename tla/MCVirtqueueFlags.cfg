SPECIFICATION Spec
CONSTANTS
    N = 2
    M = 4
    Bufs = {b1, b2}
    NoBuf = NoBuf
    MaxChain = 2
    MaxBatch = 2
    EventIdx = FALSE
    CallerCounts = TRUE
    Rearm = FALSE
SYMMETRY BufSymmetry
INVARIANTS TypeOK AssertionsHold OneOwner DescPartition HeldIntact NoLostWakeup
PROPERTY ImplementsQueue
