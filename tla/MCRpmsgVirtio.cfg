SPECIFICATION Spec
CONSTANTS
    ma = ma
    sa = sa
    NEntries = 2
    Pool = 3
    Apps = {sa}
    AppCore <- OneOnSlave
    Payloads = {p, q}
    NoMsg = NoMsg
    BigFrom <- BigOnMaster
    TickCount = 1
SYMMETRY PayloadSymmetry
INVARIANTS TypeOK BufferConserved EnqueueNeverFails
PROPERTIES CallbackDataStable ImplementsChannel
