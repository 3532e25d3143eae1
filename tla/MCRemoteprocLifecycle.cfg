SPECIFICATION Spec
CONSTANTS
    Bank = 2
    Tcm0 = 12
    Tcm1 = 24
    DdrEnd = 10
    OcmBase = 40
    Images <- SomeImages
    Exclusive = TRUE
    None = None
INVARIANTS RunsFullImage OfflineClean BanksPowered WritesLand
