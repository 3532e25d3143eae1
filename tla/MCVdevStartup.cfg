SPECIFICATION LiveSpec
CONSTANTS
    VdevId = 0
    RingId <- AppRingIds
    IdBits = 3
    OfferNs = TRUE
    DriverOkLeft = FALSE
    Deferred = TRUE
    ByAny = TRUE
    MaxFail = 2
    MaxSend = 2
INVARIANTS TypeOK SlaveAfterMaster NsAgreed NoKickLost
PROPERTY StartupCompletes
