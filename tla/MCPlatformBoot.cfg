SPECIFICATION BootSpec
CONSTANTS
    VdevId = 0
    RingId <- AppRingIds
    IdBits = 3
    OfferNs = TRUE
    DriverOkLeft = FALSE
    Deferred = TRUE
    ByAny = TRUE
    MaxFail = 1
    MaxSend = 2
    Boards = {"zynqmp", "zynq7", "rv64"}
INVARIANT DeviceUse
PROPERTIES ComesUp MessagesSeen
CHECK_DEADLOCK FALSE
