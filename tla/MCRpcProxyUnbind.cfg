SPECIFICATION Spec
CONSTANTS
    MaxCalls = 1
    MaxFaults = 0
    MaxSignals = 1
    FarewellLost = FALSE
    Syscalls <- SomeSyscalls
PROPERTY CallsReturn
CHECK_DEADLOCK FALSE
