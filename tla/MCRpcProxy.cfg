SPECIFICATION Spec
CONSTANTS
    MaxCalls = 2
    MaxFaults = 2
    MaxSignals = 1
    FarewellLost = FALSE
    Syscalls <- SomeSyscalls
INVARIANT TypeOK
PROPERTIES ImplementsService AnswerOrFarewell ServerEnds
CHECK_DEADLOCK FALSE
