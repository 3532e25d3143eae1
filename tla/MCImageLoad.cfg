SPECIFICATION Spec
CONSTANTS
    NextSegmentMask = 4
    ANY = ANY
    NoInfo = NoInfo
    Failed = Failed
    Untouched = Untouched
    Images <- SomeImages
    OpenLen <- SomeLengths
    MaxFaults = 2
    Short = FALSE
    Bank = 2
    TcmBase = 20
    Top = 12
INVARIANTS StartedComplete WrittenPowered LoadReleases
PROPERTY LoadEnds
