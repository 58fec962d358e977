SPECIFICATION SpecCodecs
CONSTANTS
    Header = 2
    MaxLength = 4
    RespMax = 2
    MaxFrames = 5
    Streams <- McStreams
    MultiMax = 6
    UdhSize = 2
    MaxSegments = 3
    MaxDests = 1
    MaxChars = 7
    MaxAscii = 20
    Samples <- McSamples
    Cuts <- McCuts
CHECK_DEADLOCK FALSE
INVARIANTS
    PlanExact
    PduExact
    StreamKept
PROPERTIES
    ReaderEnds
