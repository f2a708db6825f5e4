SPECIFICATION Spec
CONSTANTS
    Files <- MCFiles
    BlobLabel = "<blob>"
    Images <- MCImages
    Contents <- MCContents
    Listings <- MCListings
    Modes <- MCModes
    HostArg <- NoHostArg
    BATCH_ROWS = 2
    MAX_DEPTH = 3
    MaxFaults = 2
INVARIANTS
    TypeOK
    ReceivedUpToToken
    BatchFromTokenToCursor
    ReadsWithOwnResolver
    BatchesAreFull
    EmittedCountsReceived
    RehydrationIsLossless
PROPERTIES
    ImplementsTimeline
    ScanEnds
