SPECIFICATION DriftSpec
CONSTANTS
    Files <- DriftFiles
    BlobLabel = "<blob>"
    Images <- DriftImages
    Contents <- DriftContents
    Listings <- OneListing
    Modes <- JustStreams
    HostArg <- NoHostArg
    BATCH_ROWS = 2
    MAX_DEPTH = 3
    MaxFaults = 1
    Relistings <- FileAppended
    Rewritings <- DriftImages
    MaxRelisted = 1
    MaxRewritten = 1
    MaxUnreadable = 1
INVARIANTS
    ResumesRightFile
    OneIndexPerSource
    NeverGoesBack
    NothingLost
PROPERTY DriftScanEnds
