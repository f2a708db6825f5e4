SPECIFICATION DriftSpec
CONSTANTS
    Files <- DriftFiles
    BlobLabel = "<blob>"
    Images <- DriftImages
    Contents <- DriftContents
    Listings <- OneListing
    Modes <- JustStreams
    HostArg <- NoHostArg
    BATCH_ROWS = 2
    MAX_DEPTH = 3
    MaxFaults = 1
    Relistings <- FileInserted
    Rewritings <- NoRewriting
    MaxRelisted = 1
    MaxRewritten = 0
    MaxUnreadable = 0
INVARIANT
    ResumesRightFile
