SPECIFICATION Spec
CONSTANTS
    Blobs <- DistinctBlobs
    EntryArgs <- MCEntryArgs
    MAX_DEPTH = 3
    MaxRows = 3
INVARIANTS
    TypeOK
    PathIsOfOwnBlob
    OneBlobBuildsOnce
