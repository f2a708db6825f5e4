SPECIFICATION Spec
CONSTANTS
    Blobs <- LookAlikeBlobs
    EntryArgs <- MCEntryArgs
    MAX_DEPTH = 3
    MaxRows = 3
INVARIANT PathIsOfOwnBlob
