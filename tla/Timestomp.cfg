SPECIFICATION Spec
CONSTANTS
    Batches <- MCBatches
    TICKS = 2
    NANO = 3
    MILLI = 2
    SECOND = 4
    FILETIME_EPOCH_UNIX_SECS <- MC_EPOCH
INVARIANTS SuspectForOwnReasons VerdictMatchesTimeline OrderReasonsAreTrue
