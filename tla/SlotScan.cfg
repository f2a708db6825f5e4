SPECIFICATION ScanSpec
CONSTANTS
    Slots <- MCSlots
    MAX_ATTRS <- MC_MAX_ATTRS
    WORD = 1024
    Reads <- MCReads
    MAX_DEPTH <- MC_MAX_DEPTH
INVARIANTS
    ScanTypeOK
    GateIsExact
    ContentInBounds
    CleanRecordIsWhole
    VerdictMatchesRecord
    ScansLikeImage
    DamageIsContained
    CleanRowIsWhole
    EveryStreamOnce
PROPERTY ImageIsRead
