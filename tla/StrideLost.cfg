SPECIFICATION ScanSpec
CONSTANTS
    Slots <- OtherSlots
    MAX_ATTRS <- MC_MAX_ATTRS
    WORD = 1024
    Reads <- TornFirst
    MAX_DEPTH <- MC_MAX_DEPTH
INVARIANT DamageIsContained
