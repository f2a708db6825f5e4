SPECIFICATION Spec
CONSTANTS
    Slots <- MCSlots
    MAX_ATTRS <- MC_MAX_ATTRS
    WORD = 1024
INVARIANT AllocatedIsHeaderFlag
