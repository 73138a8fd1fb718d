SPECIFICATION Spec
CONSTANTS
    Uses <- MCCallback
    EarlyEnd = FALSE
    CreateFails = FALSE
    MaxSends = 2
INVARIANTS
    PointerSafe
CHECK_DEADLOCK FALSE
