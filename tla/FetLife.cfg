SPECIFICATION FairSpec
CONSTANTS
    Uses <- MCUses
    EarlyEnd = FALSE
    CreateFails = TRUE
    MaxSends = 2
INVARIANTS
    FetSafe
PROPERTIES
    GoneIsFreed
CHECK_DEADLOCK FALSE
