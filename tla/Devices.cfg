CONSTANTS
    Used <- MCUsed
    Units = {0, 1}
    Mounted <- OneMounted
    Images <- SomeImages
    MaxRecord = 2
    TapePlans <- MCTapePlans
    Type885 = {1}
    Cylinders = 2
    Tracks = 2
    Sectors = 4
    SectorSize = 4
    FirstWords = {0, 2, 5}
    DiskPlans <- MCDiskPlans
    Columns = 4
    CardPlans <- MCCardPlans
    Reels <- MCReels
    Heads = 2
    OldSectors = 2
    OldSectorSize = 2
    Decks <- MCDecks
    NoFile = NoFile
    MaxRetry = 1
    MaxWords = 2
    PerMicrosecond = 2
    MaxMicroseconds = 3
    Turn = 5
    MaxNow = 14
    Kinds <- MCKinds
    Ports = {0, 1}
    Users = {u1, u2}
    BufSize = 2
    MaxTyped = 1
    MaxWritten = 2
SPECIFICATION Spec
INVARIANTS
    TapeSafe
    DiskSafe
    PaperSafe
    OldSafe
    MuxSafe
PROPERTIES
    IsDrive
    DiskSteps
CHECK_DEADLOCK FALSE
