SPECIFICATION FairSpec
CONSTANTS
    Size = 4
    Lens <- MCLens
    Ops = {"dtReado", "dtReadw", "dtPeekw", "dtReadoi", "dtReadmax", "dtReadtlv", "dtFetData"}
    LenByte <- MCLenByte
    TlvMax = 3
    MaxBytes = 5
INVARIANTS
    ReceiveSafe
PROPERTIES
    IsQueue ReceivedIsRead
CHECK_DEADLOCK FALSE
