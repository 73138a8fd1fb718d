SPECIFICATION FairSpec
CONSTANTS
    Size = 4
    Lens <- MCLens
    Ops = {"dtSend", "dtSendTlv"}
    MaxBytes = 5
INVARIANTS
    NoDataRace WireInOrder SocketClosedOnce RefusedSendsNothing IInv
PROPERTIES
    IsQueue SendThreadServes
CHECK_DEADLOCK FALSE
