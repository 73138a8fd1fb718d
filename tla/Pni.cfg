CONSTANTS
    pniStations = 1
    IDXLIM = 3
    pniflen = 2
    SendRingSize = 3
    Sizes = {1, 2}
    Strokes <- SomeStrokes
    Requests = {"abort", "logout", "type", "newkbd"}
    Settings <- SomeSettings
SPECIFICATION FairPniSpec
INVARIANTS
    PniSafe
PROPERTIES
    SessionNotInherited PermitComes
CHECK_DEADLOCK FALSE
