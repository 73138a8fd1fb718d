SPECIFICATION FairSpec
CONSTANTS
    niuStations = 2
    niuOpstat = 1
    MaxUsers = 2
    MaxKeys = 1
    MaxWords = 2
    Settings <- SomeSettings
INVARIANTS
    NiuSafe
PROPERTIES
    SessionNotInherited StationsServed CrashReported
CHECK_DEADLOCK FALSE
