CONSTANT d1 = d1
CONSTANTS
    Displays = {d1}
    Typists = {d1}
    Keys = {1, 2}
    Coordinates = {1}
    DispBufSize = 5
    KeyBufSize = 3
    MaxPolls = 3
    SendBufSize = 3
    Settings <- SomeSettings
SPECIFICATION ConsoleFairSpec
INVARIANTS
    ConsoleSafe TrafficWhole
PROPERTIES
    OutputGoesOut
CHECK_DEADLOCK FALSE
