SPECIFICATION PortSetSpec
CONSTANTS
    Fets = {f1, f2, f3}
    None = None
    MaxPorts = 2
    Servers <- MCServers
    MaxDrift = 1
SYMMETRY Alike
INVARIANTS
    SlotsSafe
CHECK_DEADLOCK FALSE
