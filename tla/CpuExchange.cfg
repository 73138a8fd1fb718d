SPECIFICATION FairExchangeSpec
CONSTANTS
    CPUs = 2
    Machines <- MCMachines
    cpuRatio = 2
    Monitors <- MCMonitors
    Users <- MCUsers
    Packages <- MCPackages
    PpPackages <- MCPpPackages
    regMa <- MCRegMa
    FirstContext <- MCFirstContext
    FirstPackage <- MCFirstPackage
    mon0 = mon0
    mon1 = mon1
    monPp = monPp
    user0 = user0
    user1 = user1
    home0 = home0
    home1 = home1
    ppXp = ppXp
INVARIANTS
    ExchangeSafe MonitorAlone
PROPERTIES
    IssuedIsDone
