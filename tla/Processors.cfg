SPECIFICATION Spec
CONSTANTS
  CoeffBits = 4
  ExpoBits = 4
  AddressBits = 5
  CountBits = 4
  LongCountBits = 5
  Regs = {0, 1, 2}
  LoadRegs = {1}
  StoreRegs = {2}
  CharsPerWord = 3
  TableBits = 1
  EcsBits = 6
  FlagBits = 3
  DBits = 2
  CellBits = 3
  CellsPerWord = 3
  Setups <- MCSetups
  Starts <- MCStarts
  CpuPrograms <- MCCpuPrograms
  PpPrograms <- MCPpPrograms
  DdpFunctions <- MCDdpFunctions
INVARIANTS ProcessorsSafe
PROPERTIES ResultsExact Confined BlocksMoved
CHECK_DEADLOCK FALSE
