CONSTANTS
  PtrSize = 4
  TlsSlotCount = 2
  ExpansionSlots = 4
  TlsBase = 0
  ExpBase = 8
  ToolLib = {24, 25}
  HeapRegion = {26, 27}
  Unreadable = {31}
  MaxInstrSize = 17
  Pres <- MCPres
  Faults <- MCFaults
  Nexts <- MCNexts
  Afters <- MCAfters
  PatternAddrs = {28, 29}
  EnvAddrs = {0, 1, 2, 3, 4, 5, 6, 7, 8, 9, 10, 11, 12, 13, 14, 15, 16, 17, 18, 19, 20, 21, 22, 23, 24, 25, 26, 27, 28, 29, 30, 31}
  EnvCodes <- MCEnvCodes
  Documented <- MCDocumented
SPECIFICATION Spec
INVARIANT
  TlsSuppressedIffAllocated
