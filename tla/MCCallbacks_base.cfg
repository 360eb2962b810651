CONSTANTS
  MemTop = 8
  TypicalStackMin = 4
  StackSwapThreshold = 16
  KData = {2, 3}
  MaxDepth = 1
  Regs = {0, 1}
SPECIFICATION Spec
PROPERTY KiKeepsAppStack
