CONSTANTS
  MemSize = 4
  MapFixed = FALSE
  MremapMayMove = TRUE
SPECIFICATION Spec
INVARIANT UnmappedUnaddressable
