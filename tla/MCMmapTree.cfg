CONSTANTS
  MemSize = 4
  MapFixed = FALSE
  MremapMayMove = FALSE
SPECIFICATION Spec
INVARIANTS
  TypeOK
  TreeTracksAnon
  UnmappedUnaddressable
