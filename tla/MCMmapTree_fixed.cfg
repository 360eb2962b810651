CONSTANTS
  MemSize = 4
  MapFixed = TRUE
  MremapMayMove = FALSE
SPECIFICATION Spec
INVARIANT TreeTracksAnon
