CONSTANTS
  MaxAddr = 4
SPECIFICATION Spec
INVARIANT
  ReallocMatchesReference
