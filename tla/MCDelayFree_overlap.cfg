CONSTANTS
  DelayFrees = 3
  RedzoneSize = 1
  h1 = h1
  h2 = h2
  Heaps = {h1, h2}
  NullHeap = NullHeap
  Blocks <- MCBlocks
SPECIFICATION Spec
INVARIANTS


  OverlapReportsAppBody
