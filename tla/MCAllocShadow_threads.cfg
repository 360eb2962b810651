CONSTANTS
  DelayFrees = 1
  RedzoneSize = 1
  heap = heap
  Heaps = {heap}
  NullHeap = NullHeap
  Blocks <- MCBlocks
  t1 = t1
  t2 = t2
  Threads = {t1, t2}
SPECIFICATION Spec
INVARIANTS
  SettledDelayedUnaddressable
  UnheldUnaddressable
