CONSTANTS
  a1 = a1
  a2 = a2
  a3 = a3
  c1 = c1
  c2 = c2
  noData = noData
  Allocs <- MCAllocs
  Contents <- MCContents
  Ids <- MCIds
  NoData <- noData
SPECIFICATION Spec
INVARIANTS TypeOK RefcountsExact CallstacksLive
