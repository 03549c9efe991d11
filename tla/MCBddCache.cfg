SPECIFICATION FairSpec
CONSTANTS
  Ids <- ThreeIds
  Covers <- FourCovers
  CacheMax = 5
  CacheKeep = 4
  MaxTime = 6
INVARIANTS
  NoAbort
  ReturnsNumbers
PROPERTIES
  EvictsOldest
  Returns
