CONSTANTS
  d1 = d1
  d2 = d2
  Datasets <- Both
  Positions = {1, 2}
  MaxBlocks = 4
  nCacheMax = 1
  Script <- Requests
  FaultSets <- None
SPECIFICATION Spec
INVARIANT FlushedIsOnDisk
