CONSTANTS
  d1 = d1
  d2 = d2
  Datasets <- Both
  Positions = {1, 2}
  MaxBlocks = 4
  nCacheMax = 1
  Script <- Requests
  FaultSets <- NoneOrBoth
SPECIFICATION FairSpec
INVARIANTS TypeOK OneHolder Counted CacheBounded NothingLost ErrorsTold
PROPERTY EveryDatasetCloses
CHECK_DEADLOCK FALSE
