SPECIFICATION FairSpec
CONSTANTS
  EpochChoices <- TwoOrThree
  Batches = 1
  TestInterval = 1
  EvalAfter = 0
  SaveInterval = 2
  DeployAfter = 1
  Metrics <- TieMetrics
  OddLosses = TRUE
  MaxStarts = 2
INVARIANTS
  BestOfSession
PROPERTIES
  ResumeCompletes
CHECK_DEADLOCK FALSE
