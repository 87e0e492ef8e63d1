SPECIFICATION Spec
CONSTANTS
  EpochChoices <- JustFour
  Batches = 2
  TestInterval = 2
  EvalAfter <- Never
  SaveInterval = 2
  DeployAfter = 1
  Metrics <- ThreeMetrics
  OddLosses = FALSE
  MaxStarts = 3
INVARIANTS
  TypeOK
  CheckpointLogComplete
  WeightsMatchEpoch
  BestOfSession
  DeployFiles
PROPERTIES
  LastIsJournal
CHECK_DEADLOCK FALSE
