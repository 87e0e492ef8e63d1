SPECIFICATION Spec
CONSTANTS
  EpochChoices <- JustThree
  Batches = 1
  TestInterval = 2
  EvalAfter <- Never
  SaveInterval = 2
  DeployAfter = 1
  Metrics <- TwoMetrics
  OddLosses = FALSE
  MaxStarts = 2
PROPERTIES
  OnlyNewBestOverwrites
CHECK_DEADLOCK FALSE
