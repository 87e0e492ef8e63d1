SPECIFICATION FairSpec
CONSTANTS
  NoFile = NoFile
  Images <- TwoImages
  Classes <- TwoClasses
  Lists <- AnyList
  GroundTruths <- SomeGroundTruths
  Detections <- SomeDetections
  MinOverlap = 2
  Unit = 12
  MaxStarts = 2
INVARIANTS
  TypeOK
  FirstClaim
  ApIsArea
  SameImages
PROPERTIES
  EvaluationReturns
CHECK_DEADLOCK FALSE
