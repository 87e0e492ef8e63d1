SPECIFICATION FairSpec
CONSTANTS
  BatchSize = 2
  Anchors <- TwoAnchors
  Annotations <- UpToTwo
  Unreadable = Unreadable
  Augment = FALSE
  Positive = 2
  Negligible = 1
INVARIANTS
  TypeOK
  EveryBoxClaimsAnchor
  TargetsFromOwnBoxes
PROPERTIES
  GoodBatchLearned
CHECK_DEADLOCK FALSE
