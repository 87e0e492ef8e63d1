SPECIFICATION Spec
CONSTANTS
  BatchSize = 2
  Anchors <- TwoAnchors
  Annotations <- UpToTwo
  Unreadable = Unreadable
  Augment = FALSE
  Positive = 2
  Negligible = 1
INVARIANTS
  NegativeSample
CHECK_DEADLOCK FALSE
