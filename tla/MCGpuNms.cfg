SPECIFICATION FairSpec
CONSTANTS
  N = 3
  T = 2
  Relations <- Ordered
INVARIANTS
  TypeOK
  SharedReady
  MaskComplete
PROPERTIES
  ImplementsGreedy
  Terminates
CHECK_DEADLOCK FALSE
