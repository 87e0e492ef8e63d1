SPECIFICATION Spec
CONSTANTS
  N = 3
  Scores <- TwoScores
  Relations <- AnyRelation
INVARIANTS
  TypeOK
  KeptIndependent
  BestSurvives
PROPERTIES
  ImplementsGreedy
CHECK_DEADLOCK FALSE
