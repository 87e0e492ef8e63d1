SPECIFICATION FairSpec
CONSTANTS
  c1 = c1
  c2 = c2
  a1 = a1
  a2 = a2
  a3 = a3
  b1 = b1
  b2 = b2
  Main = Main
  Clients = {c1, c2}
  Jobs = {a1, a2, a3, b1, b2}
  Parent <- Tree
  Batch = {c2, b1}
  MaxThreads = 2
  FaultSets <- NoneOrOne
INVARIANTS
  TypeOK
  JobsAccounted
  WaitingAccounted
  NoLostWakeup
  JobsCanProceed
PROPERTIES
  ImplementsForkJoin
  EverybodyReturns
\* a job dropped by a failed submission leaves its submitter waiting for ever
CHECK_DEADLOCK FALSE
