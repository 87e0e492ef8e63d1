SPECIFICATION Spec
CONSTANTS
  c1 = c1
  c2 = c2
  a1 = a1
  a2 = a2
  a3 = a3
  b1 = b1
  b2 = b2
  Main = Main
  Clients = {c1}
  Jobs = {a1, a2, a3}
  Parent <- Chain
  Batch = {}
  MaxThreads = 2
  FaultSets <- Wakeup
INVARIANT NestedJobsProceed
CHECK_DEADLOCK FALSE
