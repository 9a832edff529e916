SPECIFICATION FairSpec
CONSTANTS
  c1 = c1
  c2 = c2
  Contexts = {c1, c2}
  NoContext = NoContext
  MaxThreads = 2
  MaxIters = 3
  CreateMayFail = TRUE
  AllocMayFail = TRUE
INVARIANTS
  IterationOnce
  TasksAlive
  GridComplete
PROPERTIES
  CallsReturn
CHECK_DEADLOCK FALSE
