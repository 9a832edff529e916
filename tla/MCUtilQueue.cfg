SPECIFICATION Spec
CONSTANTS
  c1 = c1
  c2 = c2
  j1 = j1
  j2 = j2
  Clients = {c1, c2}
  NoClient = NoClient
  Jobs = {j1, j2}
  NoJob = NoJob
  MaxThreads = 2
  InitMaxJobs = 1
  ResizeIfFull = TRUE
  ResizeStep = 1
  JobSize <- MCJobSize
  SizeLimit = 2
  TotalCap = 3
  CreateMayFail = TRUE
  Shutdown = TRUE
SYMMETRY Symmetry
INVARIANTS
  RingConsistent
  FenceSignalledOnce
  NoOrphanFence
  FinishWaitsForAll
  DoomedAreJoined
  FinishPinsThreads
  SomeoneAwake
  NoUseAfterDestroy
CHECK_DEADLOCK FALSE
