SPECIFICATION Spec
CONSTANTS
  c1 = c1
  c2 = c2
  j1 = j1
  j2 = j2
  Clients = {c1, c2}
  NoClient = NoClient
  Jobs = {j1, j2}
  NoJob = NoJob
  MaxThreads = 2
  InitMaxJobs = 2
  ResizeIfFull = FALSE
  ResizeStep = 1
  JobSize <- MCJobSize
  SizeLimit = 2
  TotalCap = 2
  CreateMayFail = FALSE
  Shutdown = TRUE
INVARIANT
  RemainingJobsSignalled
CHECK_DEADLOCK FALSE
