SPECIFICATION FairSpec
CONSTANTS
  c1 = c1
  c2 = c2
  f1 = f1
  f2 = f2
  Contexts = {c1, c2}
  NoContext = NoContext
  Fences = {f1, f2}
  NoFence = NoFence
  ScreenThreads = 2
  FbTiles <- MCFbTilesRow
  CreateMayFail = TRUE
  SeqWrap = 2
PROPERTIES
  ImplementsServiceFairly
  DestroyReturns
CHECK_DEADLOCK FALSE
