SPECIFICATION Spec
CONSTANTS
  c1 = c1
  c2 = c2
  f1 = f1
  f2 = f2
  f3 = f3
  f4 = f4
  Contexts = {c1, c2}
  NoContext = NoContext
  Fences = {f1, f2, f3, f4}
  NoFence = NoFence
  ScreenThreads = 2
  FbTiles <- MCFbTilesSmall
  CreateMayFail = TRUE
  SeqWrap = 2
SYMMETRY Symmetry
INVARIANTS
  SceneStable
  BinDrawnOnce
  FencesExact
  QuietWhenUnlocked
  VisibleFencesSignalled
CHECK_DEADLOCK FALSE
