SPECIFICATION Spec
CONSTANTS
  p1 = p1
  p2 = p2
  a1 = a1
  k1 = k1
  Procs = {p1, p2}
  Apps = {a1}
  Keys = {k1}
  MaxFiles = 3
  None = None
  Pieces = 2
  MaxSize = 2
  SizeWrap = 6
  MaxEvictions = 2
INVARIANTS
  EntriesComplete
  SizeExact
  StaleTmpHarmless
  TmpCleaned
SYMMETRY Sym
