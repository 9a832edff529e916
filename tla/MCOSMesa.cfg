SPECIFICATION Spec
CONSTANTS
  t1 = t1
  t2 = t2
  c1 = c1
  c2 = c2
  NoContext = NoContext
  m1 = m1
  m2 = m2
  p1 = p1
  Blank = Blank
  Threads = {t1, t2}
  Contexts = {c1, c2}
  Attribs <- MCAttribsSame
  Types = {"UNSIGNED_BYTE", "UNSIGNED_SHORT_5_6_5"}
  Sizes <- MCSizes
  Mems = {m1, m2}
  Pictures = {p1}
  MaxTextures = 3
SYMMETRY Symmetry
INVARIANTS
  TexturesAlive
  DrawnIsFlushed
  
PROPERTIES
  SoleUserDelivers
CHECK_DEADLOCK FALSE
