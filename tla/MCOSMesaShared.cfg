SPECIFICATION Spec
CONSTANTS
  t1 = t1
  c1 = c1
  c2 = c2
  NoContext = NoContext
  m1 = m1
  m2 = m2
  p1 = p1
  p2 = p2
  Blank = Blank
  Threads = {t1}
  Contexts = {c1, c2}
  Attribs <- MCAttribsSame
  Types = {"UNSIGNED_BYTE"}
  Sizes <- MCOneSize
  Mems = {m1, m2}
  Pictures = {p1, p2}
  MaxTextures = 4
PROPERTIES
  FlushDelivers
CHECK_DEADLOCK FALSE
