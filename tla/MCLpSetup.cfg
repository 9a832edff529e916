SPECIFICATION Spec
CONSTANTS
  NumTiles = 2
  CmdBlockMax = 2
  Room = 7
  Textures = {"a", "b"}
  MaxTextures = 2
  Framebuffers = {"plain", "deep"}
  ZsBound = {"deep"}
  Queries = {"q"}
  Draws <- MCDraws
  Clears <- MCClears
  MaxOps = 4
INVARIANTS
  PictureExact
  MapSeesAll
  QueryExact
  QueriesAlive
CHECK_DEADLOCK FALSE
