SPECIFICATION MCSpec
CONSTANTS
  Modes = {"dump", "restore", "run"}
  Blocks = 6
  MaxNoise = 4
  PipeCap = 3
  ErrCap = 3
  Proc = {p}
  Key = {dump}
  Db = {shop}
  Ops = {"restore"}
  Summed = {dump}
  Translated = FALSE
CHECK_DEADLOCK FALSE
INVARIANTS
  PipesInv
PROPERTIES
  Ends
