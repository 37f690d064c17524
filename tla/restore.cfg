SPECIFICATION Spec
CONSTANTS
  p1 = p1
  p2 = p2
  shop = shop
  billing = billing
  Proc = {p1, p2}
  Key = {dump}
  Db = {shop, billing}
  Ops = {"restore", "pipe", "verify", "export"}
  Summed = {dump}
  Translated = FALSE
SYMMETRY Processes
CHECK_DEADLOCK FALSE
INVARIANTS
  DamageIsStopped
  EndIsFinal
