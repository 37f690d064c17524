SPECIFICATION MCSpec
CONSTANTS
  p1 = p1
  p2 = p2
  p3 = p3
  Proc = {p1, p2, p3}
  Source = {shop, billing, crm}
  Tabled = {crm}
  Ops = {"backup", "database"}
SYMMETRY Processes
CHECK_DEADLOCK FALSE
INVARIANTS
  AnonymizeInv
  CallsStayApart
