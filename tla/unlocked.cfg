SPECIFICATION MCSpec
CONSTANTS
  Url <- TwoSpellings
  Main = main
  Server = server
  Proc = {p1, p2}
  MaxJobs = 4
  MaxFull = 4
CHECK_DEADLOCK FALSE
INVARIANTS
  PoolsInv
  LogInv
