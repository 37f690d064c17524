SPECIFICATION MCProbesSpec
CONSTANTS
  Backlog = 5
  Hang = 6
  LivePeriod = 4
  Threshold = 3
  Databases <- Two
  Aging = {"shop"}
  Targets <- TwoWriters
  MaxBackups = 1
  Url <- OneSpelling
  Main = main
  Server = server
  Proc = {p}
  MaxJobs = 0
  MaxFull = 0
CHECK_DEADLOCK FALSE
INVARIANTS
  ProbesInv
