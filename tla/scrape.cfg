SPECIFICATION MCScrapeSpec
CONSTANTS
  Databases <- Two
  Aging = {"shop"}
  Targets <- TwoWriters
  MaxBackups = 1
  Backlog = 5
  Hang = 6
  LivePeriod = 4
  Threshold = 3
  Url <- OneSpelling
  Main = main
  Server = server
  Proc = {p}
  MaxJobs = 0
  MaxFull = 0
CHECK_DEADLOCK FALSE
PROPERTIES
  PagesAreTrue
  LastingIsSeen
