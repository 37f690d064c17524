SPECIFICATION MCConfigSpec
CONSTANTS
  InToml = {"unset", "real"}
  InDotenv = {"unset", "blank", "real"}
  Shells <- BareOrDev
  a = a
  b = b
  Proc = {operator}
  Db = {a}
  Commands = {"add"}
  Starts <- OneList
  Bundled <- JustA
  Exported <- Unset
  Dotenv <- Unset
  MaxCommands = 0
  MaxUploads = 0
CHECK_DEADLOCK FALSE
INVARIANTS
  ConfigInv
PROPERTIES
  DataDirStays
