SPECIFICATION MCSpec
CONSTANTS
  a = a
  b = b
  Proc = {operator, wizard}
  Db = {a, b}
  Commands = {"add", "remove", "setup"}
  Starts <- OneOrTwo
  Bundled <- JustA
  Exported <- Unset
  Dotenv <- Unset
  MaxCommands = 3
  MaxUploads = 1
SYMMETRY Symmetry
CHECK_DEADLOCK FALSE
INVARIANTS
  RegistryInv
  ReturnedIsDone
PROPERTIES
  RegistrySpec
  PruneSparesLast
