SPECIFICATION MCSpec
CONSTANTS
  Proc = {scheduler, operator}
  Db = {idp}
  MaxSec = 2
  MaxRuns = 3
SYMMETRY Symmetry
CHECK_DEADLOCK FALSE
INVARIANTS
  TypeOK
  StoredWhole
  ReturnedIsStored
  StatusCoherent
  LastKeyStored
  EndsVisibly
PROPERTIES
  LedgerSpec
