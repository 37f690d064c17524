SPECIFICATION Spec
CONSTANTS
  Writer = {w1, w2}
  Retainer = {r1}
  Horizon = 9
  MaxBackups = 3
  KeepMonths = 2
  FirstYear = 2024
  LastYear = 2026
  Month <- MonthOf
  Week <- WeekOf
  LastWeek <- LastWeekOf
SYMMETRY Symmetry
CHECK_DEADLOCK FALSE
INVARIANTS
  TypeOK
  RecentKept
  MonthKeepsOne
  CollapsedWhenDone
  DatesAreRight
