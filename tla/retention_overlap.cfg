SPECIFICATION Spec
CONSTANTS
  Writer = {w1}
  Retainer = {r1, r2}
  Horizon = 6
  MaxBackups = 3
  KeepMonths = 2
  FirstYear = 2024
  LastYear = 2026
  Month <- MonthOf
  Week <- WeekOf
  LastWeek <- LastWeekOf
SYMMETRY Symmetry
CHECK_DEADLOCK FALSE
INVARIANTS
  LatestOfMonthKept
PROPERTIES
  PolicySpec
