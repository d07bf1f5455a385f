SPECIFICATION StatsSpec
CONSTANTS
  Adders = {a1, a2}
  Nothing = Nothing
  Packets = 4
INVARIANTS NeverDividesByZero ReportsAreTrue
CHECK_DEADLOCK FALSE
