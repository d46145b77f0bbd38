SPECIFICATION Spec
CONSTANTS
  Interval = 2
  Tolerance = 1
  MaxAge = 2
  Batteries = {SOLAX, DEYE}
  Levels = {low, high}
  MaxTime = 3
SYMMETRY Symmetry
INVARIANTS
  TypeOK
PROPERTIES
  SettledIsTheRun
  PeriodsNeverMix
