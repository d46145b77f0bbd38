SPECIFICATION Spec
CONSTANTS
  Sources <- TwoWriters
  Intents = {"NORMAL", "DISCHARGE_SOLAX", "CHARGE_DEYE"}
  Target = 2
  Start = 1
  Deadline = 4
  PhaseTimeout = 2
  PccMaxAge = 2
  ReadyMaxAge = 1
  Dwell = 1
  ConflictAction = "SAFE_STOP"
INVARIANT
  BreakBeforeMake
CHECK_DEADLOCK FALSE
