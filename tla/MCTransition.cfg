SPECIFICATION FairSpec
CONSTANTS
  Sources <- UpToTwoWriters
  Intents = {"NORMAL", "DISCHARGE_SOLAX", "CHARGE_DEYE"}
  Target = 2
  Start = 1
  Deadline = 4
  PhaseTimeout = 2
  PccMaxAge = 2
  ReadyMaxAge = 1
  Dwell = 1
  ConflictAction = "SAFE_STOP"
INVARIANTS
  WithinHeadroom
  NeverFeedsTheOther
  DwellProven
  DrivenIsStopped
PROPERTIES
  HandsOver
  AlwaysEnds
CHECK_DEADLOCK FALSE
