SPECIFICATION Spec
CONSTANTS
  StartupWindow = 3
  ReadyConfirmation = 2
  ShutdownSettle = 2
  MaxAge = 2
  Dated <- AllDated
  MaxTime = 4
CHECK_DEADLOCK FALSE
INVARIANTS
  NoGraceAfterReady
PROPERTIES
  ConfirmationsLast
  StartupIsBounded
