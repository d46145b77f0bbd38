SPECIFICATION FairSpec
CONSTANTS
  Rated = 2
  Slew = 1
  GridTarget = 0
  Surpluses <- Scarce
  Confirm = 2
  Persist = 2
  MaxGap = 2
INVARIANTS
  RestBeforeMotion
PROPERTIES
  FaultIsConfirmed
  WaitsEnd
