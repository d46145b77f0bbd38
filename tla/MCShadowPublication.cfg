SPECIFICATION Spec
CONSTANTS
  Evidence <- TwoOff
  Houses <- FiveHouses
  Details <- TwoDetails
  Capable <- AllCapable
  Deadband = 1
  MaxPower = 6
  SocFloor = 15
  ExportTarget = 6
  Transfer = 1
  Mismatch = 0
  MaxFailures = 2
INVARIANTS
  DischargeIsBounded
  ActingIsWhole
  ChangeIsFollowed
PROPERTIES
  UnsafeIsWithdrawn
