SPECIFICATION Spec
CONSTANT Threshold = 2
INVARIANTS
  HealthIsHonest
  ChangeIsArmed
PROPERTIES
  StatusRecovers
  UnsafeIsDisabled
