SPECIFICATION FlowSpec
CONSTANTS
  Flows <- SixFlows
  ImportWarning = 1
  ImportViolation = 2
  FlowWarning = 1
  FlowViolation = 2
  MinCharge = 0
  MinExport = 1
  Reserve = 1
  WarningPersistence = 1
  ViolationPersistence = 2
  Window = 2
  Target = 3
  NearLimit = 3
  Legal = 4
  Quarter = 2
  MaxTime = 4
  MaxSamples = 4
INVARIANT FiguresAreExact
PROPERTY ViolationsAreTold
CHECK_DEADLOCK FALSE
