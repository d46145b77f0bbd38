SPECIFICATION FairSpec
CONSTANTS
  StartConfirm = 2
  TransferConfirm = 2
  ReturnConfirm = 3
  Recovery = 2
  Window = 2
  Reserve = 1
  MinimumSafe = 1
  Maximum = 2
  Flows <- SomeFlows
  MaxGap = 2
PROPERTIES
  StartIsConfirmed
  LimitIsMeasured
  Charges
