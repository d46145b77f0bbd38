SPECIFICATION ExecutorSpec
CONSTANTS
  Intents <- OneOfEach
  DeyeRoles = {"OFF", "NATIVE", "CHARGE"}
  Epochs = {1, 2}
  MaxTicks = 6
  Created = 1
  Expires = 4
  MaxTime = 4
  MaxEpoch = 1
INVARIANTS
  PublishedIsSound
  AuthorityIsReconciled
  OnlyDriftIsRefused
PROPERTIES
  AbortIsFinal
  EvidenceOnlyGrows
CHECK_DEADLOCK FALSE
