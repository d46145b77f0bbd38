SPECIFICATION PublicationSpec
CONSTANTS
  Plans <- OnePlan
  Types = {"NONE", "NORMAL"}
  MaxAge = 1
  MaxPublications = 3
  MaxTime = 2
INVARIANTS
  DecodedHadAuthority
PROPERTY
  KeepsPromise
CHECK_DEADLOCK FALSE
