SPECIFICATION FairSpec
CONSTANTS
  Readings <- Four
  Delta = 2
  Interval = 6
  Debounce = 3
  Refresh = 2
  Horizons <- ShortToLong
  MaxGap = 2
  SlotTime = 2
  Day = 8
  MaxHorizon = 9
  SlotLength = 15
  MaxSlots = 7
  Durations <- NoneToThreeSlots
INVARIANTS
  AdviceFits
  OffOnlyWhenIdle
  ReserveIsKept
PROPERTIES
  ReplanIsDebounced
  AdviceReturns
