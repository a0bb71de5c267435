SPECIFICATION Spec
CONSTANTS
  MaxVersion = 1
  MaxBackups = 3
  Keep = 2
  Limit = 2
  Sizes = {1, 2}
  MaxFaults = 1
  MaxFresh = 1
  MaxRestores = 0
  Null = Null
INVARIANTS LastGoodKept
CHECK_DEADLOCK FALSE
