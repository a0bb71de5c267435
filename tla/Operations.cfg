SPECIFICATION Spec
CONSTANTS
  MaxVersion = 2
  MaxBackups = 2
  Keep = 1
  Limit = 2
  Sizes = {1}
  MaxFaults = 3
  MaxFresh = 2
  MaxRestores = 2
  Null = Null
INVARIANTS TypeOK TargetWhole Kept RolledBack EpochNames
CHECK_DEADLOCK FALSE
