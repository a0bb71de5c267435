SPECIFICATION Spec
CONSTANTS
  Jobs = {f1}
  MaxAttempts = 1
  Reserved = 1
  Quota = 1
  Slow = {f1}
  MaxFaults = 0
  MaxCrashes = 0
  Null = Null
INVARIANTS EveryReadyOnDisk
