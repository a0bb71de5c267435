SPECIFICATION FairSpec
CONSTANTS
  Jobs = {f1, f2}
  MaxAttempts = 2
  Reserved = 2
  Quota = 3
  Slow = {f2}
  MaxFaults = 1
  MaxCrashes = 1
  Null = Null
INVARIANTS TypeOK QuotaHeld DiskAccounted PromptReadyOnDisk JobsAnswer
PROPERTIES ImplementsLifecycle CondemnedGoes ReservationsReturn
