SPECIFICATION FairSpec
CONSTANTS
  MaxMessages = 2
  Regimes <- BothRegimes
  Null = Null
INVARIANTS NoGap
PROPERTIES CursorNeverRetreats Converges
CHECK_DEADLOCK FALSE
