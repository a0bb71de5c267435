SPECIFICATION FairSpec
CONSTANTS
  Keys = {k1}
  Users = {ann, bob}
  Requests = {r1, r2}
  FirstSession = ann
  RetryDays = 1
  MaxTime = 1
  MaxGen = 3
  Null = Null
INVARIANTS TypeOK StoredForAuthor Isolated
PROPERTIES Settles
CHECK_DEADLOCK FALSE
