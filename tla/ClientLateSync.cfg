SPECIFICATION Spec
CONSTANTS
  Keys = {k1}
  Users = {ann, bob}
  Requests = {r1, r2}
  FirstSession = ann
  RetryDays = 1
  MaxTime = 1
  MaxGen = 3
  Null = Null
PROPERTIES LateAnswersIgnored
CHECK_DEADLOCK FALSE
