SPECIFICATION Spec
CONSTANTS
  Keys = {k1, k2}
  Conversations = {c1}
  Texts = {t1}
  Files = {1, 2}
  MessageDays = 1
  FileDays = 3
  DedupDays = 3
  RetryDays = 3
  Limit = 1
  MaxTime = 5
  Null = Null
SYMMETRY Symmetric
INVARIANTS TypeOK AtMostOnce RowsAgree LiveFileKeepsMessage IdenticalRetryAnswers EventsTellLifecycle
PROPERTIES ImplementsLedger
