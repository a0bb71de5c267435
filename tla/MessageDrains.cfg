SPECIFICATION FairSpec
CONSTANTS
  Keys = {k1, k2}
  Conversations = {c1}
  Texts = {t1}
  Files = {1, 2}
  MessageDays = 1
  FileDays = 2
  DedupDays = 1
  RetryDays = 1
  Limit = 1
  MaxTime = 3
  Null = Null
PROPERTIES RetentionDrains
