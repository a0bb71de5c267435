SPECIFICATION FairSpec
CONSTANTS
  Users = {alice, bob}
  Rooms = {r1, r2}
  Texts = {t1}
  Files = {f1}
  MaxSends = 2
  MaxGen = 2
  Null = Null
INVARIANTS OwnMessages StoredOnce
PROPERTIES ComposerFrees
CHECK_DEADLOCK FALSE
