SPECIFICATION Spec
CONSTANTS
  ann = ann
  bob = bob
  cyd = cyd
  phone = phone
  bobs = bobs
  Accounts = {ann, bob, cyd}
  Veterans <- TheVeterans
  SessionIds = {phone, bobs}
  ServerOf <- TheServers
  HolderOf <- TheHolders
  Calls = {q1, q2, q3}
  Keys = {k1}
  Titles = {t1, t2}
  Page = 1
  MaxRooms = 3
  MaxMessages = 2
  Null = Null
SYMMETRY Symmetric
INVARIANTS TypeOK AskedOnce ReadsHeld ListingCovers
PROPERTIES EndedMovesNothing
CHECK_DEADLOCK FALSE
