SPECIFICATION FairSpec
CONSTANTS
  ann = ann
  phone = phone
  Accounts = {ann}
  Veterans <- NoVeterans
  SessionIds = {phone}
  ServerOf <- TheServers
  HolderOf <- TheHolders
  Sockets = {w1}
  Passes = {p1, p2}
  Batch = 2
  MaxEvents = 3
INVARIANTS NoHole LastWords
PROPERTIES DeadCloses Delivers
CHECK_DEADLOCK FALSE
