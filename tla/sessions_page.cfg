\* The page of a database in which more sessions have ended than it holds.
SPECIFICATION Spec
CONSTANTS
  Users = {ana}
  Nobody = Nobody
  Sockets = {a}
  NoConnection = NoConnection
  Stores = {"mongo"}
  Requested = {0}
  kDefaultLimit = 1
  kMaxLimit = 2
  kCapacity = 1
  MaxOpened = 2
  MaxTime = 3
INVARIANT
  TheNewestAreListed
CHECK_DEADLOCK FALSE
