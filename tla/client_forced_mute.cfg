SPECIFICATION PartsSpec
CONSTANTS
  Parts = {"session"}
  Users = {ana, bia}
  Me = ana
  RoomIds = {r1}
  Places = {r1, r2}
  TypedNames = {}
  Untyped = Untyped
  Nobody = Nobody
  NoRoom = NoRoom
  Nowhere = Nowhere
  Absent = Absent
  MaxParticipantsPerRoom = 2
  Capacity = 2
  MaxStays = 4
  MaxQueue = 3
  Scenarios <- MuteAndForce
  Urls = {u1, u2}
  MaxSockets = 3
  MaxAttempts = 1
  MaxNonce = 1
  NoticeSockets = {a, b}
  MaxNotices = 2
  kMaxPendingPerDelivery = 1
  MaxSignIns = 3
  MaxRefusals = 1
  NoConnection = NoConnection
  Stores = {"memory"}
  Requested = {0}
  kDefaultLimit = 1
  kMaxLimit = 1
  kCapacity = 1
  MaxOpened = 1
  MaxTime = 1
  MaxKbps = 2
INVARIANT ForcedMuteSilences
\* The person may stop, with the room quiet.
CHECK_DEADLOCK FALSE
