SPECIFICATION RecordsSpec
CONSTANTS
  Parts = {"session", "link", "notices", "rows", "ceiling", "rooms", "wire"}
  Users = {ana, bia}
  Me = ana
  RoomIds = {r1}
  Places = {r1, r2}
  TypedNames = {}
  Untyped = Untyped
  Nobody = Nobody
  NoRoom = NoRoom
  Nowhere = Nowhere
  Absent = Absent
  MaxParticipantsPerRoom = 2
  Capacity = 2
  MaxStays = 4
  MaxQueue = 3
  Scenarios <- Everyday
  Urls = {u1, u2}
  MaxSockets = 3
  MaxAttempts = 1
  MaxNonce = 1
  NoticeSockets = {a, b}
  MaxNotices = 2
  kMaxPendingPerDelivery = 1
  MaxSignIns = 3
  MaxRefusals = 1
  NoConnection = NoConnection
  Stores = {"mongo", "memory"}
  Requested = {0, 9}
  kDefaultLimit = 1
  kMaxLimit = 2
  kCapacity = 1
  MaxOpened = 2
  MaxTime = 2
  MaxKbps = 2
  Owners = {ana}
  Names = {r1}
  MaxSeats = 3
  InitialStores <- LegacyRecords
  Creators = {ana}
  RequestedSizes = {0, 1, 3}
  Refusing = {"upsert", "remove", "list", "clear"}
  Unacknowledging = {"upsert", "remove", "clear"}
  Killable = TRUE
  DbadminActs = TRUE
  Unset = Unset
  Width = 4
INVARIANTS
  RecordsTypeOK
  ClientAgrees
  CaptureHasTheFloor
  LinkAgrees
  PresenceIsTrue
  OnlyWatchersCount
  SlowestViewerLimits
  NoRoomIsLost
  SaysNoMore
PROPERTIES
  BackInTheRoom
  DroppedIsReplaced
  EverythingIsRead
  NamesCollideOnlyOnLoad
\* The person may stop, with the room quiet; a message that is read ends there.
CHECK_DEADLOCK FALSE
