\* Everybody, on a server that alone writes the accounts.
SPECIFICATION Spec
CONSTANTS
  ana = ana
  bia = bia
  Users = {ana, bia}
  RoomIds = {r1, r2}
  TypedNames = {}
  Untyped = Untyped
  Nobody = Nobody
  NoRoom = NoRoom
  Nowhere = Nowhere
  Absent = Absent
  MaxParticipantsPerRoom = 3
  Connections = {c1, c2, c3}
  NoConnection = NoConnection
  Closed = Closed
  Unborn = Unborn
  Removed = Removed
  InitialAccounts <- AnyStart
  InitialRooms <- RoomsOfNobody
  SecondLogins = FALSE
  MaxOpenRows = 1
  Capacities = {2, 3}
  Takeable <- OneAtATime
  DbadminWrites = {}
SYMMETRY Symmetry
INVARIANTS
  PresenceAgrees
  RostersAgree
  RestrictionsHold
  SomebodyCanAdminister
  OneOpenSession
PROPERTIES
  ImplementsFloor
