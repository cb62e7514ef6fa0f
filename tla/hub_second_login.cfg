\* The sign-in button pressed twice.
SPECIFICATION Spec
CONSTANTS
  ana = ana
  bia = bia
  Users = {ana, bia}
  RoomIds = {r1}
  TypedNames = {}
  Untyped = Untyped
  Nobody = Nobody
  NoRoom = NoRoom
  Nowhere = Nowhere
  Absent = Absent
  MaxParticipantsPerRoom = 3
  Connections = {c1, c2}
  NoConnection = NoConnection
  Closed = Closed
  Unborn = Unborn
  Removed = Removed
  InitialAccounts <- OneAdministrator
  InitialRooms <- RoomsOfNobody
  SecondLogins = TRUE
  MaxOpenRows = 2
  Capacities = {}
  Takeable <- OnlyBans
  DbadminWrites = {}
INVARIANTS
  OneOpenSession
