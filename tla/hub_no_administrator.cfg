\* dbadmin bans the administrators one after the other.
SPECIFICATION Spec
CONSTANTS
  ana = ana
  bia = bia
  Users = {ana, bia}
  RoomIds = {r1}
  TypedNames = {}
  Untyped = Untyped
  Nobody = Nobody
  NoRoom = NoRoom
  Nowhere = Nowhere
  Absent = Absent
  MaxParticipantsPerRoom = 3
  Connections = {c1, c2}
  NoConnection = NoConnection
  Closed = Closed
  Unborn = Unborn
  Removed = Removed
  InitialAccounts <- TwoAdministrators
  InitialRooms <- RoomsOfNobody
  SecondLogins = FALSE
  MaxOpenRows = 1
  Capacities = {}
  Takeable <- OnlyBans
  DbadminWrites = {"restrict"}
INVARIANTS
  SomebodyCanAdminister
