\* dbadmin bans somebody a running server has signed in.
SPECIFICATION LiveSpec
CONSTANTS
  ana = ana
  bia = bia
  Users = {ana, bia}
  RoomIds = {r1}
  TypedNames = {}
  Untyped = Untyped
  Nobody = Nobody
  NoRoom = NoRoom
  Nowhere = Nowhere
  Absent = Absent
  MaxParticipantsPerRoom = 3
  Connections = {c1, c2}
  NoConnection = NoConnection
  Closed = Closed
  Unborn = Unborn
  Removed = Removed
  InitialAccounts <- OneAdministrator
  InitialRooms <- RoomsOfNobody
  SecondLogins = FALSE
  MaxOpenRows = 1
  Capacities = {}
  Takeable <- OnlyBans
  DbadminWrites = {"restrict"}
PROPERTIES
  BansReachOpenSessions
