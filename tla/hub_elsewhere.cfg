\* dbadmin writes the accounts of a running server.
SPECIFICATION LiveSpec
CONSTANTS
  ana = ana
  bia = bia
  Users = {ana, bia}
  RoomIds = {r1}
  TypedNames = {}
  Untyped = Untyped
  Nobody = Nobody
  NoRoom = NoRoom
  Nowhere = Nowhere
  Absent = Absent
  MaxParticipantsPerRoom = 3
  Connections = {c1, c2}
  NoConnection = NoConnection
  Closed = Closed
  Unborn = Unborn
  Removed = Removed
  InitialAccounts <- OneAdministrator
  InitialRooms <- NoRooms
  SecondLogins = FALSE
  MaxOpenRows = 1
  Capacities = {}
  Takeable <- MuteAndBlock
  DbadminWrites = {"restrict", "remove", "end_session"}
PROPERTIES
  RequestsAreNotWasted
  RequestsAreHonoured
