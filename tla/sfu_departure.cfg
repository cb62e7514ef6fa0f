SPECIFICATION Spec
CONSTANTS
  Users = {a, b}
  RoomIds = {r1}
  MaxStays = 2
  MaxTasks = 3
INVARIANT DepartedAreNotExpected
\* Everybody may be gone, with as many offers on their way as the bound takes.
CHECK_DEADLOCK FALSE
