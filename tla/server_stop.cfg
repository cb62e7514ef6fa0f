\* A server that is stopped while somebody connects.
SPECIFICATION Spec
CONSTANTS
  Connections = {a, b}
  MaxEvents = 1
INVARIANT
  NobodyWaitsInACircle
\* A server that has been stopped does nothing more.
CHECK_DEADLOCK FALSE
