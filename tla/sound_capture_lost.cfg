\* A capture that ends by itself, and whoever stops the share after it.
SPECIFICATION Spec
CONSTANTS
  Drivers = {a}
  Block = 2
  High = 3
  TargetFrames = 2
  Prime = 3
  CaptureHigh = 3
  CaptureTarget = 2
  CapturePrime = 2
  Packets = {1}
  MaxCaptures = 1
INVARIANT
  ThreadsAreJoined
\* No more than one capture is made.
CHECK_DEADLOCK FALSE
