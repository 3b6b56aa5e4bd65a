SPECIFICATION Spec
CONSTANTS
  Fibers = {f1}
  N = 2
  MaxSlices = 0
  MaxWakes = 1
  MaxIo = 1
  MaxArrivals = 2
INVARIANTS FiberExclusive EventNotLost PendingCount
PROPERTY ResumeAssert
CHECK_DEADLOCK FALSE
