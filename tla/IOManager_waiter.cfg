SPECIFICATION Spec
CONSTANTS
  Fibers = {f1}
  N = 2
  MaxSlices = 0
  MaxWakes = 1
  MaxIo = 1
  MaxArrivals = 0
INVARIANT StopLeavesNoWaiter
CHECK_DEADLOCK FALSE
