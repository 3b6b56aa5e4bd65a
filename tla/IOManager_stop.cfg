SPECIFICATION FairSpec
CONSTANTS
  Fibers = {f1}
  N = 2
  MaxSlices = 0
  MaxWakes = 0
  MaxIo = 0
  MaxArrivals = 0
PROPERTY StopReturns
CHECK_DEADLOCK FALSE
