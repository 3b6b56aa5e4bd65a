SPECIFICATION CloseSpec
CONSTANTS
  Fibers = {f1}
  N = 2
  MaxSlices = 0
  MaxWakes = 0
  MaxIo = 1
  MaxArrivals = 2
INVARIANT QueueOfChannel
CHECK_DEADLOCK FALSE
