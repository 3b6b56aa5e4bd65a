SPECIFICATION FairSpec
CONSTANTS
  Fibers = {f1}
  N = 2
  MaxSlices = 0
  MaxWakes = 0
  MaxIo = 1
  MaxArrivals = 1
PROPERTIES QueuedRuns IoResumes
CHECK_DEADLOCK FALSE
