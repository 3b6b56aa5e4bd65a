SPECIFICATION FairSpec
CONSTANTS
  N = 2
  Tasks = {k1, k2, k3}
  NoTask = NoTask
INVARIANTS TypeOK NoLostWakeup ExitDrained
PROPERTIES Refinement SubmittedRuns DestructorReturns
CHECK_DEADLOCK FALSE
