SPECIFICATION FairSpec
CONSTANTS
  Timers = {t1, t2}
  MaxTime = 4
INVARIANTS TypeOK TimerfdCovers NotDropped StopWaitsForTimers
PROPERTIES Refinement FiresUnlessDisarmed
CHECK_DEADLOCK FALSE
