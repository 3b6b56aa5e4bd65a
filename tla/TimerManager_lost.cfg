SPECIFICATION FairSpec
CONSTANTS
  Timers = {t1}
  MaxTime = 3
PROPERTIES RepeatingFires
CHECK_DEADLOCK FALSE
