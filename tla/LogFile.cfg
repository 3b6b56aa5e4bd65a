SPECIFICATION Spec
CONSTANTS
  RollSize = 2
  FlushInterval = 1
  CheckPerCount = 2
  Day = 2
  MaxLen = 2
  MaxRecords = 4
  MaxTime = 4
  MaxBack = 1
INVARIANTS TypeOK NoGap RollsIncrease SizeBound DaySplit LossBound
CHECK_DEADLOCK FALSE
