SPECIFICATION FairSpec
CONSTANTS
  Msgs = {m1, m2, m3, m4, m5}
  Cap = 2
  DropLimit = 2
INVARIANTS TypeOK PushAssert Conserved OrderKept
PROPERTIES AcceptedWritten DoneReturns
CHECK_DEADLOCK FALSE
