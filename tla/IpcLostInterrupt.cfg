SPECIFICATION Spec
CONSTANTS
  NumProc = 3
  HddTask = 2
  Payload = {m1}
INVARIANT InterruptReachesDriver
CHECK_DEADLOCK FALSE
