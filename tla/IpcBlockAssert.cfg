SPECIFICATION Spec
CONSTANTS
  NumProc = 3
  HddTask = 2
  Payload = {m1}
INVARIANT BlockAssertHolds
CHECK_DEADLOCK FALSE
