SPECIFICATION Spec
CONSTANTS
  NumProc = 3
  HddTask = 2
  Payload = {m1}
INVARIANT NoDependencyCycle
CHECK_DEADLOCK FALSE
