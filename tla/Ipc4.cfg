SPECIFICATION Spec
CONSTANTS
  NumProc = 4
  HddTask = 2
  Payload = {m1}
VIEW WithoutBuffers
INVARIANTS
  NoSendCycle
  ListIsBlockedSenders
  NoMissedRendezvous
CHECK_DEADLOCK FALSE
