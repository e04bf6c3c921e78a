SPECIFICATION Spec
CONSTANTS
  NumProc = 3
  HddTask = 2
  Payload = {m1}
INVARIANTS
  TypeOK
  BlockedIsReachable
  OnlyInterruptBreaksAsserts
PROPERTIES
  HandedOverIntact
  ServedInTurn
  ImplementsRendezvous
CHECK_DEADLOCK FALSE
