SPECIFICATION FairSpec
CONSTANTS
  Proc = {p0, p1, p2}
  First = p0
  Irq = {clock, keyboard, disk}
  Clock = clock
  Call = Call
  Boot = Boot
  Kernel = Kernel
INVARIANTS
  TypeOK
  DepthIsCounted
  NotReentered
  CallIsForCaller
PROPERTIES
  ResumedAsLeft
  LineComesBack
