SPECIFICATION FairSpec
CONSTANTS
  Consoles = 2
  Width = 2
  Size = 4
  Memory = 7
  Printed = {0, 1}
  BufLength = 2
INVARIANTS
  TypeOK
  WithinMemory
  ShownIsCurrent
PROPERTY ScrollEnds
CHECK_DEADLOCK FALSE
