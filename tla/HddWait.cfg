SPECIFICATION OpenSpec
CONSTANTS
  Client = {"fs", "user"}
  Requests = {"open", "close", "read", "write", "io control"}
  MaxSectors = 2
  MaxTables = 7
  SignBit = 32
  NR_PART_PER_DRIVE = 2
  NR_SUB_PER_PART = 3
  MAX_DRIVES = 2
  Layouts <- SmallLayouts
  Span = 20
  DiskSize = 60
INVARIANTS
  ReadsReady
CHECK_DEADLOCK FALSE
