SPECIFICATION MachineSpec
CONSTANTS
  NumProc = 6
  SysTask = 1
  HddTask = 2
  FsTask = 3
  Ticker = {4, 5}
  MaxTables = 1
  Payload = {"open", "get ticks", "ticks"}
  RootDirSectors = 2
  DirEntries = 2
  SegmentSectors = 3
  MapRoom = 4
  TableSpan = 4
  AddressTop = 32
  Floppies <- SmallFloppies
  MemoryMaps <- SmallMaps
  Kernels <- SmallKernels
  Half = 128
  Byte = 8
  GDT_SIZE = 12
  NumSegmented = 6
  RING1_TASK_CNT = 4
  LdtAddress <- SmallLdts
  TssAddress = 8000
  StackSize <- SmallStacks
  STACK_SIZE = 13
INVARIANTS
  RepliesFit
  StopsOnlyInWindow
  RequestsHeld
  LoadedIsFile
  KernelIsPlaced
  LinesReachHandlers
  SegmentsAreOwn
CHECK_DEADLOCK FALSE
