SPECIFICATION FairSpec
CONSTANTS
  NumProc = 3
  NumTasks = 2
  TaskPriority = 3
  UserPriority = 2
  HddTask = 1
  MaxDebt = 1
INVARIANTS
  TypeOK
  RunningIsRunnable
PROPERTIES
  ClockChoosesMost
  NoStarvation
