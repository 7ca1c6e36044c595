SPECIFICATION LiveSpec
CONSTANTS
  App = {a, b}
  Idle = idle
  NULL = null
  Object = {}
  MaxPriority = 2
  TimeSlice = 2
  RoundRobin = TRUE
  TickMax = 3
  Calls = {"yield", "delay"}
  Delays = {1, 2}
  LockMax = 1
  Racy = FALSE
PROPERTIES PeersShareCpu SleepersWake
