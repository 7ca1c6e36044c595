SPECIFICATION Spec
CONSTANTS
  App = {a, b}
  Idle = idle
  NULL = null
  Object = {}
  MaxPriority = 2
  TimeSlice = 1
  RoundRobin = TRUE
  TickMax = 3
  Calls = {"delay", "suspend"}
  Delays = {1, 2}
  LockMax = 1
  Racy = TRUE
PROPERTIES TickSparesStopped
