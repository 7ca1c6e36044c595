SPECIFICATION MutexSpec
CONSTANTS
  App = {a, b, c}
  Idle = idle
  NULL = null
  Object = {mtx}
  Mtx = mtx
  Recursive = FALSE
  RecMax = 2
  DepthMax = 1
  MaxPriority = 3
  TimeSlice = 1
  RoundRobin = TRUE
  TickMax = 3
  Calls = {"delay"}
  Delays = {1}
  LockMax = 0
  Racy = FALSE
  Timeouts = {3}
SYMMETRY MutexSym
VIEW MutexView
INVARIANTS PriorityRestored
CHECK_DEADLOCK FALSE
