SPECIFICATION MutexSpec
CONSTANTS
  App = {a, b}
  Idle = idle
  NULL = null
  Object = {mtx}
  Mtx = mtx
  Recursive = TRUE
  RecMax = 2
  DepthMax = 2
  MaxPriority = 3
  TimeSlice = 1
  RoundRobin = TRUE
  TickMax = 3
  Calls = {"delay", "suspend", "resume"}
  Delays = {1}
  LockMax = 0
  Racy = FALSE
  Timeouts = {0, 1, 3}
SYMMETRY MutexSym
VIEW MutexView
INVARIANTS MutualExclusion OwnerInherits PriorityRestored BoostKeepsLists BoostsAlone
CHECK_DEADLOCK FALSE
