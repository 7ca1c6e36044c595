SPECIFICATION SemSpec
CONSTANTS
  App = {a, b}
  Idle = idle
  NULL = null
  Object = {sem}
  Sem = sem
  MaxPriority = 2
  TimeSlice = 1
  RoundRobin = TRUE
  TickMax = 3
  Calls = {}
  Delays = {}
  LockMax = 0
  Racy = FALSE
  MaxCount = 1
  InitialCount = 0
  Timeouts = {0}
  IsrLevels = 2
  OwedMax = 3
SYMMETRY SemSym
VIEW SemView
INVARIANT MaxCountKept
