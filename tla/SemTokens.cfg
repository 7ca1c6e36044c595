SPECIFICATION SemSpec
CONSTANTS
  App = {a, b}
  Idle = idle
  NULL = null
  Object = {sem}
  Sem = sem
  MaxPriority = 2
  TimeSlice = 1
  RoundRobin = TRUE
  TickMax = 3
  Calls = {}
  Delays = {}
  LockMax = 0
  Racy = FALSE
  MaxCount = 1
  InitialCount = 1
  Timeouts = {0, 1, 3}
  IsrLevels = 1
  OwedMax = 2
SYMMETRY SemSym
VIEW SemView
INVARIANTS TokensKept
