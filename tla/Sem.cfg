SPECIFICATION SemSpec
CONSTANTS
  App = {a, b}
  Idle = idle
  NULL = null
  Object = {sem}
  Sem = sem
  MaxPriority = 2
  TimeSlice = 1
  RoundRobin = TRUE
  TickMax = 2
  Calls = {}
  Delays = {}
  LockMax = 0
  Racy = FALSE
  MaxCount = 1
  InitialCount = 1
  Timeouts = {0, 1, 2}
  IsrLevels = 2
  OwedMax = 2
SYMMETRY SemSym
VIEW SemView
INVARIANTS SemTypeOK CountBounded NoTokenInvented StateTellsList
PROPERTIES GiveWakesBest ResetWakesAll
