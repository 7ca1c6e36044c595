SPECIFICATION Spec
CONSTANTS
  App = {a, b}
  Idle = idle
  NULL = null
  Object = {}
  MaxPriority = 2
  TimeSlice = 1
  RoundRobin = TRUE
  TickMax = 2
  Calls = {"yield", "delay", "suspend", "delete", "resume", "priority", "create", "lock", "unblock"}
  Delays = {0, 1}
  LockMax = 2
  Racy = TRUE
INVARIANTS TypeOK ListsSound SomeTaskRuns
PROPERTY DeferredYieldServed
SYMMETRY Sym
VIEW View
CHECK_DEADLOCK FALSE
