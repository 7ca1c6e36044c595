SPECIFICATION SleepSpec
CONSTANTS
  App = {a, b, c}
  Idle = idle
  NULL = null
  Object = {}
  MaxPriority = 2
  TimeSlice = 1
  RoundRobin = TRUE
  TickMax = 3
  Calls = {"yield", "delay", "suspend", "delete", "resume", "priority", "create", "unblock"}
  Delays = {1, 2}
  LockMax = 1
  Racy = FALSE
INVARIANTS ListsIntact StateTellsList StoppedTaskIsOff NoOverdueSleeper
PROPERTIES PreemptionNotForgotten TickSparesStopped DelayExact
SYMMETRY Sym
VIEW SleepView
