SPECIFICATION QueueSpec
CONSTANTS
  App = {a, b}
  Idle = idle
  NULL = null
  Object = {que}
  Queue = que
  Msg = {m, n}
  None = none
  Capacity = 2
  QueueCalls = {"send", "receive", "peek"}
  MaxPriority = 1
  TimeSlice = 1
  RoundRobin = TRUE
  TickMax = 2
  Calls = {}
  Delays = {}
  LockMax = 0
  Racy = FALSE
  Timeouts = {0, 1, 2}
SYMMETRY QueueSym
VIEW QueueView
INVARIANTS RingAligned NoForgottenWaiter
PROPERTIES RefinesDeque
