SPECIFICATION EventSpec
CONSTANTS
  App = {a, b}
  Idle = idle
  NULL = null
  Object = {grp}
  Group = grp
  Bit = {x, y}
  WaitBits = {{x, y}}
  MaxPriority = 2
  TimeSlice = 1
  RoundRobin = TRUE
  TickMax = 2
  Calls = {}
  Delays = {}
  LockMax = 0
  Racy = FALSE
  Timeouts = {1, 2}
SYMMETRY EventSym
VIEW EventView
INVARIANTS NoForgottenEvent EventsAccounted
