SPECIFICATION TimerLiveSpec
CONSTANTS
  Timer = {x, y, z}
  NULL = null
  Periods = {1, 3}
INVARIANTS TimerListSound WalkIsFair FiresOnTime
PROPERTIES TickEnds
