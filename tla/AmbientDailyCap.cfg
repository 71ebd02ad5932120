CONSTANTS
  Humans = {h1, h2}
  Rick = rick
  Window = 2
  MinMsgs = 1
  MinAuthors = 1
  Cooldown = 3
  DailyCap = 2
  EvalDebounce = 2
  CheckTimeout = 1
  Day = 2
  MaxTime = 2
  MaxMsgs = 2
  MaxFaults = 0
SPECIFICATION Spec
SYMMETRY Symmetry
INVARIANTS FiresTodayAreToday
CHECK_DEADLOCK FALSE
