CONSTANTS
  a = a
  Symbols     = {a}
  FirstClock  = 3
  MaxClock    = 4
  MaxLives    = 2
  MaxLimit    = 2
  LimitMargin = 1
  ColdStart   = 3
  MaxBackfill = 4
CHECK_DEADLOCK FALSE
SPECIFICATION Spec
INVARIANT ProgressMeansStored
