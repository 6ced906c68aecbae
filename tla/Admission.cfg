CONSTANTS
  Callers    = {"a", "b", "c"}
  Mixes      <- MixesOf
  Burst      <- BurstOf
  Weights    = {0, 2}
  Minute     = 3
  UsedLevels = {0, 1, 2}
  Soft       = 1
  Hard       = 2
  Window     = 3
  Cap        = 2
  Retry      = {1, 2}
  MaxTime    = 3
  MaxCalls   = 3
  MaxFaults  = 2
CHECK_DEADLOCK FALSE
SPECIFICATION FairSpec
INVARIANT BudgetKept
INVARIANT WindowCapKept
PROPERTY NothingSentIntoBackoff
PROPERTY PauseNeverShortened
PROPERTY CallersReturn
