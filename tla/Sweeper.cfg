CONSTANTS
  SweptSymbols = {1, 2}
  Traded    <- TradedBars
  D         = 2
  Window    = 4
  Settle    = 1
  EmptyTTL  = 4
  MaxRanges = 1
  PageLim   = 1
  MaxTime   = 9
  MaxMisses = 2
  MaxFaults = 2
CHECK_DEADLOCK FALSE
SPECIFICATION SweepFairSpec
INVARIANT SuppressedInVain
INVARIANT FetchedIsWhole
PROPERTY EmptyAskedOnce
PROPERTY HolesGetRepaired
