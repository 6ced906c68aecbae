CONSTANTS
  RawSymbols = {"btc", "BTC"}
  ToUpper   <- MCToUpper
  Intervals  = {"1m"}
  K         <- MCKey
  MaxBar     = 2
  w1 = w1
  w2 = w2
  Workers    = {w1, w2}
  QueueSize  = 1
  BufferSize = 1
  WindowSize = 2
  MayFail    = TRUE
CHECK_DEADLOCK FALSE
SPECIFICATION Spec
SYMMETRY Symmetry
INVARIANT WindowNewestFirst
INVARIANT RepairShows
