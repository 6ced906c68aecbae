CONSTANTS
  RawSymbols = {"btc", "BTC"}
  ToUpper   <- MCToUpper
  Intervals  = {"1m"}
  K         <- MCKey
  MaxBar     = 2
  w1 = w1
  w2 = w2
  Workers    = {w1}
  QueueSize  = 1
  BufferSize = 2
  WindowSize = 2
  MayFail    = FALSE
CHECK_DEADLOCK FALSE
SPECIFICATION Spec
INVARIANT SwallowedIsRebuilt
