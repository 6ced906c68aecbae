CONSTANTS
  RawSymbols = {"btc", "BTC", "ETH"}
  ToUpper   <- MCToUpper
  Intervals  = {"1m"}
  KeyLists  <- MCKeyLists
  r1 = r1
  r2 = r2
  r3 = r3
  Requests   = {r1, r2}
  Shards     = {"s1"}
  QueueSize  = 1
  None       = None
  GateTimeout = TRUE
  MayStop    = TRUE
CHECK_DEADLOCK FALSE
SPECIFICATION FairSpec
INVARIANT KeysOwnedOnce
INVARIANT GateCountsHolders
INVARIANT IntervalCountExact
PROPERTY HoldsReleased
PROPERTY RepairAnswered
PROPERTY ColdStartEndsReady
