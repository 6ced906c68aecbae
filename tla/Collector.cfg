CONSTANTS
  s1 = s1
  s2 = s2
  Symbols      = {s1, s2}
  Intervals    = {"1m"}
  Bucket       <- OneBucket
  MaxShards    = 2
  MaxSets      = 3
  MaxTime      = 3
  MaxFaults    = 2
  StaleTimeout = 1
  GapCap       = 1
  MayStop      = TRUE
CHECK_DEADLOCK FALSE
SPECIFICATION FairSpec
INVARIANT LostFramesAccounted
INVARIANT NoShardAfterClose
PROPERTY SubscriptionsFollow
PROPERTY LossIsReported
