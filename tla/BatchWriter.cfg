CONSTANTS
  MaxRows     = 3
  MaxCalls    = 2
  ChannelSize = 2
  BatchSize   = 2
  MaxRetries  = 1
  f1 = f1
  f2 = f2
  Flushers    = {f1}
  None        = None
  MayStop     = TRUE
CHECK_DEADLOCK FALSE
SPECIFICATION FairSpec
INVARIANT RowsAccountedOnce
PROPERTY RowsLeaveTheBuffer
PROPERTY FlushReturns
PROPERTY ImplementsBarrier
