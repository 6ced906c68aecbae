CONSTANTS
  MaxRows     = 2
  MaxCalls    = 2
  ChannelSize = 2
  BatchSize   = 2
  MaxRetries  = 1
  f1 = f1
  f2 = f2
  Flushers    = {f1, f2}
  None        = None
  MayStop     = FALSE
CHECK_DEADLOCK FALSE
SPECIFICATION Spec
INVARIANT FlushMeansWritten
