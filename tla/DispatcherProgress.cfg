CONSTANTS
  Symbols    = {"a", "b"}
  Times      = {1}
  Derived    = {2}
  Universes  = {{"a", "b"}}
  w1 = w1
  w2 = w2
  c1 = c1
  c2 = c2
  Workers    = {w1, w2}
  Callers    = {c1, c2}
  QueueSize  = 1
  MaxDeliveries = 2
  MayStop    = TRUE
CHECK_DEADLOCK FALSE
SPECIFICATION FairSpec
PROPERTY SectionsArePublished
PROPERTY QueuedBarsArePushed
PROPERTY CloseReturns
INVARIANT NoBarHandledTwice
