CONSTANTS
  Symbols    = {"a", "b", "c"}
  Times      = {0}
  Derived    = {}
  Universes  = {{"a", "b"}, {"b", "c"}}
  w1 = w1
  w2 = w2
  c1 = c1
  c2 = c2
  Workers    = {w1, w2}
  Callers    = {c1}
  QueueSize  = 2
  MaxDeliveries = 1
  MayStop    = FALSE
CHECK_DEADLOCK FALSE
SPECIFICATION Spec
SYMMETRY Symmetry
INVARIANT CompleteMeansEverySymbol
