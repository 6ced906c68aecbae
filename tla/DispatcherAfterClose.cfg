CONSTANTS
  Symbols    = {"a", "b"}
  Times      = {0}
  Derived    = {}
  Universes  = {{"a", "b"}}
  w1 = w1
  w2 = w2
  c1 = c1
  c2 = c2
  Workers    = {w1, w2}
  Callers    = {c1}
  QueueSize  = 2
  MaxDeliveries = 1
  MayStop    = TRUE
CHECK_DEADLOCK FALSE
SPECIFICATION Spec
SYMMETRY Symmetry
INVARIANT NothingFiresAfterClose
