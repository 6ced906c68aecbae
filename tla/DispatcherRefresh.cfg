CONSTANTS
  Symbols    = {"a", "b", "c"}
  Times      = {1}
  Derived    = {2}
  Universes  = {{"a", "b"}, {"b", "c"}, {"a", "b", "c"}, {}}
  w1 = w1
  w2 = w2
  c1 = c1
  c2 = c2
  Workers    = {w1, w2}
  Callers    = {c1}
  QueueSize  = 2
  MaxDeliveries = 1
  MayStop    = TRUE
CHECK_DEADLOCK FALSE
SPECIFICATION Spec
SYMMETRY Symmetry
INVARIANT OneReadyPerSection
INVARIANT MissedAreReplaced
INVARIANT DerivedFollowsBase
INVARIANT OneEventAfterClosed
