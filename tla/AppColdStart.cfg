CONSTANTS
  Producers   = {p1}
  Workers     = {w1, w2}
  ChannelSize = 1
  Symbols     = {s1, s2}
  Modes       = {"live"}
  Hangs       = {{}}
  Listed      = {s1}
  MaxEvents   = 2
  MaxAbandoned = 1
SPECIFICATION Spec
INVARIANT EverySymbolIsSubmitted
