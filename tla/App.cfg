CONSTANTS
  Producers   = {p1}
  Workers     = {w1, w2}
  ChannelSize = 1
  Symbols     = {s1, s2}
  Modes       = {"live", "plain", "offline"}
  Hangs       = {{}, {"collector"}}
  Listed      = {s1}
  MaxEvents   = 2
  MaxAbandoned = 1
SPECIFICATION FairSpec
INVARIANT ShutdownStopsAll
INVARIANT SubscribedIsRepaired
INVARIANT OnlyLateFramesLeft
PROPERTY ShutdownReturns
