SPECIFICATION RateLimitingSpec
CONSTANTS
  Items = {a, b}
  Callers = {p1}
  NoItem = NoItem
  ChanCap = 2
  Delays = {0, 2}
  Horizon = 2
  BaseDelay = 3
  MaxDelay = 7
  FastDelay = 2
  SlowDelay = 5
  MaxFastAttempts = 1
  Width = 4
  TickLength = 4
  MaxCalls = 3
INVARIANTS
  SliceMatchesMap
  NoRequestPostponed
PROPERTIES
  NeverEarly
  BackoffNeverShrinks
  DelayedKeysArrive
  ShutdownReleasesAll
CHECK_DEADLOCK FALSE
