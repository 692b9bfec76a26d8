SPECIFICATION Spec
CONSTANTS
  Keys = {k1}
  Values = {a, b}
  Everything = Everything
  Selectors = {a, Everything}
  Watchers = {w1}
  Capacity = 2
  IncomingSize = 1
  ChanSize = 1
  MaxRV = 3
  MaxFailures = 1
INVARIANTS
  ReconnectMissesNothing
CHECK_DEADLOCK FALSE
