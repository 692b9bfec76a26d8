SPECIFICATION Spec
CONSTANTS
  Keys = {k1, k2}
  Absent = Absent
  Handlers = {h1, h2}
  MaxVersion = 2
  JoinWhileStarting = FALSE
INVARIANTS
  ListenerMatchesIndexer
  CacheAtLeastAsFresh
PROPERTIES
  CallsMakeSense
  StopEndsListeners
CHECK_DEADLOCK FALSE
