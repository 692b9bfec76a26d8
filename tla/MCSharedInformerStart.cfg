SPECIFICATION Safety
CONSTANTS
  Keys = {k1}
  Absent = Absent
  Handlers = {h1, h2}
  MaxVersion = 2
  JoinWhileStarting = TRUE
INVARIANT OneCallAtATime
CHECK_DEADLOCK FALSE
