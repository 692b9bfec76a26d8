SPECIFICATION ReflectorSpec
CONSTANTS
  Keys = {k1, k2}
  MaxRV = 3
  Objects = {1, 2, 3}
  Absent = Absent
  MaxDeltas = 4
  MaxFailures = 2
INVARIANT ListedIsKept
CHECK_DEADLOCK FALSE
