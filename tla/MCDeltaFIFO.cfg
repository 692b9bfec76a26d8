SPECIFICATION Spec
CONSTANTS
  Keys = {k1, k2}
  Objects = {o1, o2}
  Absent = Absent
  MaxDeltas = 2
SYMMETRY Symmetric
INVARIANTS
  QueueMatchesItems
  DeletionsAreOfSomething
  StoreCatchesUp
  SyncedMeansPopped
