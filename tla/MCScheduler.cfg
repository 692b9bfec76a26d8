SPECIFICATION Spec
CONSTANTS
  Pods = {p1, p2}
  Nodes = {n1, n2}
  Capacity = 1
  Unscheduled = Unscheduled
  NoPod = NoPod
  Budget = 4
  MaxBack = 1
SYMMETRY Symmetry
INVARIANTS
  NodesAddUp
  NoOvercommit
  NeverKillsItself
  NeverForgotten
  CapacityComesBack
CHECK_DEADLOCK FALSE
