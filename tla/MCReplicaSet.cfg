SPECIFICATION Spec
CONSTANTS
  MaxPods = 3
  MaxReplicas = 2
  burstReplicas = 2
  MaxFailures = 1
  MaxDisruptions = 1
  MaxBack = 1
INVARIANTS
  NoSurplus
  NoShortage
PROPERTIES
  EventuallyReplicas
  DeletedLeavesNothing
\* A replica set that was deleted is at rest.
CHECK_DEADLOCK FALSE
