SPECIFICATION Spec
CONSTANTS
  Items = {a, b, c}
  Workers = {w1, w2, w3}
  NoItem = NoItem
INVARIANTS
  QueueIsPendingWork
  OneWorkerPerKey
  NoLostWakeup
  ShutdownDrains
PROPERTIES
  ShutdownTerminates
  ImplementsWorkSet
\* once the queue is shut down and every worker has left, nothing moves
CHECK_DEADLOCK FALSE
