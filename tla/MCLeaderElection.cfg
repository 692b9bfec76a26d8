SPECIFICATION Spec
CONSTANTS
  Clients = {c1, c2}
  None = None
  LeaseDuration = 6
  RenewDeadline = 2
  RetryPeriod = 1
  CallTime = 1
  MaxFailures = 3
INVARIANTS
  TypeOK
  AtMostOneLeader
PROPERTY
  EventuallyLed
