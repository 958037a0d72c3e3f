SPECIFICATION Spec
CONSTANTS
  Clients = {c1, c2}
  Interval = 3
  BatchLimit = 2
  PageLimit = 2
  EventCounts = {1, 2}
  Deployments <- MCDeployments
  Faults = {"read", "write", "reply", "crash"}
  MaxVersion = 4
  MaxTime = 3
INVARIANTS
  TypeOK
  Gapless
  ReadsAreWindows
  TailsComplete
  AckedKept
PROPERTIES
  RecordsImmutable
SYMMETRY Symmetry
CHECK_DEADLOCK FALSE
