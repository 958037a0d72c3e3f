SPECIFICATION Spec
CONSTANTS
  Clients = {c1, c2}
  Interval = 3
  BatchLimit = 2
  PageLimit = 3
  EventCounts = {1, 2}
  Deployments <- Keeping
  Faults = {}
  MaxVersion = 4
  MaxTime = 0
INVARIANTS
  SnapshotInWindow
CHECK_DEADLOCK FALSE
