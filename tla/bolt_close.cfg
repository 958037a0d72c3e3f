SPECIFICATION FairSpec
CONSTANTS
  None = None
  s1 = s1
  s2 = s2
  id1 = id1
  id2 = id2
  r1 = r1
  r2 = r2
  r3 = r3
  x = x
  y = y
  Instances = {s1, s2}
  Requests = {r1, r2, r3}
  Ids = {id1, id2}
  Batches <- MCBatches
  Operations <- MCOperations
  Limit <- MCLimit
  Faults = {}
  Habits = {FALSE}
INVARIANTS
  ClosedHoldsNothing
CHECK_DEADLOCK FALSE
