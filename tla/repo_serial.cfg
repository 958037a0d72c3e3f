SPECIFICATION FairSpec
CONSTANTS
  Nil = Nil
  a1 = a1
  a2 = a2
  i1 = i1
  i2 = i2
  k1 = k1
  v1 = v1
  v2 = v2
  addr = addr
  b1 = b1
  Actors = {a1}
  ItemIds = {i1, Nil}
  Cents = {5}
  TagKeys = {k1}
  TagValues = {v1, v2}
  Addresses = {addr}
  Billings = {b1}
  SnapshotInterval = 2
  Commands <- EveryKind
  StoreKinds = {"memory", "bolt", "cloud"}
  Faults = {"save"}
  MaxVersion = 6
INVARIANTS
  SnapshotInWindow
PROPERTIES
  ViewsConverge
CHECK_DEADLOCK FALSE
