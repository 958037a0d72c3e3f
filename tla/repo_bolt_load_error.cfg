SPECIFICATION Spec
CONSTANTS
  Nil = Nil
  a1 = a1
  a2 = a2
  i1 = i1
  i2 = i2
  k1 = k1
  v1 = v1
  v2 = v2
  addr = addr
  b1 = b1
  Actors = {a1}
  ItemIds = {i1}
  Cents = {5}
  TagKeys = {}
  TagValues = {}
  Addresses = {}
  Billings = {}
  SnapshotInterval = 2
  Commands <- Lifecycle
  StoreKinds = {"bolt"}
  Faults = {"load"}
  MaxVersion = 4
PROPERTIES
  CreationOnlyWhenAbsent
CHECK_DEADLOCK FALSE
