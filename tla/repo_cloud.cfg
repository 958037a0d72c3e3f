SPECIFICATION Spec
CONSTANTS
  Nil = Nil
  a1 = a1
  a2 = a2
  i1 = i1
  i2 = i2
  k1 = k1
  v1 = v1
  v2 = v2
  addr = addr
  b1 = b1
  Actors = {a1, a2}
  ItemIds = {i1}
  Cents = {5}
  TagKeys = {}
  TagValues = {}
  Addresses = {}
  Billings = {}
  SnapshotInterval = 3
  Commands <- Lifecycle
  StoreKinds = {"cloud"}
  Faults = {"load", "reply", "view", "crash"}
  MaxVersion = 5
INVARIANTS
  TypeOK
  VersionIsPosition
  SnapshotOnSchedule
  TailReplayIsFull
  AckedDurable
  ItemEventsAlternate
  LifeCycleInStream
  ViewIsPastState
  SummaryIsPastState
PROPERTIES
  SaveExtendsCurrentState
  ImplementsStream
SYMMETRY Symmetry
CHECK_DEADLOCK FALSE
