SPECIFICATION Spec
CONSTANTS
  Apps = {"order", "sample", "samplenosnapshot"}
  Clouds = {"dynamo", "cosmos"}
  Authorizers = {"allowall", "external"}
  Grants <- MCGrants
  Claimed = "alice"
  Traffic <- MCTraffic
  Ids <- MCIds
  Seed <- MCSeed
  StartTime = 12
  MaxRequests = 2
  SnapshotInterval = 2
  Nil = Nil
  item = item
  home = home
  card = card
  Actors <- MCActors
  ItemIds <- MCItemIds
  Cents <- MCCents
  TagKeys <- MCTagKeys
  TagValues <- MCTagValues
  Addresses <- MCAddresses
  Billings <- MCBillings
INVARIANTS
  TypeOK
  StoredAsGranted
  AnswersTellTheTruth
  ReadsAnswerTheQuestion
  LoadSeesAcknowledged
  QueryMeetsCondition
CHECK_DEADLOCK FALSE
