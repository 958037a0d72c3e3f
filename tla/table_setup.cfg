SPECIFICATION FairSpec
CONSTANTS
  p1 = p1
  p2 = p2
  Processes <- MCProcesses
  Providers <- MCProviders
  Faults <- MCFaults
  MaxCommands = 4
INVARIANTS
  TypeOK
  SuccessMeansTables
  SettingsComplete
  RacersSucceed
  DeletionReleased
PROPERTY
  CommandsReturn
CHECK_DEADLOCK FALSE
