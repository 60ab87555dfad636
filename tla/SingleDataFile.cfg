CONSTANTS
  NumTables = 4
  NumWorkers = 1
  Sizes <- MixedSizes
  MaxLocked = 2
  Faults <- AllFaults
SPECIFICATION Spec
INVARIANTS
  EntriesDelimit
  PluginSuccessComplete
  OnlyTailAtRisk
PROPERTIES
  BackupSucceeds
CHECK_DEADLOCK FALSE
