CONSTANTS
  Sizes <- MixedSizes
  Entries <- Filtered
  Batches = 2
  NumConns = 2
  Setups <- AllSetups
  Faults <- AllFaults
SPECIFICATION Spec
INVARIANTS
  RightBytes
  FailuresContained
  AllRestored
PROPERTIES
  RestoreEnds
