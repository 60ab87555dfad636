CONSTANTS
  heap = heap
  leaf = leaf
  root = root
  noRoot = noRoot
  everything = everything
  onlyLeaf = onlyLeaf
  Tables <- MCTables
  AOTables <- MCAOTables
  PartitionRoot <- MCPartitionRoot
  NoRoot = noRoot
  Signatures <- MCSignatures
  Included <- MCIncluded
  MaxTimestamp = 3
  MaxTick = 3
  MaxRunning = 1
  MaxFaults = 0
SPECIFICATION Spec
INVARIANTS
  RestoreIsSnapshot
  FilteredRestore
  IncrementalRestoreAdvances
CHECK_DEADLOCK FALSE
