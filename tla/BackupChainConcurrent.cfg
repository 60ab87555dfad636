CONSTANTS
  heap = heap
  leaf = leaf
  root = root
  noRoot = noRoot
  everything = everything
  onlyLeaf = onlyLeaf
  Tables <- MCTables
  AOTables <- MCAOTables
  PartitionRoot <- MCPartitionRoot
  NoRoot = noRoot
  Signatures <- MCOneSignature
  Included <- MCIncluded
  MaxTimestamp = 2
  MaxTick = 3
  MaxRunning = 2
  MaxFaults = 1
SPECIFICATION Spec
INVARIANTS
  RestoreIsSnapshot
PROPERTIES
  KeepsArchive
CHECK_DEADLOCK FALSE
