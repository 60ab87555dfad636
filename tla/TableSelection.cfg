CONSTANTS
  Worlds <- MCWorlds
SPECIFICATION SelectionSpec
INVARIANTS
  RowsExactlyOnce
  MetadataClosed
CHECK_DEADLOCK FALSE
