CONSTANTS
  NumTables = 2
  NumWorkers = 2
  Faults <- AllFaults
SPECIFICATION FairSpec
INVARIANTS
  AllTablesBackedUp
  CopyProtected
PROPERTIES
  KeepsPromise
  FinishesUnlessPanic
CHECK_DEADLOCK FALSE
