CONSTANTS
  NumStatements = 7
  NumObjects = 6
  Plans <- AllPlans
  Filters <- AllFilters
  ConnCounts <- JobCounts
  MaxFailures = 2
SPECIFICATION Spec
CHECK_DEADLOCK FALSE
INVARIANTS
  PrerequisitesThere
  NoLockContention
  AllRestored
PROPERTIES
  PredataEnds
