CONSTANTS
  NumObjects = 4
  Types <- BaseTypes
  Functions <- IOFunctions
  Relations <- AnyRelation
SPECIFICATION SortSpec
CHECK_DEADLOCK FALSE
INVARIANTS
  SortedAfterDependencies
  FailsOnCirclesOnly
  TiersFollowDependencies
  CohortsAreComponents
