CONSTANTS
  Faults <- AllFaults
SPECIFICATION FairSpec
INVARIANTS
  SuccessIsReal
  CleanExit
  NoOrphanHelpers
PROPERTIES
  SignalEnds
