CONSTANTS
  Worlds <- MCWorlds
  MaxFailures = 2
SPECIFICATION Spec
INVARIANTS
  ExitCodeMeaning
  FailuresContained
