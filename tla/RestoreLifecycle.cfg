CONSTANTS
  Commands <- MCCommands
  Backups <- MCBackups
  DataEntries <- MCDataEntries
  Predata <- MCPredata
  Postdata <- MCPostdata
  Statistics <- MCStatistics
  NumConns = 2
  MaxFailures = 2
SPECIFICATION Spec
INVARIANTS
  SuccessIsComplete
  PostdataInOrder
  ErrorTablesListed
  NoHelperLeft
PROPERTIES
  RestoreProcessEnds
