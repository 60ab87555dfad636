CONSTANTS
  Roles <- MCRoles
  Restorer = "gpadmin"
  Folds <- MCFolds
  Odd = {"b-b"}
  Catalogs <- MCCatalogs
SPECIFICATION PrivilegesSpec
INVARIANTS
  PrivilegesRestored
  DefaultsRestored
CHECK_DEADLOCK FALSE
