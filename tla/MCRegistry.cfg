SPECIFICATION MCSpec
CONSTANTS
  Key = {k1, k2, k3, k4}
  NULL = NULL
  Name = {"a", "A"}
  Fold <- MCFold
  Type = {"int", "nodata"}
  Octet = {1}
  Default <- MCDefault
  MaxPath = 2
  MaxSaved = 4
INVARIANTS
  TreeOK
PROPERTIES
  SavedIsLoaded
  SetsItsPath
