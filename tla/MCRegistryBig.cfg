SPECIFICATION MCSpec
CONSTANTS
  Key = {k1, k2, k3}
  NULL = NULL
  Name = {"a"}
  Fold <- MCFold
  Type = {"big"}
  Octet = {1}
  Default <- MCDefault
  MaxPath = 2
  MaxSaved = 2
INVARIANTS
  BigIsStoredWhole
