CONSTANTS
  Codes <- MCCodes
  CacheSize = 4
  MaxDistance = 2
  Queries = {0, 1, 2, 3, 4, 5, 6, 7, 9}
SPECIFICATION Spec
INVARIANT DeclReadMatchesLinearScan
