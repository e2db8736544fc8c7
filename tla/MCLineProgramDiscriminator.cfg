CONSTANTS
  MinInsnLength = 1
  DefaultIsStmt = TRUE
  LineBase <- MCLineBase
  LineRange = 14
  OpcodeBase = 13
  StdOpcodeLengths <- MCStdOpcodeLengths
  TargetAddress = 17
  Headers <- MCHeaders
  Programs <- MCPrograms
  MaxInstrs = 2
  Alphabet <- GCCOps
SPECIFICATION Spec
CHECK_DEADLOCK FALSE
INVARIANT RowsFollowTable
