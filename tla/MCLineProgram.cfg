CONSTANTS
  MinInsnLength = 1
  DefaultIsStmt = TRUE
  LineBase <- MCLineBase
  LineRange = 14
  OpcodeBase = 14
  StdOpcodeLengths <- MCStdOpcodeLengths14
  TargetAddress = 17
  Headers <- MCHeaders
  Programs <- MCPrograms
  MaxInstrs = 3
  Alphabet <- ExtendedOps
SPECIFICATION Spec
CHECK_DEADLOCK FALSE
INVARIANT HeaderMatchesDWARF
PROPERTY ReadAllRowsReturns
