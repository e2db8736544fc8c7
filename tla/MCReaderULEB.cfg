\* Five-byte unsigned LEB128 encodings: the fifth group lands on bits 28..34.
CONSTANTS
  MaxLEB = 5
  Lengths = {4}
SPECIFICATION Spec
INVARIANT ULEBDecodesReference
