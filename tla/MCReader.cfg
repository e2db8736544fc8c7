\* LEB128 encodings of up to 4 bytes (values below 2^28) and reads of
\* 1, 2 and 4 bytes.
CONSTANTS
  MaxLEB = 4
  Lengths = {1, 2, 4}
SPECIFICATION Spec
INVARIANT ULEBDecodesReference
INVARIANT SLEBDecodesReference
INVARIANT ReadUDecodesReference
INVARIANT AttrReadEntryDecodes
INVARIANT BCDDecodesReference
INVARIANT DebugFileFindsSections
INVARIANT NotifierFollowsDynamicSection
