\* Eight-byte reads, as for DW_FORM_addr with address_size 8.
CONSTANTS
  MaxLEB = 1
  Lengths = {8}
SPECIFICATION Spec
INVARIANT ReadUDecodesReference
