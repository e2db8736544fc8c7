------------------------------- MODULE Reader -------------------------------
(***************************************************************************)
(* reader.c / reader.h: the byte cursor's integer decoders.                *)
(*                                                                         *)
(* A w-bit value is the set of positions of its 1 bits, a subset of        *)
(* 0..w-1: a bitwise OR is a union and a shift moves positions.  This      *)
(* keeps the 32- and 64-bit widths of the C code without computing with    *)
(* numbers TLC cannot hold.  Bytes are naturals below 256.                 *)
(*                                                                         *)
(* Shifts whose result the C standard leaves undefined (an int shifted by  *)
(* 32 or more, or into its sign bit) are given the outcome the x86 build   *)
(* produces: SHL masks the count to 5 (32-bit) or 6 (64-bit) bits and the  *)
(* 32-bit pattern is kept.                                                 *)
(***************************************************************************)
EXTENDS Naturals, Sequences

\* Bit k of the natural n is set.
Bit(n, k) == (n \div 2^k) % 2 = 1

\* The w-bit value of the natural n.
BitsOf(n, w) == {k \in 0..(w - 1) : Bit(n, k)}

\* x << c computed in a w-bit register: bits shifted past w - 1 are lost.
ShiftLeft(x, c, w) == {k + c : k \in x} \cap 0..(w - 1)

\* Conversion of a w-bit two's complement value to 64 bits.
SignExtend(x, w) == IF (w - 1) \in x THEN x \cup w..63 ELSE x

\* The uint8_t shift of both LEB128 loops before the i-th byte is read.
ShiftAt(i) == (7 * (i - 1)) % 256

-----------------------------------------------------------------------------
(* Seeded fault: the continuation bit is not masked off.                   *)
ULEBTermUnmasked(byte, shift) ==
  SignExtend(ShiftLeft(BitsOf(byte, 8), shift % 32, 32), 32)

(* reader_read_uleb128, one iteration: (byte & (~0x80)) << shift is        *)
(* evaluated in int (byte is promoted, ~0x80 is an int), then converted   *)
(* to uint64_t by |=, which sign-extends.                                 *)
ULEBTerm(byte, shift) ==
  SignExtend(ShiftLeft(BitsOf(byte % 128, 7), shift % 32, 32), 32)

(* reader_read_uleb128: OR of the terms of every byte up to and including *)
(* the first one without the continuation bit 0x80.                       *)
ReadULEB128(bytes) ==
  UNION {ULEBTerm(bytes[i], ShiftAt(i)) : i \in 1..Len(bytes)}

(* Seeded fault: the sign is taken from bit 7 (0x80) of the last byte.     *)
ReadSLEB128SignBit7(bytes) ==
  LET n     == Len(bytes)
      shift == ShiftAt(n + 1)
      r     == UNION {ShiftLeft(BitsOf(bytes[i] % 128, 7), ShiftAt(i) % 64, 64) :
                      i \in 1..n}
  IN IF shift < 64 /\ Bit(bytes[n], 7) THEN r \cup (shift % 32)..63 ELSE r

(* reader_read_sleb128: ((uint64_t)(byte & 0x7f)) << shift per byte; then, *)
(* if shift < 64 and bit 0x40 of the last byte is set, result |=          *)
(* -(1 << shift): 1 << shift is an int, so the count is taken mod 32 and   *)
(* the negated 32-bit value (bits shift%32..31) is sign-extended.         *)
ReadSLEB128(bytes) ==
  LET n     == Len(bytes)
      shift == ShiftAt(n + 1)
      r     == UNION {ShiftLeft(BitsOf(bytes[i] % 128, 7), ShiftAt(i) % 64, 64) :
                      i \in 1..n}
  IN IF shift < 64 /\ Bit(bytes[n], 6) THEN r \cup (shift % 32)..63 ELSE r

(* Seeded fault: the bytes are combined in little-endian order whatever   *)
(* the reader's byte order.                                                *)
ReadNIgnoringOrder(bytes, n, lsb) ==
  UNION {ShiftLeft(BitsOf(bytes[i], 8), 8 * (i - 1), 64) : i \in 1..n}

(* reader_read_u8/u16/u32/u64: byte0 + (byte1<<8) + ... when reader->lsb  *)
(* is set, (byte0<<8*(n-1)) + ... + byte(n-1) otherwise; the shifted      *)
(* bytes do not overlap, so + is |.                                        *)
ReadN(bytes, n, lsb) ==
  UNION {ShiftLeft(BitsOf(bytes[i], 8), 8 * (IF lsb THEN i - 1 ELSE n - i), 64) :
           i \in 1..n}

(* Seeded fault: length 2 is not dispatched to reader_read_u16.           *)
ReadUNoU16(bytes, length, lsb) ==
  ReadN(bytes, IF length \in {1, 4} THEN length ELSE 8, lsb) \cap 0..31

(* reader_read_u: the read of the given length (8 for any length other    *)
(* than 1, 2 and 4) is stored in the uint32_t retval and returned as      *)
(* uint64_t.                                                               *)
ReadU(bytes, length, lsb) ==
  ReadN(bytes, IF length \in {1, 2, 4} THEN length ELSE 8, lsb) \cap 0..31

-----------------------------------------------------------------------------
(***************************************************************************)
(* Reference decoders (DWARF 2, section 7.6 and 7.5.4): what the spec      *)
(* requires the cursor to return, truncated to 64 bits.                    *)
(***************************************************************************)

\* Unsigned LEB128: 7-bit groups, least significant first.
RefULEB128(bytes) ==
  {k \in 0..63 : k \div 7 < Len(bytes) /\ Bit(bytes[k \div 7 + 1] % 128, k % 7)}

\* Signed LEB128: the groups, then bit 6 of the last group copied into
\* every higher bit.
RefSLEB128(bytes) ==
  RefULEB128(bytes) \cup
    (IF Bit(bytes[Len(bytes)], 6) THEN (7 * Len(bytes))..63 ELSE {})

\* An unsigned integer of length bytes in the reader's byte order: bit k
\* is bit k % 8 of the byte of significance k \div 8.
RefReadU(bytes, length, lsb) ==
  {k \in 0..(8 * length - 1) :
     Bit(bytes[IF lsb THEN k \div 8 + 1 ELSE length - k \div 8], k % 8)}

=============================================================================
