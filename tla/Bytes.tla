-------------------------------- MODULE Bytes --------------------------------
(***************************************************************************)
(* The cursor reads used by the DWARF decoders, on a byte sequence b       *)
(* indexed from 1, in the little-endian order of x86.  Each read returns   *)
(* [val, next]: the value and the offset after it.  A read past the end of *)
(* b reads 0 (the next unit or the end of the mapped file: the reader      *)
(* checks no bound).  Reader.tla checks the decoders bit by bit; here they *)
(* are numbers, for values where the two agree.                            *)
(***************************************************************************)
EXTENDS Integers, Sequences, FiniteSets

At(b, i) == IF i \in 1..Len(b) THEN b[i] ELSE 0

\* Little-endian value of n bytes from i.
RECURSIVE LE(_, _, _)
LE(b, i, n) == IF n = 0 THEN 0 ELSE At(b, i) + 256 * LE(b, i + 1, n - 1)

\* reader_read_u: sizes other than 1, 2 and 4 read eight bytes, and the
\* uint32_t result keeps the first four of them.
ReadU(b, i, n) ==
  LET k == IF n \in {1, 2, 4} THEN n ELSE 8
  IN [val |-> LE(b, i, IF k = 8 THEN 4 ELSE k), next |-> i + k]

RECURSIVE ULEB(_, _)
ULEB(b, i) ==
  IF At(b, i) < 128 THEN [val |-> At(b, i), next |-> i + 1]
  ELSE LET r == ULEB(b, i + 1)
       IN [val |-> At(b, i) - 128 + 128 * r.val, next |-> r.next]

SLEB(b, i) ==
  LET u == ULEB(b, i)
  IN [val  |-> IF At(b, u.next - 1) % 128 >= 64
               THEN u.val - 2^(7 * (u.next - i)) ELSE u.val,
      next |-> u.next]

\* Offset just past the zero that ends the string at i.
RECURSIVE StrEnd(_, _)
StrEnd(b, i) == IF At(b, i) = 0 THEN i + 1 ELSE StrEnd(b, i + 1)

\* The offset after n ULEBs from i: each ends at a byte below 128, and past
\* the end every byte is 0.
SkipULEBs(b, i, n) ==
  LET ends == {j \in i..Len(b) : b[j] < 128}
  IN IF Cardinality(ends) >= n
     THEN 1 + CHOOSE j \in ends \cup {i - 1} :
                Cardinality({k \in ends : k <= j}) = n
     ELSE Len(b) + 1 + n - Cardinality(ends)

\* The nibbles of the n bytes from i, low nibble first: bcd0, bcd1, ...
Nibbles(b, i, n) ==
  [k \in 0..(2 * n - 1) |->
     IF k % 2 = 0 THEN At(b, i + k \div 2) % 16 ELSE At(b, i + k \div 2) \div 16]

\* reader_read_u8bcd: both byte orders give bcd0 + bcd1 * 10; all ones,
\* and no move, when no byte is left.
ReadU8BCD(b, i, lsb) ==
  IF Len(b) + 1 - i < 1 THEN [val |-> 255, next |-> i]
  ELSE LET d == Nibbles(b, i, 1) IN [val |-> d[0] + d[1] * 10, next |-> i + 1]

\* Seeded fault: the most significant byte's nibbles taken in the wrong
\* order.
ReadU16BCDNibblesSwapped(b, i, lsb) ==
  IF Len(b) + 1 - i < 2 THEN [val |-> 65535, next |-> i]
  ELSE LET d == Nibbles(b, i, 2)
       IN [val  |-> IF lsb THEN d[0] + d[1] * 10 + d[2] * 100 + d[3] * 1000
                    ELSE d[0] * 1000 + d[1] * 100 + d[3] * 10 + d[2],
           next |-> i + 2]

\* reader_read_u16bcd: the digits of the first byte are the low ones in
\* the lsb order, the high ones otherwise.
ReadU16BCD(b, i, lsb) ==
  IF Len(b) + 1 - i < 2 THEN [val |-> 65535, next |-> i]
  ELSE LET d == Nibbles(b, i, 2)
       IN [val  |-> IF lsb THEN d[0] + d[1] * 10 + d[2] * 100 + d[3] * 1000
                    ELSE d[1] * 1000 + d[0] * 100 + d[3] * 10 + d[2],
           next |-> i + 2]

=============================================================================
