-------------------------------- MODULE Forms --------------------------------
(***************************************************************************)
(* dwarf2-info.c: the attribute decoders attr_read_entry calls for every   *)
(* attribute of a debugging information entry.  Each is a function of the  *)
(* unit header cuh ([start, info_start, str_start, address_size]), the     *)
(* form, the bytes b and the cursor i, and returns the value it stores and *)
(* the cursor after it.  ok = FALSE stands for an assert (false).          *)
(*                                                                         *)
(* The reference at the end encodes a value in a form as DWARF 2 section   *)
(* 7.5.4 lays it out.                                                      *)
(***************************************************************************)
EXTENDS Integers, Sequences, Bytes

\* enum attr_form_e.
DW_FORM ==
  [addr |-> 1, block2 |-> 3, block4 |-> 4, data2 |-> 5, data4 |-> 6,
   data8 |-> 7, string |-> 8, block |-> 9, block1 |-> 10, data1 |-> 11,
   flag |-> 12, sdata |-> 13, strp |-> 14, udata |-> 15, ref_addr |-> 16,
   ref1 |-> 17, ref2 |-> 18, ref4 |-> 19, ref8 |-> 20, ref_udata |-> 21,
   indirect |-> 22]

\* The names of enum attr_name_e that attr_read_entry decodes, and one it
\* skips.
DW_AT ==
  [name |-> 3, byte_size |-> 11, stmt_list |-> 16, low_pc |-> 17,
   high_pc |-> 18, comp_dir |-> 27, abstract_origin |-> 49,
   specification |-> 71]

\* reader_skip: moves the cursor only if n bytes are left.
Skip(b, i, n) == IF Len(b) + 1 - i >= n THEN i + n ELSE i

\* reader_read_u64, used directly for the 8-byte forms.
ReadU64(b, i) == [val |-> LE(b, i, 8), next |-> i + 8]

\* read_constant_form.  An sdata value is stored as a uint64_t; the model
\* keeps it signed (the same bits), as TLC's integers are 32-bit.
ReadConstantForm(cuh, form, b, i) ==
  CASE form = DW_FORM.data1 -> ReadU(b, i, 1)
    [] form = DW_FORM.data2 -> ReadU(b, i, 2)
    [] form = DW_FORM.data4 -> ReadU(b, i, 4)
    [] form = DW_FORM.data8 -> ReadU64(b, i)
    [] form = DW_FORM.sdata -> SLEB(b, i)
    [] form = DW_FORM.udata -> ULEB(b, i)
    [] OTHER                -> [val |-> 0, next |-> i]

\* read_ref_form: ref_addr is an offset from the start of .debug_info,
\* the other references are offsets from the start of the unit.
ReadRefForm(cuh, form, b, i) ==
  LET r == CASE form = DW_FORM.ref_addr  -> ReadU(b, i, cuh.address_size)
             [] form = DW_FORM.ref1      -> ReadU(b, i, 1)
             [] form = DW_FORM.ref2      -> ReadU(b, i, 2)
             [] form = DW_FORM.ref4      -> ReadU(b, i, 4)
             [] form = DW_FORM.ref8      -> ReadU64(b, i)
             [] form = DW_FORM.ref_udata -> ULEB(b, i)
             [] OTHER                    -> [val |-> 0, next |-> i]
      base == IF form = DW_FORM.ref_addr THEN cuh.info_start ELSE cuh.start
  IN [r EXCEPT !.val = base + @]

\* read_address_form: whatever the form, an address of address_size bytes.
ReadAddressForm(cuh, form, b, i) == ReadU(b, i, cuh.address_size)

\* read_string_form: the offset of an inline string (the cursor), or
\* str_start plus a 4-byte offset into .debug_str.
ReadStringForm(cuh, form, b, i) ==
  CASE form = DW_FORM.string -> [val |-> i, next |-> StrEnd(b, i), ok |-> TRUE]
    [] form = DW_FORM.strp ->
         [val |-> cuh.str_start + ReadU(b, i, 4).val, next |-> i + 4, ok |-> TRUE]
    [] OTHER -> [val |-> 0, next |-> i, ok |-> FALSE]

\* Seeded fault: DW_FORM_block2's length read as one byte.
SkipFormBlock2U8(cuh, form, b, i) ==
  LET len(n) == ReadU(b, i, n)
      asz    == cuh.address_size
  IN CASE form \in {DW_FORM.addr, DW_FORM.ref_addr} -> Skip(b, i, asz)
       [] form = DW_FORM.block  -> Skip(b, ULEB(b, i).next, ULEB(b, i).val)
       [] form = DW_FORM.block1 -> Skip(b, len(1).next, len(1).val)
       [] form = DW_FORM.block2 -> Skip(b, len(1).next, len(1).val)
       [] form = DW_FORM.block4 -> Skip(b, len(4).next, len(4).val)
       [] form \in {DW_FORM.data1, DW_FORM.flag, DW_FORM.ref1} -> Skip(b, i, 1)
       [] form \in {DW_FORM.data2, DW_FORM.ref2} -> Skip(b, i, 2)
       [] form \in {DW_FORM.data4, DW_FORM.strp, DW_FORM.ref4} -> Skip(b, i, 4)
       [] form \in {DW_FORM.data8, DW_FORM.ref8} -> Skip(b, i, 8)
       [] form \in {DW_FORM.sdata, DW_FORM.udata, DW_FORM.ref_udata} ->
            ULEB(b, i).next
       [] form = DW_FORM.string -> StrEnd(b, i)
       [] OTHER -> i

(***************************************************************************)
(* skip_form: the cursor after a value of the form.  A block's length is   *)
(* read first, then skipped.  DW_FORM_indirect asserts (attr_read_entry    *)
(* has asserted first); a form it does not know is skipped as nothing.     *)
(***************************************************************************)
SkipForm(cuh, form, b, i) ==
  LET len(n) == ReadU(b, i, n)
      asz    == cuh.address_size
  IN CASE form \in {DW_FORM.addr, DW_FORM.ref_addr} -> Skip(b, i, asz)
       [] form = DW_FORM.block  -> Skip(b, ULEB(b, i).next, ULEB(b, i).val)
       [] form = DW_FORM.block1 -> Skip(b, len(1).next, len(1).val)
       [] form = DW_FORM.block2 -> Skip(b, len(2).next, len(2).val)
       [] form = DW_FORM.block4 -> Skip(b, len(4).next, len(4).val)
       [] form \in {DW_FORM.data1, DW_FORM.flag, DW_FORM.ref1} -> Skip(b, i, 1)
       [] form \in {DW_FORM.data2, DW_FORM.ref2} -> Skip(b, i, 2)
       [] form \in {DW_FORM.data4, DW_FORM.strp, DW_FORM.ref4} -> Skip(b, i, 4)
       [] form \in {DW_FORM.data8, DW_FORM.ref8} -> Skip(b, i, 8)
       [] form \in {DW_FORM.sdata, DW_FORM.udata, DW_FORM.ref_udata} ->
            ULEB(b, i).next
       [] form = DW_FORM.string -> StrEnd(b, i)
       [] OTHER -> i

\* The field attr_read_entry stores r in, with the assert's outcome.
Stored(field, r, ok) == [field |-> field, val |-> r.val, next |-> r.next, ok |-> ok]

(***************************************************************************)
(* attr_read_entry: an indirect form is read from the data first; the      *)
(* attribute's name picks the decoder and the field; any other name is     *)
(* skipped, and asserts that its form is not indirect again.               *)
(***************************************************************************)
AttrReadEntry(cuh, attr, b, i) ==
  LET fr   == IF attr.form = DW_FORM.indirect THEN ULEB(b, i)
              ELSE [val |-> attr.form, next |-> i]
      form == fr.val
      j    == fr.next
      str  == ReadStringForm(cuh, form, b, j)
  IN CASE attr.name = DW_AT.stmt_list ->
            Stored("stmt_list", ReadConstantForm(cuh, form, b, j), TRUE)
       [] attr.name = DW_AT.comp_dir -> Stored("comp_dirname_offset", str, str.ok)
       [] attr.name = DW_AT.high_pc ->
            Stored("high_pc", ReadAddressForm(cuh, form, b, j), TRUE)
       [] attr.name = DW_AT.low_pc ->
            Stored("low_pc", ReadAddressForm(cuh, form, b, j), TRUE)
       [] attr.name = DW_AT.name -> Stored("name_offset", str, str.ok)
       [] attr.name = DW_AT.specification ->
            Stored("specification", ReadRefForm(cuh, form, b, j), TRUE)
       [] attr.name = DW_AT.abstract_origin ->
            Stored("abstract_origin", ReadRefForm(cuh, form, b, j), TRUE)
       [] OTHER ->
            [field |-> "none", val |-> 0,
             next |-> SkipForm(cuh, form, b, j), ok |-> form # DW_FORM.indirect]

(***************************************************************************)
(* Reference: DWARF 2 section 7.5.4.  The class of each form, the classes  *)
(* DWARF 2 allows for the attributes decoded, and the bytes of a value v   *)
(* in a form: a string of v characters, a block of v bytes, a number v.    *)
(***************************************************************************)
Class(form) ==
  CASE form = DW_FORM.addr -> "address"
    [] form \in {DW_FORM.block, DW_FORM.block1, DW_FORM.block2,
                 DW_FORM.block4} -> "block"
    [] form \in {DW_FORM.data1, DW_FORM.data2, DW_FORM.data4, DW_FORM.data8,
                 DW_FORM.sdata, DW_FORM.udata} -> "constant"
    [] form = DW_FORM.flag -> "flag"
    [] form \in {DW_FORM.string, DW_FORM.strp} -> "string"
    [] OTHER -> "reference"

AllowedClasses(name) ==
  CASE name = DW_AT.stmt_list -> {"constant"}
    [] name \in {DW_AT.name, DW_AT.comp_dir} -> {"string"}
    [] name \in {DW_AT.low_pc, DW_AT.high_pc} -> {"address"}
    [] name \in {DW_AT.specification, DW_AT.abstract_origin} -> {"reference"}
    [] OTHER -> {"address", "block", "constant", "flag", "string", "reference"}

RECURSIVE LEBytes(_, _)
LEBytes(v, n) == IF n = 0 THEN <<>> ELSE <<v % 256>> \o LEBytes(v \div 256, n - 1)

\* The shortest LEB128 encoding of v; signed when s.
RECURSIVE LEB128(_, _)
LEB128(v, s) ==
  LET low  == v % 128
      rest == (v - low) \div 128
      last == IF s THEN (rest = 0 /\ low < 64) \/ (rest = -1 /\ low >= 64)
              ELSE rest = 0
  IN IF last THEN <<low>> ELSE <<low + 128>> \o LEB128(rest, s)

\* The size in bytes of the forms of fixed size.
FixedSize(form, asz) ==
  CASE form \in {DW_FORM.addr, DW_FORM.ref_addr} -> asz
    [] form \in {DW_FORM.data1, DW_FORM.flag, DW_FORM.ref1} -> 1
    [] form \in {DW_FORM.data2, DW_FORM.ref2} -> 2
    [] form \in {DW_FORM.data4, DW_FORM.strp, DW_FORM.ref4} -> 4
    [] OTHER -> 8

Encode(form, v, asz) ==
  LET bytes(n, x) == [k \in 1..n |-> x]
  IN CASE form = DW_FORM.string -> bytes(v, 97) \o <<0>>
       [] form = DW_FORM.block  -> LEB128(v, FALSE) \o bytes(v, 255)
       [] form = DW_FORM.block1 -> LEBytes(v, 1) \o bytes(v, 255)
       [] form = DW_FORM.block2 -> LEBytes(v, 2) \o bytes(v, 255)
       [] form = DW_FORM.block4 -> LEBytes(v, 4) \o bytes(v, 255)
       [] form = DW_FORM.sdata  -> LEB128(v, TRUE)
       [] form \in {DW_FORM.udata, DW_FORM.ref_udata} -> LEB128(v, FALSE)
       [] OTHER -> LEBytes(v, FixedSize(form, asz))

\* What an attribute of each class denotes, for a value v encoded at
\* position p: the string's offset, the section offset of a reference.
Meaning(cuh, form, v, p) ==
  CASE form = DW_FORM.string   -> p
    [] form = DW_FORM.strp     -> cuh.str_start + v
    [] form = DW_FORM.ref_addr -> cuh.info_start + v
    [] Class(form) = "reference" -> cuh.start + v
    [] OTHER -> v

=============================================================================
