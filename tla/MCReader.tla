------------------------------ MODULE MCReader ------------------------------
(***************************************************************************)
(* Checks the cursor's decoders against the reference decoders on every    *)
(* input built from small byte alphabets.  The decoders are functions of   *)
(* their input, so the state is the input and nothing changes it.          *)
(*                                                                         *)
(* LEB128 encodings are MaxLEB or fewer bytes: continuation bytes from     *)
(* Cont, a last byte from Last.  The alphabets reach every group value's   *)
(* edge: 0, the low bit, bit 3 (which lands on bit 31 in the fifth group), *)
(* the sign bit 0x40 and all ones.  Raw reads take 8 bytes of 0x00, 0x01,  *)
(* 0x80 or 0xff and each length in Lengths, in both byte orders.           *)
(***************************************************************************)
EXTENDS Reader

CONSTANTS MaxLEB, Lengths

Cont == {128, 129, 255}
Last == {0, 8, 64, 127}
Raw  == {0, 1, 128, 255}

\* Every LEB128 encoding of 1..MaxLEB bytes over the alphabets.
Encodings ==
  UNION {{[i \in 1..k |-> IF i < k THEN c[i] ELSE t] :
            c \in [1..(k - 1) -> Cont], t \in Last} : k \in 1..MaxLEB}

\* Eight bytes at the cursor, at most two of them non-zero.
RawBytes ==
  {[i \in 1..8 |-> IF i = p THEN x ELSE IF i = q THEN y ELSE 0] :
     p \in 1..8, q \in 1..8, x \in Raw, y \in Raw}

F == INSTANCE Forms

(***************************************************************************)
(* Attributes: every name attr_read_entry decodes and DW_AT_byte_size,     *)
(* which it skips, in every DWARF 2 form of a class DWARF 2 allows for the *)
(* name, direct or through DW_FORM_indirect, in units with 4- and 8-byte   *)
(* addresses.  Values: 0, a one-group and a two-group LEB128, one above    *)
(* 2^16 and a negative sdata; strings and blocks of up to 130 bytes.       *)
(***************************************************************************)
Cuhs == [start : {1000}, info_start : {100}, str_start : {5000},
         address_size : {4, 8}]
FormValues == {0, 3, 130, 70000, 0 - 3}

Fits(form, v) ==
  CASE form = F!DW_FORM.sdata -> TRUE
    [] F!Class(form) \in {"block", "string"} -> v \in 0..130
    [] form \in {F!DW_FORM.udata, F!DW_FORM.ref_udata} -> v >= 0
    [] OTHER -> v >= 0 /\ (F!FixedSize(form, 4) < 4 => v < 256^F!FixedSize(form, 4))

AttrInputs ==
  {a \in [kind : {"attr"}, cuh : Cuhs,
          name : {F!DW_AT[n] : n \in DOMAIN F!DW_AT},
          form : {F!DW_FORM[f] : f \in DOMAIN F!DW_FORM} \ {F!DW_FORM.indirect},
          indirect : BOOLEAN, value : FormValues] :
     Fits(a.form, a.value) /\ F!Class(a.form) \in F!AllowedClasses(a.name)}

\* The bytes of an attribute's value, and what follows it in the unit.
Prefix(a) == IF a.indirect THEN F!LEB128(a.form, FALSE) ELSE <<>>
Value(a)  == F!Encode(a.form, a.value, a.cuh.address_size)
Pad       == [k \in 1..8 |-> 90]

B == INSTANCE Bytes

(***************************************************************************)
(* Packed BCD: every value of 2 (u8) and 4 (u16) decimal digits, two       *)
(* digits per byte, the high digit in the high nibble, the bytes in the    *)
(* reader's byte order.                                                    *)
(***************************************************************************)
PackBCD(v, n, lsb) ==
  LET digit(k) == (v \div (10^k)) % 10
      byte(j)  == digit(2 * j) + 16 * digit(2 * j + 1)
  IN IF lsb THEN [m \in 1..n |-> byte(m - 1)] ELSE [m \in 1..n |-> byte(n - m)]

BCDInputs ==
  UNION {[kind : {"bcd"}, length : {n}, value : 0..(10^(2 * n) - 1),
          lsb : BOOLEAN] : n \in {1, 2}}

E == INSTANCE ElfSections

(***************************************************************************)
(* ELF files of one to three sections.  Two name tables lie at file        *)
(* offsets 0 and 2 and name the debug sections differently; every section *)
(* starts at 0 or 2, has 1 or 2 bytes and a name offset of 0 or 1, and     *)
(* e_shstrndx names a section directly, through section 0's sh_link        *)
(* (SHN_XINDEX), or is reserved.  e_shnum counts the table.                *)
(***************************************************************************)
NameTables == [o \in 0..3 |-> CASE o = 0 -> ".debug_info"
                                [] o = 1 -> ".debug_str"
                                [] o = 2 -> ".debug_abbrev"
                                [] OTHER -> ".debug_info"]
ElfShdrs(n) ==
  {t \in [1..n -> [name : {0, 1}, offset : {0, 2}, size : {1, 2}, link : 0..2]] :
     \A k \in 2..n : t[k].link = 0}
ElfInputs ==
  {f \in UNION {[kind : {"elf"}, ei_data : {1, 2}, shnum : {n},
                 shstrndx : {0, 1, 2, E!SHN_LORESERVE, E!SHN_XINDEX},
                 shdrs : ElfShdrs(n), str : {NameTables}] : n \in 1..3} :
     E!NameSectionIndex(f) \in {E!NoSection} \cup 0..(f.shnum - 1)}

L == INSTANCE LoadMap WITH Unnamed <- "", ProcSelfExe <- "/proc/self/exe"

(***************************************************************************)
(* Executables linked at their load address (ET_EXEC): /proc/self/auxv     *)
(* gives AT_PHDR 100 and AT_PHNUM in either order, with AT_PAGESZ and the  *)
(* closing AT_NULL; the program header table at 100 has one to three       *)
(* entries, exactly one PT_DYNAMIC (at 200) among PT_LOAD and PT_NOTE; the *)
(* dynamic array at 200 has one to four entries of DT_NULL, DT_NEEDED and  *)
(* DT_DEBUG (pointing to the r_debug at 300 or 400), a DT_NULL among them, *)
(* and what follows the first DT_NULL is other memory.                     *)
(***************************************************************************)
PhdrTables ==
  UNION {{[k \in 1..n |-> <<t[k], IF t[k] = L!PT_DYNAMIC THEN 200 ELSE 0>>] :
            t \in {t \in [1..n -> {1, L!PT_DYNAMIC, 4}] :
                     \E k \in 1..n : \A j \in 1..n : t[j] = L!PT_DYNAMIC <=> j = k}} :
           n \in 1..3}
DynArrays ==
  {d \in UNION {[1..n -> {<<L!DT_NULL, 0>>, <<1, 0>>, <<L!DT_DEBUG, 300>>,
                          <<L!DT_DEBUG, 400>>}] : n \in 1..4} :
     \E j \in DOMAIN d : d[j][1] = L!DT_NULL}
Auxvs(n) == {<<<<L!AT_PHDR, 100>>, <<L!AT_PHNUM, n>>, <<6, 4096>>, <<0, 0>>>>,
             <<<<L!AT_PHNUM, n>>, <<6, 4096>>, <<L!AT_PHDR, 100>>, <<0, 0>>>>}
LdsoInputs ==
  UNION {[kind : {"ldso"}, auxv : Auxvs(Len(t)), phdrs : {[a \in {100} |-> t]},
          dyn : {[a \in {200} |-> d] : d \in DynArrays},
          r_brk : {[a \in {300, 400} |-> a \div 10 + 1]}] : t \in PhdrTables}

Inputs ==
  LdsoInputs \cup ElfInputs \cup BCDInputs \cup
  [kind : {"uleb", "sleb"}, bytes : Encodings] \cup
  [kind : {"u"}, bytes : RawBytes, length : Lengths, lsb : BOOLEAN] \cup
  AttrInputs

VARIABLE input

Init == input \in Inputs
Next == UNCHANGED input
Spec == Init /\ [][Next]_input

(* reader_read_uleb128 returns the value the encoding denotes, for every   *)
(* encoding (spec: decodeULEB128(encodeULEB128(n)) = n for all n < 2^64).  *)
ULEBDecodesReference ==
  input.kind = "uleb" => ReadULEB128(input.bytes) = RefULEB128(input.bytes)

(* reader_read_sleb128 returns the value the encoding denotes, sign bit    *)
(* 0x40 of the last group extended (spec: the analogous signed round      *)
(* trip, negative values included).                                       *)
SLEBDecodesReference ==
  input.kind = "sleb" => ReadSLEB128(input.bytes) = RefSLEB128(input.bytes)

(* reader_read_u returns the unsigned integer of the requested length in  *)
(* the reader's byte order (used for target-sized addresses and           *)
(* DW_FORM_ref_addr).                                                      *)
ReadUDecodesReference ==
  input.kind = "u" =>
    ReadU(input.bytes, input.length, input.lsb) =
      RefReadU(input.bytes, input.length, input.lsb)

(* reader_read_u8bcd and reader_read_u16bcd return the number the packed  *)
(* decimal digits denote and move past them, in both byte orders (the      *)
(* code's comments call both "probably wrong" and "untested").            *)
BCDDecodesReference ==
  input.kind = "bcd" =>
    LET bytes == PackBCD(input.value, input.length, input.lsb)
        r     == IF input.length = 1 THEN B!ReadU8BCD(bytes, 1, input.lsb)
                 ELSE B!ReadU16BCD(bytes, 1, input.lsb)
    IN r = [val |-> input.value, next |-> 1 + input.length]

(* attr_read_entry consumes exactly the bytes of the attribute's value,   *)
(* stores what it denotes in the field of its name, and asserts nothing,  *)
(* for every DWARF 2 form the name allows: a decoder that reads a wrong   *)
(* length leaves dwarf2_info_entry_read's cursor inside the value, and    *)
(* every later attribute and entry of the unit is misread.                *)
AttrReadEntryDecodes ==
  input.kind = "attr" =>
    LET a    == input
        form == IF a.indirect THEN F!DW_FORM.indirect ELSE a.form
        r    == F!AttrReadEntry(a.cuh, [name |-> a.name, form |-> form],
                                Prefix(a) \o Value(a) \o Pad, 1)
    IN /\ r.ok
       /\ r.next = 1 + Len(Prefix(a)) + Len(Value(a))
       /\ r.field # "none" =>
            r.val = F!Meaning(a.cuh, a.form, a.value, 1 + Len(Prefix(a)))


(* DebugFile finds each DWARF section as the ELF gABI defines it: the      *)
(* first section, in table order, whose sh_name read in the section name   *)
(* table (e_shstrndx, or section 0's sh_link when e_shstrndx is            *)
(* SHN_XINDEX) is the name; none when e_shstrndx is otherwise reserved.    *)
(* Its readers are little-endian exactly for ELFDATA2LSB, and Iterate      *)
(* walks the file only when all three sections are non-empty.              *)
DebugFileFindsSections ==
  input.kind = "elf" =>
    LET f        == input
        names    == IF f.shstrndx = E!SHN_XINDEX THEN f.shdrs[1].link
                    ELSE f.shstrndx
        named(n) == {k \in 0..(Len(f.shdrs) - 1) :
                       /\ f.shstrndx # E!SHN_LORESERVE
                       /\ f.str[f.shdrs[names + 1].offset + f.shdrs[k + 1].name] = n}
        ref(n)   == IF named(n) = {} THEN <<0, 0>>
                    ELSE LET h == f.shdrs[1 + CHOOSE k \in named(n) :
                                                \A j \in named(n) : k <= j]
                         IN <<h.offset, h.offset + h.size>>
        df       == E!DebugFile(f)
    IN /\ df = [lsb |-> f.ei_data = 1, info |-> ref(".debug_info"),
                str |-> ref(".debug_str"), abbrev |-> ref(".debug_abbrev")]
       /\ E!Iterates(df) <=> \A n \in {".debug_info", ".debug_str", ".debug_abbrev"} :
                               named(n) # {}


(* The hook on the loader's "link map changed" notifier is planted at the  *)
(* r_brk of the r_debug that the executable's dynamic section names: the   *)
(* d_ptr of the first DT_DEBUG entry before the DT_NULL that ends the      *)
(* dynamic array (ELF gABI), found by GetLdDebug through AT_PHDR, AT_PHNUM *)
(* and the PT_DYNAMIC program header; 0 when the array has none.           *)
NotifierFollowsDynamicSection ==
  input.kind = "ldso" =>
    LET d      == input.dyn[200]
        stop   == CHOOSE j \in DOMAIN d :
                    d[j][1] = L!DT_NULL /\ \A k \in 1..(j - 1) : d[k][1] # L!DT_NULL
        debugs == {j \in 1..(stop - 1) : d[j][1] = L!DT_DEBUG}
        ref    == IF debugs = {} THEN 0
                  ELSE d[CHOOSE j \in debugs : \A k \in debugs : j <= k][2]
    IN /\ L!GetLdDebug(input) = ref
       /\ ref # 0 => L!GetChangeNotifierAddress(input) = input.r_brk[ref]

=============================================================================
