----------------------------- MODULE ElfSections -----------------------------
(***************************************************************************)
(* debug-file.cc: how a DebugFile finds its DWARF sections in the mapped   *)
(* ELF file.  A file is a record                                           *)
(*   [ei_data, shstrndx, shnum, shdrs, str]                                *)
(* of the header fields e_ident[EI_DATA], e_shstrndx and e_shnum, the      *)
(* section header table (shdrs[k + 1] is section k, a record [name,        *)
(* offset, size, link] of sh_name, sh_offset, sh_size and sh_link), and    *)
(* str, the NUL-terminated string at each file offset, as one name.        *)
(***************************************************************************)
EXTENDS Integers, Sequences

SHN_LORESERVE == 65280   \* 0xff00
SHN_XINDEX    == 65535   \* 0xffff
ELFDATA2LSB   == 1

NoSection == -1          \* the null Shdr pointer FindSectionByName returns

\* Section k of the table (0-based, as in C).
Shdr(f, k) == f.shdrs[k + 1]

\* Seeded fault: SHN_XINDEX treated as any other reserved index.
NameSectionIndexNoXIndex(f) ==
  IF f.shstrndx < SHN_LORESERVE THEN f.shstrndx ELSE NoSection

\* The index FindSectionByName takes the section name table from, or
\* NoSection for a reserved e_shstrndx other than SHN_XINDEX.
NameSectionIndex(f) ==
  CASE f.shstrndx < SHN_LORESERVE -> f.shstrndx
    [] f.shstrndx = SHN_XINDEX    -> Shdr(f, 0).link
    [] OTHER                      -> NoSection

\* strBase + sh_name: the string at the name table's offset plus sh_name.
SectionName(f, k) == f.str[Shdr(f, NameSectionIndex(f)).offset + Shdr(f, k).name]

\* The loop of FindSectionByName from section i on, up to e_shnum.
RECURSIVE FindFrom(_, _, _)
FindFrom(f, name, i) ==
  CASE i >= f.shnum                -> NoSection
    [] SectionName(f, i) = name    -> i
    [] OTHER                       -> FindFrom(f, name, i + 1)

\* DebugFile::FindSectionByName: the first section of the name.
FindSectionByName(f, name) ==
  IF NameSectionIndex(f) = NoSection THEN NoSection ELSE FindFrom(f, name, 0)

\* DebugFile::InitializeSection: <<start, end>> of the section, <<0, 0>>
\* when there is none.
InitializeSection(f, name) ==
  LET k == FindSectionByName(f, name)
  IN IF k = NoSection THEN <<0, 0>>
     ELSE <<Shdr(f, k).offset, Shdr(f, k).offset + Shdr(f, k).size>>

\* DebugFile::CreateReader: the reader is little-endian only for
\* ELFDATA2LSB, big-endian for any other EI_DATA.
ReaderLsb(f) == f.ei_data = ELFDATA2LSB

(***************************************************************************)
(* The DebugFile constructor once open, fstat and mmap have succeeded:     *)
(* both readers are created, and the bounds of the three sections are      *)
(* looked up.                                                              *)
(***************************************************************************)
DebugFile(f) ==
  [lsb    |-> ReaderLsb(f),
   info   |-> InitializeSection(f, ".debug_info"),
   str    |-> InitializeSection(f, ".debug_str"),
   abbrev |-> InitializeSection(f, ".debug_abbrev")]

\* DebugFile::Iterate walks .debug_info only when no section is empty.
Iterates(df) == \A s \in {df.info, df.str, df.abbrev} : s[1] # s[2]

=============================================================================
