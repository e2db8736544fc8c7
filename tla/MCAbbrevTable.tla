--------------------------- MODULE MCAbbrevTable ---------------------------
(***************************************************************************)
(* One compile unit's abbreviation table and its cache, looked up with     *)
(* every sequence of codes from Queries: the cache state reached by any    *)
(* history of dwarf2_abbrev_decl_read calls is explored, not only the      *)
(* in-order histories a well-formed .debug_info produces.                  *)
(***************************************************************************)
EXTENDS AbbrevTable

CONSTANT Queries   \* codes looked up: present, absent and 0

\* A table whose codes alias in a 4-slot cache (1, 5, 9 and 2, 6) and are
\* not in increasing order, so a cached offset can lie past the code.
MCCodes == <<1, 2, 5, 6, 3, 9>>

VARIABLES
  cache,   \* abbrev_cu->cache
  last     \* the last lookup: its code and the offset found (0: assert)

vars == <<cache, last>>

\* dwarf2_abbrev_cu_initialize: the cache is zeroed; nothing looked up yet.
Init ==
  /\ cache = EmptyCache
  /\ last = [code |-> 0, offset |-> LinearScan(0)]

\* dwarf2_abbrev_decl_read for one code.
Lookup(code) ==
  LET r == DeclRead(cache, code)
  IN /\ cache' = r.cache
     /\ last' = [code |-> code, offset |-> r.offset]

Next == \E code \in Queries : Lookup(code)

Spec == Init /\ [][Next]_vars

\* The cache holds uint8_t keys below CACHE_SIZE and table offsets.
TypeOK ==
  /\ cache \in [Slots -> Entry]
  /\ last \in [code : Queries \cup {0}, offset : 0..Len(Codes)]

(***************************************************************************)
(* Whatever the history of lookups, the cached two-range scan of           *)
(* dwarf2_abbrev_decl_read finds the declaration a linear scan of the      *)
(* table finds, and asserts exactly when the code is not in the table: a   *)
(* stale backup slot, a key aliased by the uint8_t truncation, or a cached *)
(* offset past the declaration never loses or misplaces a code.           *)
(***************************************************************************)
DeclReadMatchesLinearScan == last.offset = LinearScan(last.code)

=============================================================================
