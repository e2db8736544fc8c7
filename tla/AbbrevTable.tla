---------------------------- MODULE AbbrevTable ----------------------------
(***************************************************************************)
(* dwarf2-abbrev.c: the abbreviation table of one compile unit and its     *)
(* lookup cache.                                                           *)
(*                                                                         *)
(* The table is the sequence Codes of the abbreviation codes of its        *)
(* declarations, in file order, followed by the terminating code 0.  An    *)
(* offset is the position of a declaration: the table starts at 1         *)
(* (abbrev_cu->start), the terminator is at Len(Codes) + 1, and offset 0   *)
(* is the start of the file, where the zero-filled cache points.  The      *)
(* cache has CacheSize slots (CACHE_SIZE, also the range of the uint8_t    *)
(* key) and the backup search looks at most MaxDistance slots down.        *)
(***************************************************************************)
EXTENDS Naturals, Sequences, FiniteSets

CONSTANTS
  Codes,        \* abbreviation codes of the unit's declarations, in order
  CacheSize,    \* CACHE_SIZE
  MaxDistance   \* the bound 20 of cache_try_lookup's backup search

ASSUME Codes \in Seq(Nat \ {0}) /\ CacheSize \in Nat \ {0}
ASSUME MaxDistance \in Nat

Start == 1                 \* abbrev_cu->start
End   == Len(Codes) + 2    \* abbrev_cu->end: past the terminator
Slots == 0..(CacheSize - 1)
Entry == [key : Slots, occupied : BOOLEAN, value : 0..Len(Codes)]

\* cache_initialize: memset to 0.
EmptyCache == [s \in Slots |-> [key |-> 0, occupied |-> FALSE, value |-> 0]]

(***************************************************************************)
(* cache_try_lookup: the value of the key's slot if the slot's uint8_t key *)
(* equals the code; otherwise the value of the first occupied slot found   *)
(* walking down from the key's slot, at most MaxDistance slots and never   *)
(* slot 0; otherwise nothing (the caller keeps abbrev_cu->start).          *)
(***************************************************************************)
CacheTryLookup(cache, key) ==
  LET slot   == key % CacheSize
      backup == {s \in 1..slot : slot - s < MaxDistance /\ cache[s].occupied}
  IN IF cache[slot].key = key THEN cache[slot].value
     ELSE IF backup # {} THEN cache[CHOOSE s \in backup : \A r \in backup : r <= s].value
     ELSE Start

\* cache_try_add: overwrite the key's slot unless it already holds the value.
CacheTryAdd(cache, key, value) ==
  LET slot == key % CacheSize
  IN IF cache[slot].occupied /\ cache[slot].value = value THEN cache
     ELSE [cache EXCEPT ![slot] = [key |-> key % CacheSize, occupied |-> TRUE,
                                   value |-> value]]

(***************************************************************************)
(* search_abbrev_start_to_end: parse declarations from offset from while   *)
(* the offset is below to; code 0 ends the search (before the comparison,  *)
(* so code 0 is never found).  Returns the offset found, or 0.             *)
(***************************************************************************)
SearchAbbrev(code, from, to) ==
  LET stop  == {i \in from..(to - 1) : i = Len(Codes) + 1}
      limit == IF stop = {} THEN to ELSE Len(Codes) + 1
      hits  == {i \in 1..Len(Codes) : i >= from /\ i < limit /\ Codes[i] = code}
  IN IF code = 0 \/ hits = {} THEN 0
     ELSE CHOOSE i \in hits : \A j \in hits : i <= j

\* Seeded fault: no second search over [start, cached offset).
DeclReadNoWrap(cache, code) ==
  LET off   == CacheTryLookup(cache, code)
      first == SearchAbbrev(code, off, End)
  IN IF first # 0
     THEN [cache |-> CacheTryAdd(cache, code, first), offset |-> first]
     ELSE [cache |-> cache, offset |-> 0]

(***************************************************************************)
(* dwarf2_abbrev_decl_read: search from the cached offset to the end; if   *)
(* that fails and the cached offset was not the start, search from the     *)
(* start to the cached offset; cache what was found.  offset 0 stands for  *)
(* the assert (false) of the error label.                                  *)
(***************************************************************************)
DeclRead(cache, code) ==
  LET off    == CacheTryLookup(cache, code)
      first  == SearchAbbrev(code, off, End)
      second == SearchAbbrev(code, Start, off)
  IN CASE first # 0  -> [cache |-> CacheTryAdd(cache, code, first), offset |-> first]
       [] off = Start -> [cache |-> cache, offset |-> 0]
       [] second # 0 -> [cache |-> CacheTryAdd(cache, code, second), offset |-> second]
       [] OTHER      -> [cache |-> cache, offset |-> 0]

\* The declaration a linear scan of the table finds, or 0.
LinearScan(code) ==
  IF \E i \in 1..Len(Codes) : Codes[i] = code
  THEN CHOOSE i \in 1..Len(Codes) : Codes[i] = code
  ELSE 0

=============================================================================
