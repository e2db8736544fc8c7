------------------------------ MODULE LoadMap ------------------------------
(***************************************************************************)
(* load-map.cc: a LoadMap is the list of modules of the dynamic loader's   *)
(* link_map chain, one Item <<filename, load_base>> per module.  Two maps  *)
(* are compared by filename only: load_base is ignored by Contains, so a   *)
(* module reloaded at another base under the same path is "unchanged".     *)
(*                                                                         *)
(* A link_map chain is a sequence of <<l_name, l_addr>> in l_next order;   *)
(* l_prev is 0 exactly for the head.  The main binary and the vdso have    *)
(* the empty l_name, Unnamed.                                              *)
(***************************************************************************)
EXTENDS Naturals, Sequences

CONSTANTS
  Unnamed,      \* the empty string "" of l_name
  ProcSelfExe   \* "/proc/self/exe"

\* The loop of LoadMap::Parse from the chain's i-th link on: an unnamed
\* head is the main binary, renamed; any other unnamed link is skipped
\* (continue); every other link becomes an Item <<l_name, l_addr>>.
RECURSIVE ParseFrom(_, _)
ParseFrom(chain, i) ==
  IF i > Len(chain) THEN << >>
  ELSE LET cur  == chain[i]
           rest == ParseFrom(chain, i + 1)
       IN CASE cur[1] = Unnamed /\ i = 1 -> <<<<ProcSelfExe, cur[2]>>>> \o rest
            [] cur[1] = Unnamed          -> rest
            [] OTHER                     -> <<cur>> \o rest

\* LoadMap::Parse, GetLinkMap having found the chain.
Parse(chain) == ParseFrom(chain, 1)

\* The filename of an Item <<filename, load_base>>.
FileName(item) == item[1]

\* LoadMap::Contains: some entry of map has the item's filename.
Contains(map, item) ==
  \E i \in 1..Len(map) : FileName(map[i]) = FileName(item)

\* LoadMap::GetEntriesAdded: the entries of new whose filename is not in
\* old, in the order of new.
GetEntriesAdded(new, old) ==
  SelectSeq(new, LAMBDA item : ~Contains(old, item))

\* LoadMap::GetEntriesDeleted: the entries of old whose filename is not in
\* new, in the order of old.
GetEntriesDeleted(new, old) ==
  SelectSeq(old, LAMBDA item : ~Contains(new, item))


(***************************************************************************)
(* LoadMap::GetLdDebug and GetChangeNotifierAddress: the loader's r_debug  *)
(* is found through the auxiliary vector.  An image is a record            *)
(*   [auxv, phdrs, dyn, r_brk]                                             *)
(* of the auxv_t entries <<a_type, a_val>> read from /proc/self/auxv in    *)
(* order, the program header tables (address -> sequence of <<p_type,      *)
(* p_vaddr>>), the dynamic arrays (address -> sequence of <<d_tag,         *)
(* d_ptr>>) and the r_brk of each r_debug (address -> r_brk).              *)
(***************************************************************************)
AT_PHDR == 3
AT_PHNUM == 5
PT_DYNAMIC == 2
DT_NULL == 0
DT_DEBUG == 21

\* The read loop over auxv: the last AT_PHDR or AT_PHNUM read wins; both
\* start at 0.
AuxvLast(auxv, type) ==
  LET is == {i \in 1..Len(auxv) : auxv[i][1] = type}
  IN IF is = {} THEN 0
     ELSE auxv[CHOOSE i \in is : \A j \in is : j <= i][2]

\* The inner loop from entry j: {d_ptr} of the first DT_DEBUG before
\* DT_NULL (the function returns it, even a null d_ptr), or {} when the
\* array ends first.
RECURSIVE DynFrom(_, _)
DynFrom(d, j) ==
  CASE d[j][1] = DT_NULL  -> {}
    [] d[j][1] = DT_DEBUG -> {d[j][2]}
    [] OTHER              -> DynFrom(d, j + 1)

\* Seeded fault: the DT_NULL terminator not honoured.
DynDebugNoTerminator(d) ==
  LET js == {j \in DOMAIN d : d[j][1] = DT_DEBUG}
  IN IF js = {} THEN {} ELSE {d[CHOOSE j \in js : \A k \in js : j <= k][2]}

\* The walk of one dynamic array.
DynDebug(d) == DynFrom(d, 1)

\* The outer loop from program header i: each PT_DYNAMIC's array, read at
\* p_vaddr as it stands, is searched; the first DT_DEBUG found returns.
RECURSIVE PhdrFrom(_, _, _, _)
PhdrFrom(img, phdr, phnum, i) ==
  IF i >= phnum THEN 0
  ELSE LET h == img.phdrs[phdr][i + 1]
           r == IF h[1] = PT_DYNAMIC THEN DynDebug(img.dyn[h[2]]) ELSE {}
       IN IF r # {} THEN CHOOSE p \in r : TRUE
          ELSE PhdrFrom(img, phdr, phnum, i + 1)

\* LoadMap::GetLdDebug: the r_debug pointer, or 0.
GetLdDebug(img) ==
  PhdrFrom(img, AuxvLast(img.auxv, AT_PHDR), AuxvLast(img.auxv, AT_PHNUM), 0)

\* LoadMap::GetChangeNotifierAddress: debug->r_brk, with no check that
\* GetLdDebug found one (a null dereference, SIGSEGV, when it did not).
GetChangeNotifierAddress(img) ==
  IF GetLdDebug(img) = 0 THEN "SIGSEGV" ELSE img.r_brk[GetLdDebug(img)]

=============================================================================
