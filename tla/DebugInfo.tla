----------------------------- MODULE DebugInfo -----------------------------
(***************************************************************************)
(* dwarf2-info.c's dwarf2_info_iterate driving the visitor of              *)
(* DebugFile::Iterate (debug-file.cc), itself driving DebugFile::Lookup's  *)
(* MyIterator: the walk of .debug_info that resolves a qualified function  *)
(* name to the low_pc of every matching definition.                        *)
(*                                                                         *)
(* .debug_info is a sequence of units; a unit is a sequence of items, each *)
(* either the id of a debugging entry (a key of Catalogue) or Null, the    *)
(* null entry (a 0 byte).  An entry's abbreviation code is looked up in    *)
(* the unit's abbreviation table (AbbrevTable, with its cache) to get its  *)
(* tag and children flag; its attribute values (name, low_pc,              *)
(* abstract_origin, specification) come from the catalogue.  A reference   *)
(* is the id of the entry it points to.  Strings are sequences of          *)
(* characters, so "::" + n is Sep \o n and std::string::find is            *)
(* membership in SubSeqs.                                                  *)
(***************************************************************************)
EXTENDS Naturals, Sequences, SequencesExt, FiniteSets

CONSTANTS
  Decls,          \* the abbreviation table: <<[code, tag, children]>>
  Catalogue,      \* id -> [code, name, lowpc, ao, spec]
  NoAttr,         \* an attribute the entry does not carry
  TargetFile,     \* Lookup's filename argument, as characters
  TargetFunction, \* Lookup's function argument, as characters
  CacheSize, MaxDistance,
  Infos           \* the .debug_info sections walked

AT == INSTANCE AbbrevTable WITH Codes <- [i \in DOMAIN Decls |-> Decls[i].code]

\* The null entry: a 0 abbreviation code.
Null == "null"

Sep  == <<":", ":">>
Star == <<"*">>

VARIABLES
  info,    \* the section being walked
  u,       \* the current unit (current_cuh_start)
  pos,     \* the current item in it (reader1's offset)
  phase,   \* "unit" | "entry" | "zeros" | "done" | "assert" | "ub"
  cache,   \* cuh.abbrev_cu.cache
  mstack,  \* MyDwIter::m_stack of DwType
  lookup   \* MyIterator: [search, current, nstack, matches]

vars == <<info, u, pos, phase, cache, mstack, lookup>>

\* enum DwType: the scope kind pushed for an entry with children.
Kind(tag) ==
  CASE tag = "compile_unit" -> "CU"
    [] tag = "class_type"   -> "CLASS"
    [] tag = "namespace"    -> "NAMESPACE"
    [] tag = "subprogram"   -> "FUNCTION"
    [] OTHER                -> "UNKNOWN"

(***************************************************************************)
(* entry_read: the entry's abbreviation code is resolved by               *)
(* dwarf2_abbrev_decl_read (updating the cache), then its attributes are   *)
(* read; ok is FALSE where decl_read asserts.                              *)
(***************************************************************************)
EntryRead(c, id) ==
  LET code == IF id = Null THEN 0 ELSE Catalogue[id].code
      d    == AT!DeclRead(c, code)
  IN [cache |-> d.cache, ok |-> d.offset # 0,
      decl  |-> IF d.offset # 0 THEN Decls[d.offset] ELSE NoAttr,
      entry |-> IF id = Null THEN NoAttr ELSE Catalogue[id]]

(***************************************************************************)
(* dwarf2_info_entry_get_name: the entry's own name; otherwise read the    *)
(* abstract_origin entry if there is one, then the specification entry of *)
(* whatever entry is now held, and take that entry's name.  Two reads at   *)
(* most, not a recursion.                                                  *)
(***************************************************************************)
\* Seeded fault: the specification tested is the original entry's.
GetNameSpecOfOriginal(c, e) ==
  IF e.name # NoAttr THEN [cache |-> c, name |-> e.name]
  ELSE LET r1 == IF e.ao # NoAttr THEN EntryRead(c, e.ao)
                 ELSE [cache |-> c, entry |-> e]
           r2 == IF e.spec # NoAttr THEN EntryRead(r1.cache, e.spec) ELSE r1
       IN [cache |-> r2.cache, name |-> r2.entry.name]

GetName(c, e) ==
  IF e.name # NoAttr THEN [cache |-> c, name |-> e.name]
  ELSE LET r1 == IF e.ao # NoAttr THEN EntryRead(c, e.ao)
                 ELSE [cache |-> c, entry |-> e]
           r2 == IF r1.entry.spec # NoAttr THEN EntryRead(r1.cache, r1.entry.spec)
                 ELSE r1
       IN [cache |-> r2.cache, name |-> r2.entry.name]

\* MyDwIter::ReadEntryName: "" when get_name returns -1.
ReadEntryName(c, e) ==
  LET n == GetName(c, e)
  IN [cache |-> n.cache, name |-> IF n.name = NoAttr THEN << >> ELSE n.name]

\* MyIterator::StartFile: matching starts if the filter is "*" or a
\* substring of the unit's name; it is never switched off here.
StartFile(v, name) ==
  [v EXCEPT !.search = @ \/ TargetFile = Star \/ TargetFile \in SubSeqs(name)]

\* MyIterator::EndFile.
EndFile(v) == [v EXCEPT !.search = FALSE]

\* MyIterator::StartNamespace and StartClass.
StartScope(v, name) ==
  IF ~v.search THEN v
  ELSE [v EXCEPT !.nstack = Append(@, v.current), !.current = @ \o Sep \o name]

\* MyIterator::EndNamespace and EndClass.
EndScope(v) ==
  IF ~v.search THEN v
  ELSE [v EXCEPT !.current = Last(v.nstack), !.nstack = Front(@)]

\* MyIterator::Function: record start if m_current + "::" + name is the
\* target.
Function(v, name, start) ==
  IF v.search /\ v.current \o Sep \o name = TargetFunction
  THEN [v EXCEPT !.matches = Append(@, start)]
  ELSE v

\* Seeded fault: a namespace or class without children is not closed.
OnEntryNoEarlyEnd(v, tag, name, e, kids) ==
  CASE tag = "compile_unit" -> StartFile(v, name)
    [] tag \in {"class_type", "namespace"} -> StartScope(v, name)
    [] tag = "subprogram" /\ e.lowpc # NoAttr -> Function(v, name, e.lowpc)
    [] OTHER -> v

\* MyDwIter::Entry's switch on the tag, given the name it read.
OnEntry(v, tag, name, e, kids) ==
  CASE tag = "compile_unit" -> StartFile(v, name)
    [] tag \in {"class_type", "namespace"} ->
         IF kids THEN StartScope(v, name) ELSE EndScope(StartScope(v, name))
    [] tag = "subprogram" /\ e.lowpc # NoAttr -> Function(v, name, e.lowpc)
    [] OTHER -> v

\* MyDwIter::EndChildren, after the kind was taken from m_stack.back ().
EndChildrenCb(v, kind) ==
  IF kind \in {"CLASS", "NAMESPACE"} THEN EndScope(v) ELSE v

-----------------------------------------------------------------------------
\* DebugFile::Lookup constructs MyIterator and calls Iterate, which calls
\* dwarf2_info_iterate from the first unit.
Init ==
  /\ info \in Infos
  /\ u = 1
  /\ pos = 1
  /\ phase = "unit"
  /\ cache = AT!EmptyCache
  /\ mstack = << >>
  /\ lookup = [search |-> FALSE, current |-> << >>, nstack |-> << >>,
               matches |-> << >>]

\* Outer loop: read the unit header and re-seed the abbreviation cache.
StartUnit ==
  /\ phase = "unit"
  /\ u <= Len(info)
  /\ cache' = AT!EmptyCache
  /\ pos' = 1
  /\ phase' = "entry"
  /\ UNCHANGED <<info, u, mstack, lookup>>

\* Inner loop body: entry_read, the entry callback, then on to the next
\* entry if it has children, or to the scan for null entries otherwise.
\* get_name reads through a copy of the cuh, so the abbreviation cache
\* keeps only entry_read's updates.
Entry ==
  /\ phase = "entry"
  /\ pos <= Len(info[u])
  /\ LET r == EntryRead(cache, info[u][pos])
         n == ReadEntryName(r.cache, r.entry)
     IN IF ~r.ok
        THEN /\ phase' = "assert"
             /\ UNCHANGED <<info, u, pos, cache, mstack, lookup>>
        ELSE /\ cache' = r.cache
             /\ lookup' = OnEntry(lookup, r.decl.tag, n.name, r.entry, r.decl.children)
             /\ mstack' = IF r.decl.children THEN Append(mstack, Kind(r.decl.tag))
                          ELSE mstack
             /\ pos' = pos + 1
             /\ phase' = IF r.decl.children THEN "entry" ELSE "zeros"
             /\ UNCHANGED <<info, u>>

\* The scan after an entry without children: a 0 byte is one end_children,
\* which pops m_stack (undefined on an empty list).
EndChildren ==
  /\ phase = "zeros"
  /\ pos <= Len(info[u])
  /\ info[u][pos] = Null
  /\ IF mstack = << >>
     THEN /\ phase' = "ub"
          /\ UNCHANGED <<info, u, pos, cache, mstack, lookup>>
     ELSE /\ lookup' = EndChildrenCb(lookup, Last(mstack))
          /\ mstack' = Front(mstack)
          /\ pos' = pos + 1
          /\ UNCHANGED <<info, u, phase, cache>>

\* The scan stops at a non-zero byte (seeking back to it) or at the end of
\* the unit.
ZerosEnd ==
  /\ phase = "zeros"
  /\ ~(pos <= Len(info[u]) /\ info[u][pos] = Null)
  /\ phase' = "entry"
  /\ UNCHANGED <<info, u, pos, cache, mstack, lookup>>

\* End of the unit's bytes: end_cuh (EndFile), next unit.
EndUnit ==
  /\ phase = "entry"
  /\ pos > Len(info[u])
  /\ lookup' = EndFile(lookup)
  /\ u' = u + 1
  /\ phase' = "unit"
  /\ UNCHANGED <<info, pos, cache, mstack>>

\* current_cuh_start reached info_end: Lookup returns the matches.
Finish ==
  /\ phase = "unit"
  /\ u > Len(info)
  /\ phase' = "done"
  /\ UNCHANGED <<info, u, pos, cache, mstack, lookup>>

Next == StartUnit \/ Entry \/ EndChildren \/ ZerosEnd \/ EndUnit \/ Finish

Spec == Init /\ [][Next]_vars /\ WF_vars(Next)

-----------------------------------------------------------------------------
(***************************************************************************)
(* The resolution the spec describes (section 4.4), computed from the tree *)
(* the items encode rather than by walking it.                             *)
(***************************************************************************)

\* The declaration of an entry, by a linear scan of the table.
DeclOf(id) == Decls[AT!LinearScan(Catalogue[id].code)]

\* An entry's name, following abstract_origin, then specification, to any
\* depth (the catalogue has no reference cycles).
RECURSIVE SpecName(_)
SpecName(id) ==
  LET e == Catalogue[id]
      a == IF e.ao # NoAttr THEN SpecName(e.ao) ELSE << >>
  IN CASE e.name # NoAttr    -> e.name
       [] a # << >>          -> a
       [] e.spec # NoAttr    -> SpecName(e.spec)
       [] OTHER              -> << >>

\* Item m of a unit opens a scope: an entry with children.
Opens(U, m) == U[m] # Null /\ DeclOf(U[m]).children

\* Nesting depth after item k: scopes opened minus null entries.
Depth(U, k) ==
  Cardinality({m \in 1..k : Opens(U, m)}) - Cardinality({m \in 1..k : U[m] = Null})

\* Entry j is an ancestor of item i.
Encloses(U, j, i) ==
  j < i /\ Opens(U, j) /\ \A m \in j..(i - 1) : Depth(U, m) >= Depth(U, j)

\* The names of the namespaces and classes enclosing item i, outermost first.
ScopeNames(U, i) ==
  LET isScope(j) == Encloses(U, j, i)
                    /\ DeclOf(U[j]).tag \in {"class_type", "namespace"}
      js == SelectSeq([k \in 1..(i - 1) |-> k], isScope)
  IN [k \in DOMAIN js |-> SpecName(U[js[k]])]

\* "::A::B::f", the form the code builds (and test.cc queries).
CodeQualified(names) == FoldLeft(LAMBDA acc, n : acc \o Sep \o n, << >>, names)

\* "A::B::f", the form of the spec's glossary and scenario.
SpecQualified(names) ==
  IF names = << >> THEN << >>
  ELSE FoldLeft(LAMBDA acc, n : acc \o Sep \o n, Head(names), Tail(names))

\* Item i is a defined function whose qualified name is the target.
IsMatch(U, i, Qualify(_)) ==
  /\ U[i] # Null
  /\ DeclOf(U[i]).tag = "subprogram"
  /\ Catalogue[U[i]].lowpc # NoAttr
  /\ Qualify(Append(ScopeNames(U, i), SpecName(U[i]))) = TargetFunction

\* The unit is searched: its compile_unit entry's name passes the filter.
UnitSearched(U) ==
  TargetFile = Star \/ TargetFile \in SubSeqs(SpecName(U[1]))

\* The low_pcs of all matches, in unit and entry order.
RefMatches(Qualify(_)) ==
  LET perUnit(n) ==
        LET U  == info[n]
            is == SelectSeq([k \in 1..Len(U) |-> k], LAMBDA i : IsMatch(U, i, Qualify))
        IN IF UnitSearched(U) THEN [k \in DOMAIN is |-> Catalogue[U[is[k]]].lowpc]
           ELSE << >>
  IN FlattenSeq([n \in DOMAIN info |-> perUnit(n)])

-----------------------------------------------------------------------------
\* The walker's state has its types.
TypeOK ==
  /\ phase \in {"unit", "entry", "zeros", "done", "assert", "ub"}
  /\ u \in 1..(Len(info) + 1)
  /\ mstack \in Seq({"CU", "CLASS", "NAMESPACE", "FUNCTION", "UNKNOWN"})
  /\ lookup.search \in BOOLEAN
  /\ cache \in [AT!Slots -> AT!Entry]

(***************************************************************************)
(* Scopes balance (spec 6, second property): the null entries the walker   *)
(* reads after childless entries close exactly the scopes opened by        *)
(* entries with children, so m_stack is never popped empty and is empty,   *)
(* with the visitor's name path back at "", at every unit boundary.  It    *)
(* depends on dwarf2_info_iterate's zero-byte loop, MyDwIter's push on     *)
(* hasChildren and the Start/End pairs of MyIterator.                      *)
(***************************************************************************)
ScopesBalanced ==
  /\ phase # "ub"
  /\ phase \in {"unit", "done"} =>
       /\ mstack = << >>
       /\ lookup.nstack = << >>
       /\ lookup.current = << >>

(***************************************************************************)
(* DebugFile::Lookup returns exactly the low_pcs of the functions, in the  *)
(* units the filter selects, whose "::"-prefixed qualified name (enclosing *)
(* namespaces and classes, names resolved through abstract_origin and      *)
(* specification) is the target, in file order.                           *)
(***************************************************************************)
LookupMatchesTree ==
  phase = "done" => lookup.matches = RefMatches(CodeQualified)

(***************************************************************************)
(* The walk completes without a decode failure (spec 4.3: a zero code     *)
(* terminates a run of siblings at the current depth).                     *)
(***************************************************************************)
NoDecodeFailure == phase \notin {"assert", "ub"}

(***************************************************************************)
(* The spec's scenario (section 6): the qualified name "A::B::f" resolves  *)
(* to f's low_pc: Lookup matches names in the spec's form.                 *)
(***************************************************************************)
LookupMatchesSpecNames ==
  phase = "done" => lookup.matches = RefMatches(SpecQualified)


=============================================================================
