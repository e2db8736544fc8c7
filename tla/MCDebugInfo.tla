---------------------------- MODULE MCDebugInfo ----------------------------
(***************************************************************************)
(* DebugInfo over every .debug_info built from a small catalogue of        *)
(* entries: one or two units, each a compile_unit entry whose children are *)
(* a forest of bounded depth and width.                                    *)
(***************************************************************************)
EXTENDS DebugInfo

CONSTANTS
  Leaves,       \* ids of entries that may appear without children
  Scopes,       \* ids of entries with children
  Units,        \* ids of compile_unit entries
  MinChildren,  \* 1: every entry with children has one; 0: may have none
  MaxDepth      \* nesting depth of scopes below the compile_unit

\* Lookup's arguments.
FilterA    == <<"a">>
CodeTarget == <<":", ":", "A", ":", ":", "B", ":", ":", "f">>
SpecTarget == <<"A", ":", ":", "B", ":", ":", "f">>

\* The abbreviation table: codes out of order, several aliasing in a
\* four-slot cache (1, 5, 9 and 2, 6), so lookups take the backup and
\* second-range paths.
MCDecls ==
  << [code |-> 1, tag |-> "compile_unit", children |-> TRUE],
     [code |-> 5, tag |-> "namespace",    children |-> TRUE],
     [code |-> 2, tag |-> "namespace",    children |-> FALSE],
     [code |-> 6, tag |-> "class_type",   children |-> TRUE],
     [code |-> 3, tag |-> "subprogram",   children |-> FALSE],
     [code |-> 9, tag |-> "subprogram",   children |-> TRUE],
     [code |-> 4, tag |-> "structure_type", children |-> TRUE],
     [code |-> 7, tag |-> "variable",     children |-> FALSE] >>

E(code, name, lowpc, ao, spec) ==
  [code |-> code, name |-> name, lowpc |-> lowpc, ao |-> ao, spec |-> spec]

(***************************************************************************)
(* The entries.  f is defined four ways: directly (fnF), out of its class  *)
(* through a specification (defF -> declF), as an out-of-line copy of an  *)
(* inline (inlF -> absF -> declF, abstract_origin then specification),    *)
(* and through two abstract_origins (inl2 -> absAo -> declF).             *)
(***************************************************************************)
MCCatalogue ==
  [cuAB  |-> E(1, <<"a", "b">>, NoAttr, NoAttr, NoAttr),
   cuB   |-> E(1, <<"b">>, NoAttr, NoAttr, NoAttr),
   nsA   |-> E(5, <<"A">>, NoAttr, NoAttr, NoAttr),
   nsB   |-> E(5, <<"B">>, NoAttr, NoAttr, NoAttr),
   nsE   |-> E(2, <<"A">>, NoAttr, NoAttr, NoAttr),
   clsB  |-> E(6, <<"B">>, NoAttr, NoAttr, NoAttr),
   stB   |-> E(4, <<"B">>, NoAttr, NoAttr, NoAttr),
   fnG   |-> E(9, <<"g">>, 20, NoAttr, NoAttr),
   fnF   |-> E(3, <<"f">>, 10, NoAttr, NoAttr),
   varV  |-> E(7, <<"f">>, NoAttr, NoAttr, NoAttr),
   declF |-> E(3, <<"f">>, NoAttr, NoAttr, NoAttr),
   defF  |-> E(3, NoAttr, 30, NoAttr, "declF"),
   absF  |-> E(3, NoAttr, NoAttr, NoAttr, "declF"),
   inlF  |-> E(3, NoAttr, 40, "absF", NoAttr),
   absAo |-> E(3, NoAttr, NoAttr, "declF", NoAttr),
   inl2  |-> E(3, NoAttr, 50, "absAo", NoAttr)]

\* Trees of depth at most d: a leaf, or a scope with a forest and its null
\* entry.  A forest is one tree, or a tree followed by a leaf.
RECURSIVE Trees(_), Forests(_)
Trees(d) ==
  {<<l>> : l \in Leaves} \cup
  (IF d = 0 THEN {}
   ELSE {<<s>> \o f \o <<Null>> : s \in Scopes, f \in Forests(d - 1)})
Forests(d) ==
  (IF MinChildren = 0 THEN {<< >>} ELSE {}) \cup Trees(d) \cup
  {t \o <<l>> : t \in Trees(d), l \in Leaves}

UnitOf(cu, f) == <<cu>> \o f \o <<Null>>

\* One unit with a forest of depth MaxDepth, or two units of leaves.
MCInfos ==
  {<<UnitOf(c, f)>> : c \in Units, f \in Forests(MaxDepth) \ {<< >>}} \cup
  {<<UnitOf(c1, f1), UnitOf(c2, f2)>> :
     c1, c2 \in Units, f1, f2 \in Forests(0) \ {<< >>}}

=============================================================================
