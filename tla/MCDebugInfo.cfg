\* Lookup ("a", "::A::B::f") over one unit with scopes nested two deep,
\* or two units (one selected by the filter, one not).  Every entry with
\* children has at least one; no name goes through two abstract_origins.
CONSTANTS
  NoAttr = NoAttr
  Decls <- MCDecls
  Catalogue <- MCCatalogue
  TargetFile <- FilterA
  TargetFunction <- CodeTarget
  CacheSize = 4
  MaxDistance = 2
  Infos <- MCInfos
  Leaves = {"fnF", "defF", "inlF", "nsE"}
  Scopes = {"nsA", "clsB", "stB", "fnG"}
  Units = {"cuAB", "cuB"}
  MinChildren = 1
  MaxDepth = 2
SPECIFICATION Spec
INVARIANT ScopesBalanced
INVARIANT LookupMatchesTree
CHECK_DEADLOCK FALSE
