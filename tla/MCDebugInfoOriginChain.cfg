\* A leaf named only through two abstract_origins (inl2 -> absAo -> declF).
CONSTANTS
  NoAttr = NoAttr
  Decls <- MCDecls
  Catalogue <- MCCatalogue
  TargetFile <- FilterA
  TargetFunction <- CodeTarget
  CacheSize = 4
  MaxDistance = 2
  Infos <- MCInfos
  Leaves = {"fnF", "inl2"}
  Scopes = {"nsA", "clsB"}
  Units = {"cuAB", "cuB"}
  MinChildren = 1
  MaxDepth = 2
SPECIFICATION Spec
INVARIANT LookupMatchesTree
CHECK_DEADLOCK FALSE
