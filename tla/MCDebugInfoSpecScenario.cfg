\* The spec's scenario: namespace A { namespace B { void f(); } } looked up
\* as "A::B::f" with filter "*".
CONSTANTS
  NoAttr = NoAttr
  Decls <- MCDecls
  Catalogue <- MCCatalogue
  TargetFile <- Star
  TargetFunction <- SpecTarget
  CacheSize = 4
  MaxDistance = 2
  Infos <- MCInfos
  Leaves = {"fnF"}
  Scopes = {"nsA", "nsB"}
  Units = {"cuAB", "cuB"}
  MinChildren = 1
  MaxDepth = 2
SPECIFICATION Spec
INVARIANT LookupMatchesSpecNames
CHECK_DEADLOCK FALSE
