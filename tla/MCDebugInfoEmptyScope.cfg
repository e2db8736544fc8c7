\* Entries with children may have none: the null entry follows at once,
\* as DWARF allows.
CONSTANTS
  NoAttr = NoAttr
  Decls <- MCDecls
  Catalogue <- MCCatalogue
  TargetFile <- FilterA
  TargetFunction <- CodeTarget
  CacheSize = 4
  MaxDistance = 2
  Infos <- MCInfos
  Leaves = {"fnF", "defF", "inlF", "nsE"}
  Scopes = {"nsA", "clsB", "stB", "fnG"}
  Units = {"cuAB", "cuB"}
  MinChildren = 0
  MaxDepth = 1
SPECIFICATION Spec
INVARIANT NoDecodeFailure
CHECK_DEADLOCK FALSE
