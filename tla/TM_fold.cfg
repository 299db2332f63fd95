SPECIFICATION Spec
CONSTANTS
  NumNames = 4
  PkgName = 2
  PkgTopic = 3
  Reexports = 4
  Slots = {"title", "seealso", "format"}
  Packages <- AllPackages
\* The fold stops when the model is complete.
CHECK_DEADLOCK FALSE
INVARIANTS
  ValuesAreKept
  OrderDecides
  AliasesAreUnambiguous
  EveryBlockIsAccounted
