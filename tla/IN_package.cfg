SPECIFICATION Spec
CHECK_DEADLOCK FALSE
CONSTANTS
  L1 = L1
  L2 = L2
  S1 = S1
  Libraries <- MCLibraries
  Stores <- MCStores
  Packages <- MCPackages
  Base <- MCBase
  Trees <- MCTrees
  Versions <- MCVersions
  Aliases <- MCAliases
  Documents <- MCDocuments
  NoIndex <- MCNoIndex
  BaseGenerics <- MCBaseGenerics
  Unsafe <- MCUnsafe
  Families <- MCFamilies
INVARIANTS
  InputsAreHeard
  AuthorsMatchR
  SearchesAgree
  TopicsAreOfOneVersion
