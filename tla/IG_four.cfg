SPECIFICATION FairSpec
CONSTANTS
  NumNodes = 4
  EdgeLists <- MCEdgeLists
\* The analysis stops when it has returned.
CHECK_DEADLOCK FALSE
INVARIANTS
  ComponentsAreClasses
  DonorsComeFirst
  OrderIsLeast
PROPERTIES
  AnalysisReturns
