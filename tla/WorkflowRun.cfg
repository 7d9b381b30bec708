SPECIFICATION FairSpec
CONSTANTS
  N = 4
  Unknown = Unknown
  Graphs <- SmallGraphs
INVARIANTS
  OrderIsTopological
  SortRejectsExactlyBadGraphs
  SkipsExactlyDownstream
  ZeroMeansAllSucceeded
PROPERTIES
  RespectsNeeds
  AlwaysExits
