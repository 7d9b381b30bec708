SPECIFICATION Spec
CONSTANTS
  Keys <- MCKeys
  Strategies <- MCStrategies
  NoMatrix = NoMatrix
  Malformed = Malformed
INVARIANTS
  OriginalsInOrder
  IncludesMatchOnAxes
