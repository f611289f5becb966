SPECIFICATION Spec
CONSTANTS
  Scripts <- MCAll
  Compiled <- MCAllCode
  max_call_depth <- MCDepth
  Comparable <- MCComparable
INVARIANTS TypeOK StackMatchesStatement OperandsMatch
PROPERTIES FollowsStatements OnlyComparisonsStray
