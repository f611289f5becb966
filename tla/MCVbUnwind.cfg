SPECIFICATION Spec
CONSTANTS
  Scripts <- MCFor
  Compiled <- MCForCode
  max_call_depth <- MCDepth
  Comparable = {}
INVARIANT StaysInProcedure
