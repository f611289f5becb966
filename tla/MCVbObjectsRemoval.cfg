SPECIFICATION Spec
CONSTANTS
  Var = {u}
  u = u
  MaxObjects = 2
  Careful = FALSE
INVARIANT SafeAgainstRemoval
