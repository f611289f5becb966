SPECIFICATION Spec
CONSTANTS
  Var = {u}
  u = u
  MaxObjects = 3
  Careful = TRUE
INVARIANTS
  TypeOK
  RefsCounted
  NothingDangles
  NothingLeaks
PROPERTY TerminatorSeesWhole
