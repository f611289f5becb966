SPECIFICATION Spec
CONSTANTS
  Key <- MCKeys
  Item <- MCItems
  Enumerator = {e}
  e = e
  kind <- MCKind1
  folded <- MCFolded1
  Default <- MCDefault
  hash_of <- MCHash
  Callback = {"object", "terminating object"}
  MaxPairs = 3
  MaxDepth = 3
  Careful = TRUE
INVARIANTS
  TypeOK
  BucketsSound
  NothingStale
PROPERTY KeepsOrderedMap
