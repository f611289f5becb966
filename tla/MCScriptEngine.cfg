SPECIFICATION Spec
CONSTANTS
  Thread = {t1, t2}
  Site = {s1, s2}
  Code = {c1, c2}
  Item = {i1, i2}
  Name = {n1}
  t1 = t1
  t2 = t2
  s1 = s1
  s2 = s2
  c1 = c1
  c2 = c2
  i1 = i1
  i2 = i2
  n1 = n1
  Global = Global
  None = None
  FlagSets <- MCFlagSets
  MaxDepth = 4
  MaxClaims = 3
SYMMETRY MCSymmetry
CHECK_DEADLOCK FALSE
INVARIANTS
  TypeOK
  AttachedIsOwned
  SiteInUse
  NothingQueuedWhenStarted
  RunsOncePerSession
  ItemsBoundToSession
  ClassListsSound
PROPERTY PersistentCodeStays
