SPECIFICATION FairSpec
CONSTANTS
  Thread = {t1}
  Site = {s1}
  Code = {c1, c2}
  Item = {i1}
  Name = {n1}
  t1 = t1
  t2 = t2
  s1 = s1
  s2 = s2
  c1 = c1
  c2 = c2
  i1 = i1
  i2 = i2
  n1 = n1
  Global = Global
  None = None
  FlagSets <- MCFlagSets
  MaxDepth = 3
  MaxClaims = 2
CHECK_DEADLOCK FALSE
PROPERTIES
  CallsReturn
