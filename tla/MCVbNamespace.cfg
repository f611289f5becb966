SPECIFICATION Spec
CONSTANTS
  form = form
  globals = globals
  library = library
  a = a
  b = b
  Name = {a, b}
  Builtin = {a}
  Item = {form, globals, library}
  ItemName <- MCItemName
  Visible = {form}
  CodeOnly = {library}
  Members = {globals}
  HostProp <- MCHostProp
  Unit <- MCUnit
  LocalUnit <- MCLocalUnit
  MaxCode = 3
  MaxFrames = 2
  MaxVars = 6
CHECK_DEADLOCK FALSE
INVARIANTS
  TypeOK
  SlotsMatchEntries
  DeclarationsStand
  LookupsAreFresh
PROPERTY DispatchOnlyGrows
