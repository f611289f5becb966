SPECIFICATION Spec
CONSTANTS
  Id = {fixedarray, array1, array2}
  FixedId = fixedarray
  NoId = NoId
  NoArray = NoArray
  FixedVar = "fixed"
  DynamicVar = "dynamic"
  LoopVar = "loop"
  Shapes <- SmallShapes
  FixedShape <- OneElement
  MaxIndex = 2
  MaxObjects = 1
  MaxDepth = 2
INVARIANTS
  TypeOK
  NothingDangles
PROPERTIES
  OnlyLockedArraysAreLost
  ArraysAreFunctions
SYMMETRY Interchangeable
