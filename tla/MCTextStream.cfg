SPECIFICATION Spec
CONSTANTS
  Streams = {s1, s2}
  HeadSize = 2
  BlockSize = 2
  BufferSize = 4
  Capacity = 8
  InitialFiles <- Files
  Texts <- TextsToWrite
  Lengths = {2}
  MaxOpens = 2
  MaxWrites = 2
INVARIANT TypeOK
PROPERTY ReadsText
PROPERTY ReadBack
PROPERTY CallsReturn

CHECK_DEADLOCK FALSE
