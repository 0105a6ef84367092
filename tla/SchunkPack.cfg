SPECIFICATION Spec
CONSTANTS
  HEADER = 120
  Buffers <- SomeBuffers
  MaxChunks = 4
INVARIANTS CountersMatchPacking PackedApart PackedAsDocumented
CHECK_DEADLOCK FALSE
