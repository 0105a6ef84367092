SPECIFICATION Spec
CONSTANTS
  HEADER = 120
  Buffers <- SomeBuffers
  MaxChunks = 2
INVARIANTS UnpackRestores
CHECK_DEADLOCK FALSE
