SPECIFICATION Spec
CONSTANTS
  L1 = 4
  MIN_BUFFERSIZE = 2
  MAX_SPLITS = 2
  MAX_TYPESIZE = 3
  MIN_HEADER = 2
  EXTENDED_HEADER = 3
  INT = 1
  Requests <- AllRequests
  Ranges <- SomeRanges
  Again <- RequestsAgain
  SizesAgain = {5, 8}
INVARIANTS NothingLeftOut PiecesApart Restored OwnBufferSuffices ItemsExact
CHECK_DEADLOCK FALSE
