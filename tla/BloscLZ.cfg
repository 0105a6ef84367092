CONSTANTS
  Size = 23
  Periods = {2, 5, 9}
  Places = {12}
  Inputs <- Words
  Room = {3, 14}
  Lens = 3
  Highs = 2
  Bytes = 3
  WordSize = 3
  TailSize = 7
  MinRoom = 4
  CPYSIZE = 3
  LongCopy = 6
SPECIFICATION Spec
INVARIANTS TypeOK InsideRoom RoundTrip
CHECK_DEADLOCK FALSE
