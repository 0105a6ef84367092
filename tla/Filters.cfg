SPECIFICATION Spec
CONSTANTS
  MAX_FILTERS = 5
  Codes <- AllCodes
INVARIANTS RoundTrip ItemsRead BuffersApart
CHECK_DEADLOCK FALSE
