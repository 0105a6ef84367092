CONSTANTS
  Callers = {"p1", "p2"}
  Initialised = TRUE
  Calls <- None
  LeftFilters <- Zeroed
  LeftNthreads <- One
  MaxCalls = 4
  PyCalls <- SomeCalls
  Checked = TRUE
  Blocksizes <- Sizes
SPECIFICATION PyFairSpec
INVARIANTS PyTypeOK MutexNeverContended OwnCodec
PROPERTIES ContextUndisturbed PyCallsReturn
CHECK_DEADLOCK FALSE
