SPECIFICATION Spec
CONSTANTS
  Callers = {"a"}
  Initialised = FALSE
  Calls <- SequenceCalls
  LeftFilters <- Anything
  LeftNthreads = {0, 1, 2}
  Blocksizes <- Sizes
  MaxCalls = 4
INVARIANTS PoolAgrees HistoryDecides 
CHECK_DEADLOCK FALSE
