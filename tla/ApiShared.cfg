SPECIFICATION FairSpec
CONSTANTS
  Callers = {"a", "b", "c"}
  Initialised = TRUE
  Calls <- SharedCalls
  LeftFilters <- Zeroed
  LeftNthreads = {1}
  Blocksizes <- Sizes
  MaxCalls = 4
INVARIANTS TypeOK OwnParameters
PROPERTIES CallsReturn
CHECK_DEADLOCK FALSE
