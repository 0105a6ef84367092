SPECIFICATION FairSpec
CONSTANTS
  NThreads = 3
  BlockSize = 2
  Jobs <- DeltaCorruptJobs
PROPERTY CallReturns
CHECK_DEADLOCK FALSE
