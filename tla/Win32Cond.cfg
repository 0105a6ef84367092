CONSTANTS
  Threads = {t1, t2, t3, t4}
  NoOne = NoOne
SPECIFICATION FairSpec
INVARIANTS TypeOK OneSliceEach
PROPERTIES BroadcastReturns ImplementsCondVar
CHECK_DEADLOCK FALSE
