SPECIFICATION FairSpec
CONSTANTS
  NThreads = 2
  BlockSize = 2
  Jobs <- TwoWorkerJobs
INVARIANTS TypeOK BarrierPhases BlocksClaimedOnce PlacesApart ReferenceFirst CallerAlone
PROPERTIES ParametersStable Promise
