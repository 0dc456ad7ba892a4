SPECIFICATION FairSpec
CONSTANTS
  Writers = {w1, w2, w3}
  w1 = w1
  w2 = w2
  w3 = w3
  Processes = {p1, p2}
  p1 = p1
  p2 = p2
  ProcessOf <- MCProcessOf
  Workloads <- MCWorkloads
  Nobody = Nobody
INVARIANT TypeOK
INVARIANT Exclusion
INVARIANT ArtifactIntact
PROPERTY ImplementsStore
PROPERTY EveryCallEnds
\* Every call may have ended.
CHECK_DEADLOCK FALSE
