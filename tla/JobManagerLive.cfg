SPECIFICATION FairSpec
CONSTANTS
  Jobs = {j1, j2}
  j1 = j1
  j2 = j2
  MaxConcurrent = 1
  MaxQueued = 1
  MaxProgress = 0
  Endings = {"result", "cancelled_best"}
PROPERTY EveryJobEnds
PROPERTY ShutdownEnds
PROPERTY ImplementsLifecycle
\* The system stops after shutdown.
CHECK_DEADLOCK FALSE
