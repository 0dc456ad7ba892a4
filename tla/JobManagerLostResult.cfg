SPECIFICATION Spec
CONSTANTS
  Jobs = {j1}
  j1 = j1
  MaxConcurrent = 1
  MaxQueued = 1
  MaxProgress = 0
  Endings = {"result", "error", "timeout", "timeout_best", "cancelled", "cancelled_best"}
PROPERTY WorkerExitedWithoutResult
\* The system stops after shutdown.
CHECK_DEADLOCK FALSE
