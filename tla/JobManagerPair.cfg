SPECIFICATION Spec
CONSTANTS
  Jobs = {j1, j2}
  j1 = j1
  j2 = j2
  MaxConcurrent = 1
  MaxQueued = 1
  MaxProgress = 2
  Endings = {"result", "error", "timeout", "timeout_best", "cancelled", "cancelled_best"}
SYMMETRY JobSymmetry
INVARIANT TypeOK
INVARIANT JournalEndsWithState
INVARIANT WorkerEventsInOrder
INVARIANT OutcomeConsistent
PROPERTY TerminalIsFinal
PROPERTY StopHasCause
\* The system stops after shutdown.
CHECK_DEADLOCK FALSE
