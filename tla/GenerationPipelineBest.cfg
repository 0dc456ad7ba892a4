SPECIFICATION Spec
CONSTANTS
  Scores = {2}
  Usable = 2
  Presentable = 4
  RequireCritical = FALSE
  TrialCount = 2
  SolverRuns = 1
INVARIANT StopDeliversBest
\* The worker answers and is done.
CHECK_DEADLOCK FALSE
