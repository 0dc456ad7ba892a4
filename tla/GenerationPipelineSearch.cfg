SPECIFICATION FairSpec
CONSTANTS
  Scores = {1, 2, 3, 4}
  Usable = 2
  Presentable = 4
  RequireCritical = TRUE
  TrialCount = 3
  SolverRuns = 2
INVARIANT TypeOK
INVARIANT BestIsBest
INVARIANT DeliversBest
PROPERTY StopsPromptly
PROPERTY ImplementsPlanSearch
\* The worker answers and is done.
CHECK_DEADLOCK FALSE
