SPECIFICATION Spec
CONSTANTS
  MaxEvents = 2
  MaxLives = 4
  MaxFailures = 2
INVARIANT TypeOK
INVARIANT SnapshotHasEvent
INVARIANT SnapshotHasResult
PROPERTY ImplementsEventFile
INVARIANT FinishedSurvives
INVARIANT RestartSettles
\* The bound on lives stops the system.
CHECK_DEADLOCK FALSE
