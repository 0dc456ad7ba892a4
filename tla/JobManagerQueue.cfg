SPECIFICATION Spec
CONSTANTS
  Jobs = {j1, j2, j3}
  j1 = j1
  j2 = j2
  j3 = j3
  MaxConcurrent = 1
  MaxQueued = 1
  MaxProgress = 0
  Endings = {"result", "cancelled"}
SYMMETRY JobSymmetry
INVARIANT AdmissionBounded
INVARIANT WorkersSupervised
PROPERTY NoQueueJumping
\* The system stops after shutdown.
CHECK_DEADLOCK FALSE
