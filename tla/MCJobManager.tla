--------------------------- MODULE MCJobManager ---------------------------
(* JobManager on small sets of interchangeable jobs. *)
EXTENDS JobManager, TLC

JobSymmetry == Permutations(Jobs)
=============================================================================
