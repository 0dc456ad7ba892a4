---------------------------- MODULE JobLifecycle ----------------------------
(***************************************************************************)
(* What the generation service promises about jobs, without its tasks,     *)
(* worker processes, files and clocks: a bounded number of admitted jobs,  *)
(* started in the order they were admitted, at most MaxConcurrent at a     *)
(* time, each of which ends exactly once.  JobManager implements it.       *)
(***************************************************************************)
EXTENDS Naturals, FiniteSets

CONSTANTS Jobs,           \* the jobs that may ever be submitted
          MaxConcurrent,  \* jobs running at a time
          MaxQueued       \* jobs admitted beyond the running ones

VARIABLES phase,  \* the state a client sees, "absent" before submission
          ahead   \* of each job, the queued jobs admitted before it

vars == <<phase, ahead>>

Running  == {"running", "cancellation_requested"}
Finished == {"completed", "failed", "cancelled", "timed_out"}
Phases   == {"absent", "queued"} \cup Running \cup Finished

Queued == {j \in Jobs : phase[j] = "queued"}
Busy   == {j \in Jobs : phase[j] \in Running}

Init == /\ phase = [j \in Jobs |-> "absent"]
        /\ ahead = [j \in Jobs |-> {}]

Move(j, p) == phase' = [phase EXCEPT ![j] = p]

Submit(j) == /\ phase[j] = "absent"
             /\ Cardinality(Queued \cup Busy) < MaxConcurrent + MaxQueued
             /\ Move(j, "queued")
             /\ ahead' = [ahead EXCEPT ![j] = Queued]

\* Nobody waits for a job that is queued no longer.
LeaveLine(j) ==
  ahead' = [k \in Jobs |-> IF k = j THEN {} ELSE ahead[k] \ {j}]

Begin(j) == /\ phase[j] = "queued"
            /\ ahead[j] = {}
            /\ Cardinality(Busy) < MaxConcurrent
            /\ Move(j, "running")
            /\ LeaveLine(j)

\* A queued job is cancelled at once.
Withdraw(j) == /\ phase[j] = "queued"
               /\ Move(j, "cancelled")
               /\ LeaveLine(j)

\* A running job is only asked to stop.
RequestCancel(j) == /\ phase[j] = "running"
                    /\ Move(j, "cancellation_requested")
                    /\ UNCHANGED ahead

Finish(j) == /\ phase[j] \in Running
             /\ \E p \in Finished : Move(j, p)
             /\ UNCHANGED ahead

Next == \E j \in Jobs : \/ Submit(j)   \/ Begin(j) \/ Withdraw(j)
                        \/ RequestCancel(j) \/ Finish(j)

Spec == /\ Init
        /\ [][Next]_vars
        /\ \A j \in Jobs : WF_vars(Begin(j)) /\ WF_vars(Finish(j))
=============================================================================
