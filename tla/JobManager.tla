----------------------------- MODULE JobManager -----------------------------
(***************************************************************************)
(* GenerationJobManager (app/jobs/manager.py) during one life of the       *)
(* server, and the worker processes it starts (app/jobs/worker.py).        *)
(*                                                                         *)
(* The manager runs on one asyncio event loop, so an action is the code    *)
(* between two suspensions: an HTTP handler up to its return, or the       *)
(* dispatch task of a job from one await to the next.  Worker processes,   *)
(* the thread that reads their queue and the clocks take steps of their    *)
(* own in between.  A process counts as alive until it has exited.         *)
(***************************************************************************)
EXTENDS Naturals, Sequences, FiniteSets

CONSTANTS Jobs,           \* the ids uuid4 may return; each is used once
          MaxConcurrent,  \* server.max_concurrent_jobs
          MaxQueued,      \* server.max_queued_jobs
          MaxProgress,    \* bound on the events one worker publishes
          Endings         \* the final messages workers send

\* The ways run_generation_worker ends: a result, or an error whose
\* termination_reason is timeout, cancelled or absent; details may carry the
\* best plan when there is a termination_reason.
Stopped  == {"timeout", "timeout_best", "cancelled", "cancelled_best"}
Finishes == {"result", "error"} \cup Stopped
HasBest(f)  == f \in {"timeout_best", "cancelled_best"}
TimedOut(f) == f \in {"timeout", "timeout_best"}

\* load_server_config rejects limits that are not positive.
ASSUME LimitsAssumption == /\ MaxConcurrent \in Nat \ {0}
                           /\ MaxQueued \in Nat \ {0}
                           /\ MaxProgress \in Nat
                           /\ Endings \subseteq Finishes

VARIABLES
  known,         \* the keys of _jobs
  state,         \* JobRecord.state, "absent" before create
  result,        \* JobRecord.result: none, the worker's result, its best plan
  error,         \* the code of JobRecord.error
  journal,       \* events.jsonl of the job
  snapshot,      \* snapshot.json of the job: its state and sequence
  waiters,       \* dispatch tasks in the order they acquire _slots
  task,          \* where the dispatch task of the job is suspended
  forced,        \* forced_state in _monitor
  finished,      \* the kind of the WorkerFinished message read, or "none"
  cancellation,  \* the multiprocessing event shared with the worker
  deadline,      \* loop.time() >= deadline
  grace,         \* grace_deadline: unset, armed or passed
  worker,        \* the worker process
  pipe,          \* messages in its multiprocessing queue
  published,     \* events the worker has published
  server         \* up, stopping (shutdown runs) or stopped

recordVars  == <<state, result, error, journal, snapshot>>
monitorVars == <<task, forced, finished, cancellation, grace>>
workerVars  == <<worker, pipe, published>>
vars == <<known, recordVars, waiters, monitorVars, deadline,
          workerVars, server>>

Terminal == {"completed", "failed", "cancelled", "timed_out"}
States   == {"absent", "queued", "running", "cancellation_requested"} \cup Terminal

Errors == {"none", "generation_cancelled", "generation_timed_out",
           "worker_exited", "generation_error"}

Suspended  == {"getting", "empty", "joining"}
TaskStates == {"none", "waiting", "done"} \cup Suspended

\* Every journal line and queue message has a kind; progress is numbered.
Event(k)    == [kind |-> k, number |-> 0]
Progress(n) == [kind |-> "progress", number |-> n]
ProgressEvents == {Progress(n) : n \in 1 .. MaxProgress}
JobEvents      == {Event(k) : k \in States \ {"absent"}}
FinishMessages == {Event(k) : k \in Finishes}
IsFinish(m)    == m.kind \in Finishes

Monitored == {j \in Jobs : task[j] \in Suspended}
\* Mutant: a semaphore with one slot too many.
FreeSlotOffByOne == Cardinality(Monitored) <= MaxConcurrent

FreeSlot  == Cardinality(Monitored) < MaxConcurrent
Alive(j)  == worker[j] \in {"working", "finished"}

Init ==
  /\ known = {}
  /\ state = [j \in Jobs |-> "absent"]
  /\ result = [j \in Jobs |-> "none"]
  /\ error = [j \in Jobs |-> "none"]
  /\ journal = [j \in Jobs |-> <<>>]
  /\ snapshot = [j \in Jobs |-> [state |-> "absent", sequence |-> 0]]
  /\ waiters = <<>>
  /\ task = [j \in Jobs |-> "none"]
  /\ forced = [j \in Jobs |-> "none"]
  /\ finished = [j \in Jobs |-> "none"]
  /\ cancellation = [j \in Jobs |-> FALSE]
  /\ deadline = [j \in Jobs |-> FALSE]
  /\ grace = [j \in Jobs |-> "unset"]
  /\ worker = [j \in Jobs |-> "none"]
  /\ pipe = [j \in Jobs |-> <<>>]
  /\ published = [j \in Jobs |-> 0]
  /\ server = "up"

(***************************************************************************)
(* Records and their files                                                 *)
(***************************************************************************)

\* _append_event then _write_snapshot for a record that enters state s.
Enter(j, s) ==
  /\ state' = [state EXCEPT ![j] = s]
  /\ journal' = [journal EXCEPT ![j] = Append(@, Event(s))]
  /\ snapshot' = [snapshot EXCEPT ![j] =
                    [state |-> s, sequence |-> Len(journal[j]) + 1]]

\* _finalize: nothing when the record is already terminal.
Finalize(j, s, r, e) ==
  IF state[j] \in Terminal
  THEN UNCHANGED recordVars
  ELSE /\ Enter(j, s)
       /\ result' = [result EXCEPT ![j] = r]
       /\ error' = [error EXCEPT ![j] = e]

\* _expire, run by create and by every lookup: it may find any of the completed
\* records older than job_retention_seconds.
Completed == {j \in known : state[j] \in Terminal}
Expire == \E old \in SUBSET Completed : known' = known \ old

(***************************************************************************)
(* Handlers                                                                *)
(***************************************************************************)

Active == {j \in known : state[j] \notin Terminal}
\* Mutant: > for >= in the capacity test.
FullOffByOne == Cardinality(Active) > MaxConcurrent + MaxQueued

Full   == Cardinality(Active) >= MaxConcurrent + MaxQueued

Create(j) ==
  /\ server = "up"
  /\ state[j] = "absent"
  /\ ~ Full
  /\ \E old \in SUBSET Completed : known' = (known \ old) \cup {j}
  /\ Enter(j, "queued")
  /\ waiters' = Append(waiters, j)
  /\ task' = [task EXCEPT ![j] = "waiting"]
  /\ UNCHANGED <<result, error, forced, finished, cancellation, grace,
                 deadline, workerVars, server>>

\* create on a full queue, get, and the cancel calls that answer
\* already_requested, 404 or 409: they only expire old records.
Lookup ==
  /\ server = "up"
  /\ Expire
  /\ UNCHANGED <<recordVars, waiters, monitorVars, deadline,
                 workerVars, server>>

\* Mutant: a queued job is treated like a running one.
CancelQueuedSignals(j) ==
  /\ server = "up"
  /\ j \in known
  /\ state[j] = "queued"
  /\ Expire
  /\ Enter(j, "cancellation_requested")
  /\ UNCHANGED <<result, error, waiters, monitorVars, deadline, workerVars, server>>

CancelQueued(j) ==
  /\ server = "up"
  /\ j \in known
  /\ state[j] = "queued"
  /\ Expire
  /\ Finalize(j, "cancelled", "none", "generation_cancelled")
  /\ UNCHANGED <<waiters, monitorVars, deadline, workerVars, server>>

\* Mutant: a running job is settled at once, like a queued one.
CancelRunningSettles(j) ==
  /\ server = "up"
  /\ j \in known
  /\ state[j] = "running"
  /\ Expire
  /\ Finalize(j, "cancelled", "none", "generation_cancelled")
  /\ cancellation' = [cancellation EXCEPT ![j] = TRUE]
  /\ UNCHANGED <<waiters, task, forced, finished, grace, deadline, workerVars, server>>

CancelRunning(j) ==
  /\ server = "up"
  /\ j \in known
  /\ state[j] = "running"
  /\ Expire
  /\ Enter(j, "cancellation_requested")
  /\ cancellation' = [cancellation EXCEPT ![j] = TRUE]
  /\ UNCHANGED <<result, error, waiters, task, forced, finished, grace,
                 deadline, workerVars, server>>

\* shutdown signals every started job, then waits for all dispatch tasks; the
\* HTTP server has stopped calling the handlers by then.
Shutdown ==
  /\ server = "up"
  /\ server' = "stopping"
  /\ cancellation' = [j \in Jobs |-> cancellation[j] \/
                        (j \in known /\ task[j] \in Suspended
                                     /\ state[j] \notin Terminal)]
  /\ UNCHANGED <<known, recordVars, waiters, task, forced, finished,
                 grace, deadline, workerVars>>

ShutdownReturns ==
  /\ server = "stopping"
  /\ \A j \in Jobs : task[j] \in {"none", "done"}
  /\ server' = "stopped"
  /\ UNCHANGED <<known, recordVars, waiters, monitorVars, deadline,
                 workerVars>>

(***************************************************************************)
(* The dispatch task                                                       *)
(***************************************************************************)

\* Mutant: the newest waiter is woken.
AcquireNewest(j) ==
  /\ waiters # <<>>
  /\ j = waiters[Len(waiters)]
  /\ FreeSlot
  /\ waiters' = SubSeq(waiters, 1, Len(waiters) - 1)

\* The semaphore wakes its waiters in order.
Acquire(j) ==
  /\ waiters # <<>>
  /\ j = Head(waiters)
  /\ FreeSlot
  /\ waiters' = Tail(waiters)

\* The record was cancelled while it waited: the slot is given back.
SkipCancelled(j) ==
  /\ Acquire(j)
  /\ state[j] \in Terminal
  /\ task' = [task EXCEPT ![j] = "done"]
  /\ UNCHANGED <<known, recordVars, forced, finished, cancellation,
                 grace, deadline, workerVars, server>>

\* Mutant: the test for a record cancelled meanwhile is missing.
StartWorkerUnchecked(j) ==
  /\ Acquire(j)
  /\ Enter(j, "running")
  /\ worker' = [worker EXCEPT ![j] = "working"]
  /\ task' = [task EXCEPT ![j] = "getting"]
  /\ UNCHANGED <<known, result, error, forced, finished, cancellation,
                 grace, deadline, pipe, published, server>>

\* Up to the first wait for a message: the first pass of the loop cannot meet
\* a positive deadline or a cancellation.  The worker can be started here
\* (JobJournal has the starts that fail, as it has the writes).
StartWorker(j) ==
  /\ Acquire(j)
  /\ state[j] \notin Terminal
  /\ Enter(j, "running")
  /\ worker' = [worker EXCEPT ![j] = "working"]
  /\ task' = [task EXCEPT ![j] = "getting"]
  /\ UNCHANGED <<known, result, error, forced, finished, cancellation,
                 grace, deadline, pipe, published, server>>

\* Mutant: forced_state takes the state of the record.
ForcedCopiesState(j) ==
  IF forced[j] = "none" /\ state[j] = "cancellation_requested"
  THEN state[j] ELSE forced[j]

\* Mutant: the deadline is not tested.
ForcedByCancelOnly(j) ==
  IF forced[j] = "none" /\ state[j] = "cancellation_requested"
  THEN "cancelled" ELSE forced[j]

\* forced_state after the two tests at the top of the loop.
Forced(j) ==
  CASE forced[j] # "none"                    -> forced[j]
    [] forced[j] = "none" /\ deadline[j]     -> "timed_out"
    [] forced[j] = "none" /\ ~ deadline[j]
         /\ state[j] = "cancellation_requested" -> "cancelled"
    [] OTHER                                 -> "none"

\* What a queue holds before the final message, and that message's kind.
Closed(p)   == p # <<>> /\ IsFinish(p[Len(p)])
\* Mutant: the messages left by a dead worker are skipped.
LeadingDropped(p) == <<>>
Leading(p)  == IF Closed(p) THEN SubSeq(p, 1, Len(p) - 1) ELSE p
FinalOf(p)  == IF Closed(p) THEN p[Len(p)].kind ELSE "none"

\* One pass from the top of the loop to its next await, with the messages p
\* left in the queue and the journal lines l.  When the worker is dead the
\* remaining messages are read without suspending.
TopOfLoop(j, p, l) ==
  /\ forced' = [forced EXCEPT ![j] = Forced(j)]
  /\ cancellation' = [cancellation EXCEPT ![j] = @ \/ Forced(j) # forced[j]]
  /\ grace' = [grace EXCEPT ![j] = IF Forced(j) # forced[j] THEN "armed" ELSE @]
  /\ \/ /\ grace[j] = "passed"  \* terminate and leave the loop
        /\ worker' = [worker EXCEPT ![j] = "exited"]
        /\ task' = [task EXCEPT ![j] = "joining"]
        /\ pipe' = [pipe EXCEPT ![j] = p]
        /\ journal' = [journal EXCEPT ![j] = l]
        /\ UNCHANGED finished
     \/ /\ grace[j] # "passed" /\ Alive(j)
        /\ task' = [task EXCEPT ![j] = "getting"]
        /\ pipe' = [pipe EXCEPT ![j] = p]
        /\ journal' = [journal EXCEPT ![j] = l]
        /\ UNCHANGED <<worker, finished>>
     \/ /\ grace[j] # "passed" /\ ~ Alive(j)
        /\ task' = [task EXCEPT ![j] = "joining"]
        /\ finished' = [finished EXCEPT ![j] = FinalOf(p)]
        /\ pipe' = [pipe EXCEPT ![j] = <<>>]
        /\ journal' = [journal EXCEPT ![j] = l \o Leading(p)]
        /\ UNCHANGED worker

loopFrame == <<known, state, result, error, snapshot, waiters, deadline,
               published, server>>

ReceiveProgress(j) ==
  /\ task[j] = "getting"
  /\ pipe[j] # <<>>
  /\ ~ IsFinish(Head(pipe[j]))
  /\ TopOfLoop(j, Tail(pipe[j]), Append(journal[j], Head(pipe[j])))
  /\ UNCHANGED loopFrame

ReceiveFinished(j) ==
  /\ task[j] = "getting"
  /\ pipe[j] # <<>>
  /\ IsFinish(Head(pipe[j]))
  /\ finished' = [finished EXCEPT ![j] = Head(pipe[j]).kind]
  /\ pipe' = [pipe EXCEPT ![j] = Tail(@)]
  /\ task' = [task EXCEPT ![j] = "joining"]
  /\ UNCHANGED <<loopFrame, journal, forced, cancellation, grace, worker>>

\* The reading thread gives up after 0.25 s; the loop resumes only later.
GetTimesOut(j) ==
  /\ task[j] = "getting"
  /\ pipe[j] = <<>>
  /\ task' = [task EXCEPT ![j] = "empty"]
  /\ UNCHANGED <<loopFrame, journal, forced, finished, cancellation, grace,
                 worker, pipe>>

ResumeEmpty(j) ==
  /\ task[j] = "empty"
  /\ \/ /\ Alive(j)
        /\ TopOfLoop(j, pipe[j], journal[j])
     \/ /\ ~ Alive(j)
        /\ task' = [task EXCEPT ![j] = "joining"]
        /\ UNCHANGED <<journal, forced, finished, cancellation, grace,
                       worker, pipe>>
  /\ UNCHANGED loopFrame

\* Mutant: the process is joined without a timeout.
JoinForever(j) == FALSE

\* join(grace) returned with the process alive: terminate it.
JoinTimesOut(j) ==
  /\ task[j] = "joining"
  /\ Alive(j)
  /\ worker' = [worker EXCEPT ![j] = "exited"]
  /\ UNCHANGED <<known, recordVars, waiters, monitorVars, deadline,
                 pipe, published, server>>

\* How _monitor settles the job: its state, result and error code.
WorkerError(f, default) ==
  CASE f \in {"none", "result"} -> default
    [] f = "error"              -> "generation_error"
    [] TimedOut(f)              -> "generation_timed_out"
    [] OTHER                    -> "generation_cancelled"

BestOf(f) == IF HasBest(f) THEN "best" ELSE "none"

\* Mutant: what the worker reports wins over forced_state.
OutcomeStateReported(j) ==
  CASE finished[j] = "result" -> "completed"
    [] finished[j] \in Stopped ->
         (IF TimedOut(finished[j]) THEN "timed_out" ELSE "cancelled")
    [] finished[j] \notin Stopped \cup {"result"} /\ forced[j] # "none" -> forced[j]
    [] OTHER -> "failed"

OutcomeState(j) ==
  CASE forced[j] # "none" -> forced[j]
    [] forced[j] = "none" /\ finished[j] = "result"  -> "completed"
    [] forced[j] = "none" /\ finished[j] \in Stopped ->
         (IF TimedOut(finished[j]) THEN "timed_out" ELSE "cancelled")
    [] OTHER -> "failed"

OutcomeResult(j) ==
  IF forced[j] = "none" /\ finished[j] = "result"
  THEN "plan" ELSE BestOf(finished[j])

\* Mutant: no default error when a stop was forced.
OutcomeErrorReported(j) ==
  IF forced[j] = "none" /\ finished[j] = "none"
  THEN "worker_exited" ELSE WorkerError(finished[j], "none")

OutcomeError(j) ==
  CASE forced[j] = "timed_out" -> WorkerError(finished[j], "generation_timed_out")
    [] forced[j] = "cancelled" -> WorkerError(finished[j], "generation_cancelled")
    [] forced[j] = "none" /\ finished[j] = "none" -> "worker_exited"
    [] OTHER -> WorkerError(finished[j], "none")

\* The process was joined: settle the job and release the slot.  The queue and
\* the locals of _monitor are gone.
Conclude(j) ==
  /\ task[j] = "joining"
  /\ ~ Alive(j)
  /\ Finalize(j, OutcomeState(j), OutcomeResult(j), OutcomeError(j))
  /\ task' = [task EXCEPT ![j] = "done"]
  /\ forced' = [forced EXCEPT ![j] = "none"]
  /\ finished' = [finished EXCEPT ![j] = "none"]
  /\ cancellation' = [cancellation EXCEPT ![j] = FALSE]
  /\ grace' = [grace EXCEPT ![j] = "unset"]
  /\ deadline' = [deadline EXCEPT ![j] = FALSE]
  /\ pipe' = [pipe EXCEPT ![j] = <<>>]
  /\ published' = [published EXCEPT ![j] = 0]
  /\ UNCHANGED <<known, waiters, worker, server>>

(***************************************************************************)
(* Worker processes                                                        *)
(***************************************************************************)

Publish(j) ==
  /\ worker[j] = "working"
  /\ published[j] < MaxProgress
  /\ published' = [published EXCEPT ![j] = @ + 1]
  /\ pipe' = [pipe EXCEPT ![j] = Append(@, Progress(published[j] + 1))]
  /\ UNCHANGED <<known, recordVars, waiters, monitorVars, deadline,
                 worker, server>>

\* The pipeline reports a cancellation only after its event was set; its
\* timeout follows a clock of its own.
Finish(j, f) ==
  /\ worker[j] = "working"
  /\ f \in {"cancelled", "cancelled_best"} => cancellation[j]
  /\ worker' = [worker EXCEPT ![j] = "finished"]
  /\ pipe' = [pipe EXCEPT ![j] = Append(@, Event(f))]
  /\ UNCHANGED <<known, recordVars, waiters, monitorVars, deadline,
                 published, server>>

\* After its last message, or at any moment when the process is killed.
Exit(j) ==
  /\ Alive(j)
  /\ worker' = [worker EXCEPT ![j] = "exited"]
  /\ UNCHANGED <<known, recordVars, waiters, monitorVars, deadline,
                 pipe, published, server>>

(***************************************************************************)
(* Clocks                                                                  *)
(***************************************************************************)

\* Both clocks are read in the loop only, the deadline until a stop is forced.
DeadlinePasses(j) ==
  /\ task[j] \in {"getting", "empty"}
  /\ forced[j] = "none"
  /\ ~ deadline[j]
  /\ deadline' = [deadline EXCEPT ![j] = TRUE]
  /\ UNCHANGED <<known, recordVars, waiters, monitorVars, workerVars, server>>

GracePasses(j) ==
  /\ grace[j] = "armed"
  /\ task[j] \in {"getting", "empty"}
  /\ grace' = [grace EXCEPT ![j] = "passed"]
  /\ UNCHANGED <<known, recordVars, waiters, task, forced, finished,
                 cancellation, deadline, workerVars, server>>

(***************************************************************************)
(* The specification                                                       *)
(***************************************************************************)

DispatchStep(j) ==
  \/ SkipCancelled(j)   \/ StartWorker(j)
  \/ ReceiveProgress(j) \/ ReceiveFinished(j) \/ GetTimesOut(j)
  \/ ResumeEmpty(j)     \/ JoinTimesOut(j)    \/ Conclude(j)

Next ==
  \/ Lookup \/ Shutdown \/ ShutdownReturns
  \/ \E j \in Jobs :
       \/ Create(j) \/ CancelQueued(j) \/ CancelRunning(j)
       \/ DispatchStep(j)
       \/ Publish(j) \/ (\E f \in Endings : Finish(j, f)) \/ Exit(j)
       \/ DeadlinePasses(j) \/ GracePasses(j)

\* The event loop runs every ready task and time passes.  Nothing is assumed
\* of clients or of worker processes.
Fairness ==
  /\ WF_vars(ShutdownReturns)
  /\ \A j \in Jobs : /\ WF_vars(DispatchStep(j))
                     /\ WF_vars(DeadlinePasses(j))
                     /\ WF_vars(GracePasses(j))

Spec     == Init /\ [][Next]_vars
FairSpec == Spec /\ Fairness

(***************************************************************************)
(* Properties                                                              *)
(***************************************************************************)

\* Every variable keeps the values the code gives it.
TypeOK ==
  /\ known \subseteq Jobs
  /\ state \in [Jobs -> States]
  /\ result \in [Jobs -> {"none", "plan", "best"}]
  /\ error \in [Jobs -> Errors]
  /\ journal \in [Jobs -> Seq(JobEvents \cup ProgressEvents)]
  /\ snapshot \in [Jobs -> [state : States, sequence : Nat]]
  /\ waiters \in Seq(Jobs)
  /\ task \in [Jobs -> TaskStates]
  /\ forced \in [Jobs -> {"none", "timed_out", "cancelled"}]
  /\ finished \in [Jobs -> Finishes \cup {"none"}]
  /\ cancellation \in [Jobs -> BOOLEAN]
  /\ deadline \in [Jobs -> BOOLEAN]
  /\ grace \in [Jobs -> {"unset", "armed", "passed"}]
  /\ worker \in [Jobs -> {"none", "working", "finished", "exited"}]
  /\ pipe \in [Jobs -> Seq(FinishMessages \cup ProgressEvents)]
  /\ published \in [Jobs -> 0 .. MaxProgress]
  /\ server \in {"up", "stopping", "stopped"}

\* A live worker process always has a dispatch task that monitors it and holds
\* a slot, for a job a client sees as running: no orphan computes for a job
\* that is over, and no more than MaxConcurrent processes run.
WorkersSupervised ==
  /\ \A j \in Jobs : Alive(j) => /\ task[j] \in Suspended
                                 /\ state[j] \in {"running", "cancellation_requested"}
  /\ Cardinality({j \in Jobs : Alive(j)}) <= MaxConcurrent

\* However jobs are cancelled, purged and retried, the jobs that are not over
\* never exceed what create admits, although cancelled jobs leave their
\* dispatch tasks behind in the semaphore.
AdmissionBounded ==
  Cardinality({j \in Jobs : state[j] \notin Terminal \cup {"absent"}})
    <= MaxConcurrent + MaxQueued

\* The journal of a job has a terminal event exactly when the job is over; it
\* is the last line, names the state of the record and was reached by the
\* snapshot: no worker event follows it and no second one is written.
JournalEndsWithState ==
  \A j \in Jobs :
    /\ \A i \in 1 .. Len(journal[j]) :
         journal[j][i].kind \in Terminal =>
           /\ i = Len(journal[j])
           /\ journal[j][i].kind = state[j]
    /\ state[j] \in Terminal =>
         /\ journal[j] # <<>>
         /\ journal[j][Len(journal[j])] = Event(state[j])
         /\ snapshot[j] = [state |-> state[j], sequence |-> Len(journal[j])]

Logged(lines)        == {i \in 1 .. Len(lines) : lines[i].kind = "progress"}
LoggedNumbers(lines) == {lines[i].number : i \in Logged(lines)}
InOrder(lines) ==
  \A i, k \in Logged(lines) : i < k => lines[i].number < lines[k].number

\* The worker's events reach the journal in the order it published them, none
\* twice and without a gap; and once its final message was read, none is
\* missing.
WorkerEventsInOrder ==
  \A j \in Jobs :
    /\ InOrder(journal[j])
    /\ \A n \in LoggedNumbers(journal[j]) : 1 .. n \subseteq LoggedNumbers(journal[j])
    /\ finished[j] # "none" => LoggedNumbers(journal[j]) = 1 .. published[j]

\* What a client reads of a finished job is consistent: a completed job has the
\* worker's result and no error, every other end has an error, and only a job
\* that was stopped while running may carry a best plan.
OutcomeConsistent ==
  \A j \in Jobs :
    /\ state[j] \notin Terminal => result[j] = "none" /\ error[j] = "none"
    /\ state[j] = "completed" => result[j] = "plan" /\ error[j] = "none"
    /\ state[j] = "failed" => result[j] = "none"
    /\ state[j] \in {"cancelled", "timed_out"} => result[j] # "plan"
    /\ state[j] \in Terminal \ {"completed"} => error[j] # "none"

\* Dispatch task k is before j in the semaphore.
Before(k, j) ==
  \E a, b \in 1 .. Len(waiters) : a < b /\ waiters[a] = k /\ waiters[b] = j

\* Dispatch is fair: when a job is started, every other job that is still
\* queued stands behind it in the semaphore, where create put it later.
NoQueueJumping ==
  [][\A j, k \in Jobs :
       state[j] = "queued" /\ state[k] = "queued" /\ state'[k] = "running" =>
         j = k \/ Before(k, j)]_vars

\* A started job ends cancelled only if a client asked for it or the server is
\* stopping, although a passed deadline raises the same flag in the worker; and
\* it ends timed out only if its deadline passed or the worker said so.
StopHasCause ==
  [][\A j \in Jobs :
       /\ state[j] \in {"running", "cancellation_requested"} /\ state'[j] = "cancelled" =>
            \/ server # "up"
            \/ \E i \in 1 .. Len(journal[j]) :
                 journal[j][i].kind = "cancellation_requested"
       /\ state[j] # "timed_out" /\ state'[j] = "timed_out" =>
            deadline[j] \/ TimedOut(finished[j])]_vars

\* A finished job is never changed again, whatever messages, timers and tasks
\* are still around, and its worker is never brought back.
TerminalIsFinal ==
  [][\A j \in Jobs :
       state[j] \in Terminal =>
         /\ <<state'[j], result'[j], error'[j]>> = <<state[j], result[j], error[j]>>
         /\ <<journal'[j], snapshot'[j]>> = <<journal[j], snapshot[j]>>
         /\ ~ Alive(j)']_vars

\* Every admitted job ends, even if its worker hangs or dies silently.
EveryJobEnds == \A j \in Jobs : state[j] = "queued" ~> state[j] \in Terminal

\* Shutdown returns, even with workers that ignore their cancellation.
ShutdownEnds == server = "stopping" ~> server = "stopped"

\* The manager implements the lifecycle promised to clients.
Lifecycle == INSTANCE JobLifecycle WITH
  phase <- state,
  ahead <- [j \in Jobs |-> {k \in Jobs : /\ state[k] = "queued" /\ state[j] = "queued"
                                         /\ Before(k, j)}]
ImplementsLifecycle == Lifecycle!Spec

(***************************************************************************)
(* What a message of the code says and the code does not keep              *)
(***************************************************************************)

\* manager.py:334: the worker exited without a result.
WorkerExitedWithoutResult ==
  [][\A j \in Jobs :
       error[j] # "worker_exited" /\ error'[j] = "worker_exited" =>
         \A i \in 1 .. Len(pipe[j]) : pipe[j][i].kind # "result"]_vars
=============================================================================
