-------------------------- MODULE JobManagerProofs --------------------------
(***************************************************************************)
(* Theorems about JobManager for every set of jobs and every limit.        *)
(***************************************************************************)
EXTENDS JobManager, FiniteSetTheorems, SequenceTheorems, TLAPS

Messages == FinishMessages \cup ProgressEvents
Lines    == JobEvents \cup ProgressEvents

\* A worker sends its final message last and is then no longer working; no
\* queue outlives the task that reads it.
Shaped(p) == \A i \in 1 .. Len(p) : IsFinish(p[i]) => i = Len(p)
PipesShaped ==
  \A j \in Jobs :
    /\ Shaped(pipe[j])
    /\ worker[j] = "working" =>
         \A i \in 1 .. Len(pipe[j]) : ~ IsFinish(pipe[j][i])
    /\ task[j] \notin Suspended => pipe[j] = <<>>

-----------------------------------------------------------------------------

\* Kinds of messages: progress is not final.
LEMMA Kinds ==
  /\ \A m \in ProgressEvents : ~ IsFinish(m) /\ m.kind = "progress"
  /\ \A m \in Messages : ~ IsFinish(m) => m \in ProgressEvents
  /\ \A m \in FinishMessages : m.kind \in Finishes
PROOF BY DEF ProgressEvents, Messages, FinishMessages, IsFinish, Finishes,
             Stopped, Event, Progress

\* What is read of a well-shaped queue before its final message is progress.
LEMMA LeadingProgress ==
  ASSUME NEW p \in Seq(Messages), Shaped(p)
  PROVE  /\ Leading(p) \in Seq(ProgressEvents)
         /\ FinalOf(p) \in Finishes \cup {"none"}
PROOF
<1>1. CASE Closed(p)
  <2>1. p # <<>> /\ Len(p) \in Nat /\ Len(p) >= 1 BY <1>1 DEF Closed
  <2>2. p[Len(p)].kind \in Finishes BY <1>1 DEF Closed, IsFinish
  <2>3. Leading(p) = SubSeq(p, 1, Len(p) - 1) BY <1>1 DEF Leading
  <2>4. \A i \in 1 .. Len(p) - 1 : p[i] \in ProgressEvents
    BY Kinds, <2>1 DEF Shaped
  <2>5. Leading(p) \in Seq(ProgressEvents) BY <2>1, <2>3, <2>4
  <2> QED BY <2>2, <2>5, <1>1 DEF FinalOf
<1>2. CASE ~ Closed(p)
  <2>1. \A i \in 1 .. Len(p) : ~ IsFinish(p[i]) BY <1>2 DEF Shaped, Closed
  <2>2. \A i \in 1 .. Len(p) : p[i] \in ProgressEvents BY <2>1, Kinds
  <2>3. p \in Seq(ProgressEvents) BY <2>2
  <2> QED BY <1>2, <2>3 DEF Leading, FinalOf
<1> QED BY <1>1, <1>2

\* The tail of a queue is shaped like the queue.
LEMMA TailShaped ==
  ASSUME NEW p \in Seq(Messages), p # <<>>, Shaped(p)
  PROVE  Tail(p) \in Seq(Messages) /\ Shaped(Tail(p)) /\ Head(p) \in Messages
PROOF
<1>1. Tail(p) \in Seq(Messages) /\ Head(p) \in Messages OBVIOUS
<1>2. Len(Tail(p)) = Len(p) - 1 OBVIOUS
<1>3. \A i \in 1 .. Len(Tail(p)) : Tail(p)[i] = p[i + 1] OBVIOUS
<1>4. ASSUME NEW i \in 1 .. Len(Tail(p)), IsFinish(Tail(p)[i])
      PROVE  i = Len(Tail(p))
  <2>1. i + 1 \in 1 .. Len(p) /\ Len(p) \in Nat /\ i \in Nat BY <1>2
  <2>2. IsFinish(p[i + 1]) BY <1>3, <1>4
  <2>3. i + 1 = Len(p) BY <2>1, <2>2 DEF Shaped
  <2> QED BY <2>1, <2>3, <1>2
<1>5. Shaped(Tail(p)) BY <1>4 DEF Shaped
<1> QED BY <1>1, <1>5

-----------------------------------------------------------------------------
(* Types *)

\* _append_event and _write_snapshot keep the types of record and files.
LEMMA EnterTyped ==
  ASSUME TypeOK, NEW j \in Jobs, NEW s \in States \ {"absent"}, Enter(j, s)
  PROVE  /\ state' \in [Jobs -> States]
         /\ journal' \in [Jobs -> Seq(Lines)]
         /\ snapshot' \in [Jobs -> [state : States, sequence : Nat]]
PROOF
<1>1. Event(s) \in Lines BY DEF Lines, JobEvents
<1>2. journal[j] \in Seq(Lines) BY DEF TypeOK, Lines
<1>3. Append(journal[j], Event(s)) \in Seq(Lines) BY <1>1, <1>2
<1>4. Len(journal[j]) + 1 \in Nat BY <1>2
<1> QED BY <1>3, <1>4 DEF TypeOK, Enter, Lines

\* _finalize keeps the types.
LEMMA FinalizeTyped ==
  ASSUME TypeOK, NEW j \in Jobs, NEW s \in Terminal,
         NEW r \in {"none", "plan", "best"}, NEW e \in Errors,
         Finalize(j, s, r, e)
  PROVE  /\ state' \in [Jobs -> States]
         /\ journal' \in [Jobs -> Seq(Lines)]
         /\ snapshot' \in [Jobs -> [state : States, sequence : Nat]]
         /\ result' \in [Jobs -> {"none", "plan", "best"}]
         /\ error' \in [Jobs -> Errors]
PROOF
<1>1. CASE state[j] \in Terminal
  BY <1>1 DEF Finalize, TypeOK, recordVars, Lines
<1>2. CASE state[j] \notin Terminal
  <2>1. s \in States \ {"absent"} BY DEF Terminal, States
  <2>2. Enter(j, s) BY <1>2 DEF Finalize
  <2>3. result' = [result EXCEPT ![j] = r] /\ error' = [error EXCEPT ![j] = e]
    BY <1>2 DEF Finalize
  <2> QED BY <2>1, <2>2, <2>3, EnterTyped DEF TypeOK
<1> QED BY <1>1, <1>2

\* What _monitor settles a job with.
LEMMA OutcomeTyped ==
  ASSUME TypeOK, NEW j \in Jobs
  PROVE  /\ OutcomeState(j) \in Terminal
         /\ OutcomeResult(j) \in {"none", "plan", "best"}
         /\ OutcomeError(j) \in Errors
PROOF
<1>1. forced[j] \in {"none", "timed_out", "cancelled"} BY DEF TypeOK
<1>2. finished[j] \in Finishes \cup {"none"} BY DEF TypeOK
<1>3. OutcomeState(j) \in Terminal
  BY <1>1, <1>2 DEF OutcomeState, Terminal, TimedOut, Stopped, Finishes
<1>4. OutcomeResult(j) \in {"none", "plan", "best"}
  BY DEF OutcomeResult, BestOf
<1>5. \A d \in Errors : WorkerError(finished[j], d) \in Errors
  BY <1>2 DEF WorkerError, Errors, TimedOut, Finishes, Stopped
<1>6. OutcomeError(j) \in Errors
  BY <1>1, <1>5 DEF OutcomeError, Errors
<1> QED BY <1>3, <1>4, <1>6

\* A pass of the loop keeps the types and the shape of the queue.
LEMMA TopOfLoopTyped ==
  ASSUME TypeOK, NEW j \in Jobs,
         NEW p \in Seq(Messages), Shaped(p),
         NEW l \in Seq(Lines),
         TopOfLoop(j, p, l)
  PROVE  /\ forced' \in [Jobs -> {"none", "timed_out", "cancelled"}]
         /\ cancellation' \in [Jobs -> BOOLEAN]
         /\ grace' \in [Jobs -> {"unset", "armed", "passed"}]
         /\ worker' \in [Jobs -> {"none", "working", "finished", "exited"}]
         /\ task' \in [Jobs -> TaskStates]
         /\ finished' \in [Jobs -> Finishes \cup {"none"}]
         /\ pipe' \in [Jobs -> Seq(Messages)]
         /\ journal' \in [Jobs -> Seq(Lines)]
PROOF
<1>1. Forced(j) \in {"none", "timed_out", "cancelled"} BY DEF Forced, TypeOK
<1>2. forced' \in [Jobs -> {"none", "timed_out", "cancelled"}]
  BY <1>1 DEF TopOfLoop, TypeOK
<1>3. grace' \in [Jobs -> {"unset", "armed", "passed"}] BY DEF TopOfLoop, TypeOK
<1>4. cancellation' \in [Jobs -> BOOLEAN] BY DEF TopOfLoop, TypeOK
<1>5. Leading(p) \in Seq(Lines) /\ FinalOf(p) \in Finishes \cup {"none"}
  <2>1. Leading(p) \in Seq(ProgressEvents) BY LeadingProgress
  <2>2. Leading(p) \in Seq(Lines) BY <2>1 DEF Lines
  <2> QED BY <2>2, LeadingProgress
<1>6. l \o Leading(p) \in Seq(Lines) BY <1>5
<1>7. CASE grace[j] = "passed"
  <2>1. /\ worker' = [worker EXCEPT ![j] = "exited"]
        /\ task' = [task EXCEPT ![j] = "joining"]
        /\ pipe' = [pipe EXCEPT ![j] = p]
        /\ journal' = [journal EXCEPT ![j] = l]
        /\ finished' = finished
    BY <1>7 DEF TopOfLoop
  <2> QED BY <1>2, <1>3, <1>4, <2>1
          DEF TypeOK, TaskStates, Suspended, Messages, Lines
<1>8. CASE grace[j] # "passed" /\ Alive(j)
  <2>1. /\ worker' = worker
        /\ task' = [task EXCEPT ![j] = "getting"]
        /\ pipe' = [pipe EXCEPT ![j] = p]
        /\ journal' = [journal EXCEPT ![j] = l]
        /\ finished' = finished
    BY <1>8 DEF TopOfLoop
  <2> QED BY <1>2, <1>3, <1>4, <2>1
          DEF TypeOK, TaskStates, Suspended, Messages, Lines
<1>9. CASE grace[j] # "passed" /\ ~ Alive(j)
  <2>1. /\ worker' = worker
        /\ task' = [task EXCEPT ![j] = "joining"]
        /\ pipe' = [pipe EXCEPT ![j] = <<>>]
        /\ journal' = [journal EXCEPT ![j] = l \o Leading(p)]
        /\ finished' = [finished EXCEPT ![j] = FinalOf(p)]
    BY <1>9 DEF TopOfLoop
  <2> QED BY SMTT(30), <1>2, <1>3, <1>4, <1>5, <1>6, <2>1
          DEF TypeOK, TaskStates, Suspended, Messages, Lines
<1> QED BY <1>7, <1>8, <1>9

\* Every step keeps the types.
LEMMA TypeStep ==
  ASSUME TypeOK, PipesShaped, [Next]_vars
  PROVE  TypeOK'
PROOF
<1> USE LimitsAssumption
<1>1. CASE UNCHANGED vars
  BY <1>1 DEF TypeOK, vars, recordVars, monitorVars, workerVars
<1>2. CASE Lookup
  BY <1>2 DEF TypeOK, Lookup, Expire, recordVars, monitorVars, workerVars
<1>3. CASE Shutdown
  BY <1>3 DEF TypeOK, Shutdown, recordVars, workerVars
<1>4. CASE ShutdownReturns
  BY <1>4 DEF TypeOK, ShutdownReturns, recordVars, monitorVars, workerVars
<1>5. ASSUME NEW j \in Jobs, Create(j)
      PROVE  TypeOK'
  <2>1. "queued" \in States \ {"absent"} BY DEF States, Terminal
  <2>2. Enter(j, "queued") BY <1>5 DEF Create
  <2>3. Append(waiters, j) \in Seq(Jobs) BY DEF TypeOK
  <2> QED BY <1>5, <2>1, <2>2, <2>3, EnterTyped
          DEF TypeOK, Create, Lines, workerVars, TaskStates
<1>6. ASSUME NEW j \in Jobs, CancelQueued(j)
      PROVE  TypeOK'
  <2>1. Finalize(j, "cancelled", "none", "generation_cancelled")
    BY <1>6 DEF CancelQueued
  <2>2. "cancelled" \in Terminal /\ "generation_cancelled" \in Errors
    BY DEF Terminal, Errors
  <2> QED BY <1>6, <2>1, <2>2, FinalizeTyped
          DEF TypeOK, CancelQueued, Expire, Lines, monitorVars, workerVars
<1>7. ASSUME NEW j \in Jobs, CancelRunning(j)
      PROVE  TypeOK'
  <2>1. "cancellation_requested" \in States \ {"absent"}
    BY DEF States, Terminal
  <2>2. Enter(j, "cancellation_requested") BY <1>7 DEF CancelRunning
  <2> QED BY <1>7, <2>1, <2>2, EnterTyped
          DEF TypeOK, CancelRunning, Expire, Lines, workerVars
<1>8. ASSUME NEW j \in Jobs, SkipCancelled(j)
      PROVE  TypeOK'
  <2>1. Tail(waiters) \in Seq(Jobs) BY <1>8 DEF TypeOK, SkipCancelled, Acquire
  <2> QED BY <1>8, <2>1
          DEF TypeOK, SkipCancelled, Acquire, recordVars, workerVars, TaskStates
<1>9. ASSUME NEW j \in Jobs, StartWorker(j)
      PROVE  TypeOK'
  <2>1. Tail(waiters) \in Seq(Jobs) BY <1>9 DEF TypeOK, StartWorker, Acquire
  <2>2. "running" \in States \ {"absent"} BY DEF States, Terminal
  <2>3. Enter(j, "running") BY <1>9 DEF StartWorker
  <2> QED BY <1>9, <2>1, <2>2, <2>3, EnterTyped
          DEF TypeOK, StartWorker, Acquire, Lines, TaskStates, Suspended
<1>10. ASSUME NEW j \in Jobs, ReceiveProgress(j)
       PROVE  TypeOK'
  <2>1. pipe[j] \in Seq(Messages) /\ pipe[j] # <<>> /\ Shaped(pipe[j])
    BY <1>10 DEF TypeOK, PipesShaped, Messages, ReceiveProgress
  <2>2. Tail(pipe[j]) \in Seq(Messages) /\ Shaped(Tail(pipe[j]))
    BY <2>1, TailShaped
  <2>3. Head(pipe[j]) \in Lines
    BY <1>10, <2>1, TailShaped, Kinds DEF ReceiveProgress, Lines
  <2>4. Append(journal[j], Head(pipe[j])) \in Seq(Lines)
    BY <2>3 DEF TypeOK, Lines
  <2>5. TopOfLoop(j, Tail(pipe[j]), Append(journal[j], Head(pipe[j])))
    BY <1>10 DEF ReceiveProgress
  <2>6. UNCHANGED loopFrame BY <1>10 DEF ReceiveProgress
  <2> QED BY <2>2, <2>4, <2>5, <2>6, TopOfLoopTyped
          DEF TypeOK, loopFrame, Lines, Messages
<1>11. ASSUME NEW j \in Jobs, ReceiveFinished(j)
       PROVE  TypeOK'
  <2>1. pipe[j] \in Seq(Messages) /\ pipe[j] # <<>> /\ Shaped(pipe[j])
    BY <1>11 DEF TypeOK, PipesShaped, Messages, ReceiveFinished
  <2>2. Tail(pipe[j]) \in Seq(Messages) BY <2>1, TailShaped
  <2>3. Head(pipe[j]).kind \in Finishes BY <1>11 DEF ReceiveFinished, IsFinish
  <2> QED BY <1>11, <2>2, <2>3
          DEF TypeOK, ReceiveFinished, loopFrame, Messages, TaskStates, Suspended
<1>12. ASSUME NEW j \in Jobs, GetTimesOut(j)
       PROVE  TypeOK'
  BY <1>12 DEF TypeOK, GetTimesOut, loopFrame, TaskStates, Suspended
<1>13. ASSUME NEW j \in Jobs, ResumeEmpty(j)
       PROVE  TypeOK'
  <2>1. UNCHANGED loopFrame BY <1>13 DEF ResumeEmpty
  <2>2. CASE Alive(j)
    <3>1. TopOfLoop(j, pipe[j], journal[j]) BY <1>13, <2>2 DEF ResumeEmpty
    <3>2. pipe[j] \in Seq(Messages) /\ Shaped(pipe[j])
      BY DEF TypeOK, PipesShaped, Messages
    <3>3. journal[j] \in Seq(Lines) BY DEF TypeOK, Lines
    <3> QED BY <2>1, <3>1, <3>2, <3>3, TopOfLoopTyped
            DEF TypeOK, loopFrame, Lines, Messages
  <2>3. CASE ~ Alive(j)
    <3>1. /\ task' = [task EXCEPT ![j] = "joining"]
          /\ UNCHANGED <<journal, forced, finished, cancellation, grace,
                         worker, pipe>>
      BY <1>13, <2>3 DEF ResumeEmpty
    <3> QED BY <2>1, <3>1 DEF TypeOK, loopFrame, TaskStates, Suspended
  <2> QED BY <2>2, <2>3
<1>14. ASSUME NEW j \in Jobs, JoinTimesOut(j)
       PROVE  TypeOK'
  BY <1>14 DEF TypeOK, JoinTimesOut, recordVars, monitorVars
<1>15. ASSUME NEW j \in Jobs, Conclude(j)
       PROVE  TypeOK'
  <2>1. Finalize(j, OutcomeState(j), OutcomeResult(j), OutcomeError(j))
    BY <1>15 DEF Conclude
  <2>2. /\ state' \in [Jobs -> States]
        /\ journal' \in [Jobs -> Seq(Lines)]
        /\ snapshot' \in [Jobs -> [state : States, sequence : Nat]]
        /\ result' \in [Jobs -> {"none", "plan", "best"}]
        /\ error' \in [Jobs -> Errors]
    BY <2>1, OutcomeTyped, FinalizeTyped
  <2>3. <<>> \in Seq(Messages) /\ 0 \in 0 .. MaxProgress OBVIOUS
  <2> QED BY <1>15, <2>2, <2>3
          DEF TypeOK, Conclude, TaskStates, Lines, Messages
<1>16. ASSUME NEW j \in Jobs, Publish(j)
       PROVE  TypeOK'
  <2>1. published[j] + 1 \in 1 .. MaxProgress BY <1>16 DEF Publish, TypeOK
  <2>2. Progress(published[j] + 1) \in Messages
    BY <2>1 DEF Messages, ProgressEvents
  <2>3. Append(pipe[j], Progress(published[j] + 1)) \in Seq(Messages)
    BY <2>2 DEF TypeOK, Messages
  <2> QED BY SMTT(30), <1>16, <2>1, <2>3
          DEF TypeOK, Publish, Messages, recordVars, monitorVars
<1>17. ASSUME NEW j \in Jobs, NEW f \in Endings, Finish(j, f)
       PROVE  TypeOK'
  <2>1. Event(f) \in Messages BY DEF Messages, FinishMessages
  <2>2. Append(pipe[j], Event(f)) \in Seq(Messages)
    BY <2>1 DEF TypeOK, Messages
  <2> QED BY <1>17, <2>2 DEF TypeOK, Finish, Messages, recordVars, monitorVars
<1>18. ASSUME NEW j \in Jobs, Exit(j)
       PROVE  TypeOK'
  BY <1>18 DEF TypeOK, Exit, recordVars, monitorVars
<1>19. ASSUME NEW j \in Jobs, DeadlinePasses(j)
       PROVE  TypeOK'
  BY <1>19 DEF TypeOK, DeadlinePasses, recordVars, monitorVars, workerVars
<1>20. ASSUME NEW j \in Jobs, GracePasses(j)
       PROVE  TypeOK'
  BY <1>20 DEF TypeOK, GracePasses, recordVars, workerVars
<1> QED BY <1>1, <1>2, <1>3, <1>4, <1>5, <1>6, <1>7, <1>8, <1>9, <1>10, <1>11,
           <1>12, <1>13, <1>14, <1>15, <1>16, <1>17, <1>18, <1>19, <1>20
        DEF Next, DispatchStep

-----------------------------------------------------------------------------
(* Tasks, records, semaphore and queues *)

\* Where the dispatch task of a job is decides which states its record may
\* have, and only a monitored job has a live worker.
TasksMatch ==
  \A j \in Jobs :
    /\ task[j] = "none" <=> state[j] = "absent"
    /\ task[j] \in Suspended <=> state[j] \in {"running", "cancellation_requested"}
    /\ state[j] = "queued" => task[j] = "waiting"
    /\ Alive(j) => task[j] \in Suspended

\* The semaphore holds each waiting task once.
WaitersOnce ==
  /\ \A a \in 1 .. Len(waiters) : task[waiters[a]] = "waiting"
  /\ \A a, b \in 1 .. Len(waiters) : waiters[a] = waiters[b] => a = b

\* The semaphore is never over-committed.
SlotsBounded ==
  IsFiniteSet(Monitored) /\ Cardinality(Monitored) <= MaxConcurrent

\* What the steps of the message loop of a job have in common.
LEMMA LoopStep ==
  ASSUME TypeOK, NEW j \in Jobs,
         \/ ReceiveProgress(j) \/ ReceiveFinished(j)
         \/ GetTimesOut(j)     \/ ResumeEmpty(j)
  PROVE  /\ task[j] \in Suspended
         /\ \E t \in Suspended : task' = [task EXCEPT ![j] = t]
         /\ worker' \in {worker, [worker EXCEPT ![j] = "exited"]}
         /\ UNCHANGED loopFrame
         /\ \A k \in Jobs \ {j} : pipe'[k] = pipe[k] /\ journal'[k] = journal[k]
PROOF
<1>1. ASSUME NEW p, NEW l, TopOfLoop(j, p, l)
      PROVE  /\ \E t \in Suspended : task' = [task EXCEPT ![j] = t]
             /\ worker' \in {worker, [worker EXCEPT ![j] = "exited"]}
             /\ \A k \in Jobs \ {j} : pipe'[k] = pipe[k] /\ journal'[k] = journal[k]
  BY <1>1 DEF TopOfLoop, Suspended, TypeOK
<1>2. CASE ReceiveProgress(j)
  BY <1>1, <1>2 DEF ReceiveProgress, Suspended
<1>3. CASE ReceiveFinished(j)
  BY <1>3 DEF ReceiveFinished, Suspended, TypeOK, loopFrame
<1>4. CASE GetTimesOut(j)
  BY <1>4 DEF GetTimesOut, Suspended, TypeOK
<1>5. CASE ResumeEmpty(j)
  <2>1. task[j] \in Suspended /\ UNCHANGED loopFrame
    BY <1>5 DEF ResumeEmpty, Suspended
  <2>2. CASE Alive(j)
    BY <1>1, <1>5, <2>1, <2>2 DEF ResumeEmpty
  <2>3. CASE ~ Alive(j)
    BY <1>5, <2>1, <2>3 DEF ResumeEmpty, Suspended
  <2> QED BY <2>2, <2>3
<1> QED BY <1>2, <1>3, <1>4, <1>5

\* A step of the system, with the four loop steps as one.
InLoop(j) == \/ ReceiveProgress(j) \/ ReceiveFinished(j)
             \/ GetTimesOut(j)     \/ ResumeEmpty(j)

\* A record that leaves state[j] for s through _finalize.
LEMMA FinalizeState ==
  ASSUME TypeOK, NEW j \in Jobs, NEW s \in Terminal, NEW r, NEW e,
         Finalize(j, s, r, e)
  PROVE  /\ state' \in {state, [state EXCEPT ![j] = s]}
         /\ state'[j] \in Terminal
PROOF BY DEF Finalize, Enter, TypeOK, recordVars

\* The task that acquires a slot was waiting.
LEMMA AcquireWaiting ==
  ASSUME TypeOK, WaitersOnce, NEW j \in Jobs, Acquire(j)
  PROVE  task[j] = "waiting"
PROOF
<1>1. waiters # <<>> /\ j = Head(waiters) BY DEF Acquire
<1>2. 1 \in 1 .. Len(waiters) /\ j = waiters[1] BY <1>1 DEF TypeOK
<1> QED BY <1>2 DEF WaitersOnce

\* Every step keeps records and tasks in agreement.
LEMMA TasksMatchStep ==
  ASSUME TypeOK, TasksMatch, WaitersOnce, [Next]_vars
  PROVE  TasksMatch'
PROOF
<1> USE DEF TasksMatch, Suspended, Alive
<1>1. CASE UNCHANGED vars
  BY <1>1 DEF vars, recordVars, monitorVars, workerVars
<1>2. CASE Lookup
  BY <1>2 DEF Lookup, recordVars, monitorVars, workerVars
<1>3. CASE Shutdown BY <1>3 DEF Shutdown, recordVars, workerVars
<1>4. CASE ShutdownReturns
  BY <1>4 DEF ShutdownReturns, recordVars, monitorVars, workerVars
<1>5. ASSUME NEW j \in Jobs, Create(j)
      PROVE  TasksMatch'
  BY <1>5 DEF Create, Enter, TypeOK, workerVars
<1>6. ASSUME NEW j \in Jobs, CancelQueued(j)
      PROVE  TasksMatch'
  <2>1. state' \in {state, [state EXCEPT ![j] = "cancelled"]}
    BY <1>6, FinalizeState DEF CancelQueued, Terminal
  <2> QED BY <1>6, <2>1 DEF CancelQueued, TypeOK, monitorVars, workerVars
<1>7. ASSUME NEW j \in Jobs, CancelRunning(j)
      PROVE  TasksMatch'
  BY <1>7 DEF CancelRunning, Enter, TypeOK, workerVars
<1>8. ASSUME NEW j \in Jobs, SkipCancelled(j)
      PROVE  TasksMatch'
  <2>1. task[j] = "waiting" BY <1>8, AcquireWaiting DEF SkipCancelled
  <2> QED BY <1>8, <2>1 DEF SkipCancelled, TypeOK, recordVars, workerVars, Terminal
<1>9. ASSUME NEW j \in Jobs, StartWorker(j)
      PROVE  TasksMatch'
  BY <1>9 DEF StartWorker, Enter, TypeOK
<1>10. ASSUME NEW j \in Jobs, InLoop(j)
       PROVE  TasksMatch'
  <2>1. PICK t \in Suspended : task' = [task EXCEPT ![j] = t]
    BY <1>10, LoopStep DEF InLoop
  <2>2. task[j] \in Suspended /\ state' = state
    BY <1>10, LoopStep DEF InLoop, loopFrame
  <2>3. worker' \in {worker, [worker EXCEPT ![j] = "exited"]}
    BY <1>10, LoopStep DEF InLoop
  <2> QED BY <2>1, <2>2, <2>3 DEF TypeOK
<1>11. ASSUME NEW j \in Jobs, JoinTimesOut(j)
       PROVE  TasksMatch'
  BY <1>11 DEF JoinTimesOut, TypeOK, recordVars, monitorVars
<1>12. ASSUME NEW j \in Jobs, Conclude(j)
       PROVE  TasksMatch'
  <2>1. /\ state' \in {state, [state EXCEPT ![j] = OutcomeState(j)]}
        /\ state'[j] \in Terminal
    BY <1>12, OutcomeTyped, FinalizeState DEF Conclude
  <2>2. /\ task' = [task EXCEPT ![j] = "done"]
        /\ worker' = worker
        /\ worker[j] \notin {"working", "finished"}
    BY <1>12 DEF Conclude
  <2>3. \A k \in Jobs \ {j} : state'[k] = state[k]
    BY <2>1 DEF TypeOK
  <2>4. task'[j] = "done" /\ \A k \in Jobs \ {j} : task'[k] = task[k]
    BY <2>2 DEF TypeOK
  <2>5. state'[j] \notin {"absent", "queued", "running", "cancellation_requested"}
    BY <2>1 DEF Terminal
  <2> QED BY <2>2, <2>3, <2>4, <2>5
<1>13. ASSUME NEW j \in Jobs, Publish(j)
       PROVE  TasksMatch'
  BY <1>13 DEF Publish, recordVars, monitorVars
<1>14. ASSUME NEW j \in Jobs, NEW f \in Endings, Finish(j, f)
       PROVE  TasksMatch'
  BY <1>14 DEF Finish, TypeOK, recordVars, monitorVars
<1>15. ASSUME NEW j \in Jobs, Exit(j)
       PROVE  TasksMatch'
  BY <1>15 DEF Exit, TypeOK, recordVars, monitorVars
<1>16. ASSUME NEW j \in Jobs, DeadlinePasses(j) \/ GracePasses(j)
       PROVE  TasksMatch'
  BY <1>16 DEF DeadlinePasses, GracePasses, recordVars, monitorVars, workerVars
<1> QED BY <1>1, <1>2, <1>3, <1>4, <1>5, <1>6, <1>7, <1>8, <1>9, <1>10, <1>11,
           <1>12, <1>13, <1>14, <1>15, <1>16
        DEF Next, DispatchStep, InLoop

\* Every step but Create and the two that acquire a slot leaves the semaphore
\* alone, and lets waiting tasks wait.
LEMMA OtherSteps ==
  ASSUME TypeOK, TasksMatch, [Next]_vars,
         ~ \E j \in Jobs : Create(j) \/ SkipCancelled(j) \/ StartWorker(j)
  PROVE  /\ waiters' = waiters
         /\ \A j \in Jobs : task[j] = "waiting" => task'[j] = "waiting"
         /\ \A j \in Jobs : task'[j] \in Suspended => task[j] \in Suspended
PROOF
<1> DEFINE Kept ==
      /\ waiters' = waiters
      /\ \A j \in Jobs : task[j] = "waiting" => task'[j] = "waiting"
      /\ \A j \in Jobs : task'[j] \in Suspended => task[j] \in Suspended
<1>1. CASE waiters' = waiters /\ task' = task BY <1>1
<1>2. ASSUME NEW j \in Jobs, InLoop(j)
      PROVE  Kept
  <2>1. PICK t \in Suspended : task' = [task EXCEPT ![j] = t]
    BY <1>2, LoopStep DEF InLoop
  <2>2. task[j] \in Suspended /\ waiters' = waiters
    BY <1>2, LoopStep DEF InLoop, loopFrame
  <2> QED BY <2>1, <2>2 DEF TypeOK, Suspended
<1>3. ASSUME NEW j \in Jobs, Conclude(j)
      PROVE  Kept
  BY <1>3 DEF Conclude, TypeOK, Suspended
<1>4. ASSUME NEW j \in Jobs,
             \/ CancelQueued(j)   \/ CancelRunning(j) \/ JoinTimesOut(j)
             \/ Publish(j)        \/ Exit(j)
             \/ DeadlinePasses(j) \/ GracePasses(j)
             \/ \E f \in Endings : Finish(j, f)
      PROVE  waiters' = waiters /\ task' = task
  BY <1>4 DEF CancelQueued, CancelRunning, JoinTimesOut, Publish, Exit,
              DeadlinePasses, GracePasses, Finish, monitorVars
<1>5. CASE Lookup \/ Shutdown \/ ShutdownReturns \/ UNCHANGED vars
  BY <1>1, <1>5 DEF Lookup, Shutdown, ShutdownReturns, vars, monitorVars
<1> QED BY <1>1, <1>2, <1>3, <1>4, <1>5 DEF Next, DispatchStep, InLoop

\* Every step keeps each waiting task in the semaphore once.
LEMMA WaitersOnceStep ==
  ASSUME TypeOK, TasksMatch, WaitersOnce, [Next]_vars
  PROVE  WaitersOnce'
PROOF
<1>1. ASSUME NEW j \in Jobs, Create(j)
      PROVE  WaitersOnce'
  <2>1. task[j] = "none" BY <1>1 DEF Create, TasksMatch
  <2>2. ASSUME NEW a \in 1 .. Len(waiters)
        PROVE  waiters[a] \in Jobs /\ waiters[a] # j
    <3>1. waiters \in Seq(Jobs) BY DEF TypeOK
    <3>2. waiters[a] \in Jobs BY <3>1
    <3>3. task[waiters[a]] = "waiting" BY DEF WaitersOnce
    <3> QED BY <2>1, <3>2, <3>3
  <2>3. /\ waiters' = Append(waiters, j)
        /\ task' = [task EXCEPT ![j] = "waiting"]
    BY <1>1 DEF Create
  <2>4. /\ Len(waiters') = Len(waiters) + 1
        /\ waiters'[Len(waiters) + 1] = j
        /\ \A a \in 1 .. Len(waiters) : waiters'[a] = waiters[a]
    BY <2>3 DEF TypeOK
  <2>5. /\ Len(waiters) \in Nat
        /\ \A a \in 1 .. Len(waiters') :
             a \in 1 .. Len(waiters) \/ a = Len(waiters) + 1
    BY <2>4 DEF TypeOK
  <2>6. \A k \in Jobs : k # j => task'[k] = task[k] BY <2>3 DEF TypeOK
  <2>7. task'[j] = "waiting" BY <2>3 DEF TypeOK
  <2>8. \A a \in 1 .. Len(waiters') : task'[waiters'[a]] = "waiting"
    BY <2>2, <2>4, <2>5, <2>6, <2>7 DEF WaitersOnce
  <2>9. \A a, b \in 1 .. Len(waiters') : waiters'[a] = waiters'[b] => a = b
    BY <2>2, <2>4, <2>5 DEF WaitersOnce
  <2> QED BY <2>8, <2>9 DEF WaitersOnce
<1>2. ASSUME NEW j \in Jobs, SkipCancelled(j) \/ StartWorker(j)
      PROVE  WaitersOnce'
  <2>1. waiters # <<>> /\ j = Head(waiters) /\ waiters' = Tail(waiters)
    BY <1>2 DEF SkipCancelled, StartWorker, Acquire
  <2>2. /\ Len(waiters') = Len(waiters) - 1
        /\ \A a \in 1 .. Len(waiters') : waiters'[a] = waiters[a + 1]
        /\ j = waiters[1]
        /\ Len(waiters) \in Nat /\ Len(waiters) >= 1
    BY <2>1 DEF TypeOK
  <2>3. \A k \in Jobs : k # j => task'[k] = task[k]
    BY <1>2 DEF SkipCancelled, StartWorker, TypeOK
  <2>4. ASSUME NEW a \in 1 .. Len(waiters')
        PROVE  waiters[a + 1] \in Jobs \ {j} /\ task[waiters[a + 1]] = "waiting"
    <3>1. a + 1 \in 1 .. Len(waiters) /\ 1 \in 1 .. Len(waiters) /\ a + 1 # 1
      BY <2>2
    <3>2. waiters[a + 1] \in Jobs BY <3>1 DEF TypeOK
    <3>3. waiters[a + 1] # waiters[1] BY <3>1 DEF WaitersOnce
    <3> QED BY <3>1, <3>2, <3>3, <2>2 DEF WaitersOnce
  <2>5. \A a \in 1 .. Len(waiters') : task'[waiters'[a]] = "waiting"
    BY <2>2, <2>3, <2>4
  <2>6. \A a, b \in 1 .. Len(waiters') : waiters'[a] = waiters'[b] => a = b
    <3> SUFFICES ASSUME NEW a \in 1 .. Len(waiters'), NEW b \in 1 .. Len(waiters'),
                        waiters'[a] = waiters'[b]
                 PROVE  a = b
      OBVIOUS
    <3>1. a + 1 \in 1 .. Len(waiters) /\ b + 1 \in 1 .. Len(waiters) BY <2>2
    <3>2. waiters[a + 1] = waiters[b + 1] BY <2>2
    <3>3. a + 1 = b + 1 BY <3>1, <3>2 DEF WaitersOnce
    <3> QED BY <3>3, <2>2
  <2> QED BY <2>5, <2>6 DEF WaitersOnce
<1>3. CASE ~ \E j \in Jobs : Create(j) \/ SkipCancelled(j) \/ StartWorker(j)
  <2>1. /\ waiters' = waiters
        /\ \A j \in Jobs : task[j] = "waiting" => task'[j] = "waiting"
    BY <1>3, OtherSteps
  <2>2. \A a \in 1 .. Len(waiters) : waiters[a] \in Jobs BY DEF TypeOK
  <2> QED BY <2>1, <2>2 DEF WaitersOnce
<1> QED BY <1>1, <1>2, <1>3

\* Every step keeps the semaphore within its slots.
LEMMA SlotsBoundedStep ==
  ASSUME TypeOK, TasksMatch, SlotsBounded, [Next]_vars
  PROVE  SlotsBounded'
PROOF
<1>1. ASSUME Monitored' \subseteq Monitored
      PROVE  SlotsBounded'
  <2>1. /\ IsFiniteSet(Monitored') /\ Cardinality(Monitored') \in Nat
        /\ Cardinality(Monitored) \in Nat
        /\ Cardinality(Monitored') <= Cardinality(Monitored)
    BY <1>1, FS_Subset, FS_CardinalityType DEF SlotsBounded
  <2> QED BY <2>1, LimitsAssumption DEF SlotsBounded
<1>2. ASSUME NEW j \in Jobs, StartWorker(j)
      PROVE  SlotsBounded'
  <2>1. Cardinality(Monitored) < MaxConcurrent
    BY <1>2 DEF StartWorker, Acquire, FreeSlot
  <2>2. Monitored' \subseteq Monitored \cup {j}
    BY <1>2 DEF StartWorker, Monitored, TypeOK
  <2>3. /\ IsFiniteSet(Monitored \cup {j})
        /\ Cardinality(Monitored \cup {j}) <= Cardinality(Monitored) + 1
        /\ Cardinality(Monitored) \in Nat
        /\ Cardinality(Monitored \cup {j}) \in Nat
    BY FS_AddElement, FS_CardinalityType DEF SlotsBounded
  <2>4. /\ IsFiniteSet(Monitored')
        /\ Cardinality(Monitored') <= Cardinality(Monitored \cup {j})
        /\ Cardinality(Monitored') \in Nat
    BY <2>2, <2>3, FS_Subset, FS_CardinalityType
  <2> QED BY <2>1, <2>3, <2>4, LimitsAssumption DEF SlotsBounded
<1>3. ASSUME NEW j \in Jobs, Create(j) \/ SkipCancelled(j)
      PROVE  Monitored' \subseteq Monitored
  BY <1>3 DEF Create, SkipCancelled, Monitored, TypeOK, Suspended
<1>4. CASE ~ \E j \in Jobs : Create(j) \/ SkipCancelled(j) \/ StartWorker(j)
  <2>1. \A j \in Jobs : task'[j] \in Suspended => task[j] \in Suspended
    BY <1>4, OtherSteps
  <2> QED BY <1>1, <2>1 DEF Monitored
<1> QED BY <1>1, <1>2, <1>3, <1>4

\* A pass of the loop leaves a queue that is shaped and holds no final message
\* of a worker that still works.
LEMMA TopOfLoopPipe ==
  ASSUME TypeOK, NEW j \in Jobs, NEW p \in Seq(Messages), Shaped(p),
         worker[j] = "working" => \A i \in 1 .. Len(p) : ~ IsFinish(p[i]),
         NEW l, TopOfLoop(j, p, l)
  PROVE  /\ Shaped(pipe'[j])
         /\ worker'[j] = "working" =>
              \A i \in 1 .. Len(pipe'[j]) : ~ IsFinish(pipe'[j][i])
         /\ worker' \in {worker, [worker EXCEPT ![j] = "exited"]}
PROOF
<1>1. pipe'[j] \in {p, <<>>} BY DEF TopOfLoop, TypeOK
<1>2. worker'[j] = "working" => worker[j] = "working" BY DEF TopOfLoop, TypeOK
<1>3. worker' \in {worker, [worker EXCEPT ![j] = "exited"]} BY DEF TopOfLoop
<1> QED BY <1>1, <1>2, <1>3 DEF Shaped

\* Every step keeps the queues shaped.
LEMMA PipesShapedStep ==
  ASSUME TypeOK, TasksMatch, WaitersOnce, PipesShaped, [Next]_vars
  PROVE  PipesShaped'
PROOF
<1> DEFINE Good(k) ==
      /\ Shaped(pipe[k])
      /\ worker[k] = "working" =>
           \A i \in 1 .. Len(pipe[k]) : ~ IsFinish(pipe[k][i])
      /\ task[k] \notin Suspended => pipe[k] = <<>>
<1>0. \A k \in Jobs : Good(k) BY DEF PipesShaped
<1>1. ASSUME NEW k \in Jobs, pipe'[k] = pipe[k],
             worker'[k] = "working" => worker[k] = "working",
             task'[k] \notin Suspended => task[k] \notin Suspended
      PROVE  Good(k)'
  BY <1>0, <1>1 DEF Shaped
<1>2. ASSUME NEW j \in Jobs,
             \/ CancelQueued(j)   \/ CancelRunning(j) \/ JoinTimesOut(j)
             \/ Exit(j)           \/ Create(j)        \/ SkipCancelled(j)
             \/ DeadlinePasses(j) \/ GracePasses(j)
      PROVE  PipesShaped'
  <2> SUFFICES ASSUME NEW k \in Jobs PROVE Good(k)' BY DEF PipesShaped
  <2>1. pipe'[k] = pipe[k]
    BY <1>2 DEF CancelQueued, CancelRunning, JoinTimesOut, Exit, Create,
                SkipCancelled, DeadlinePasses, GracePasses, workerVars
  <2>2. worker'[k] = "working" => worker[k] = "working"
    BY <1>2 DEF CancelQueued, CancelRunning, JoinTimesOut, Exit, Create,
                SkipCancelled, DeadlinePasses, GracePasses, workerVars, TypeOK
  <2>3. CASE SkipCancelled(j)
    <3>2. task[j] = "waiting" BY <2>3, AcquireWaiting DEF SkipCancelled
    <3> QED BY <1>1, <2>1, <2>2, <2>3, <3>2
            DEF SkipCancelled, TypeOK, Suspended
  <2>4. CASE Create(j)
    <3>1. task[j] \notin Suspended BY <2>4 DEF Create, TasksMatch, Suspended
    <3> QED BY <1>1, <2>1, <2>2, <2>4, <3>1 DEF Create, TypeOK
  <2>5. CASE ~ Create(j) /\ ~ SkipCancelled(j)
    <3>1. task' = task
      BY <1>2, <2>5 DEF CancelQueued, CancelRunning, JoinTimesOut, Exit,
                        DeadlinePasses, GracePasses, monitorVars
    <3> QED BY <1>1, <2>1, <2>2, <3>1
  <2> QED BY <2>3, <2>4, <2>5
<1>3. CASE Lookup \/ Shutdown \/ ShutdownReturns \/ UNCHANGED vars
  <2>1. pipe' = pipe /\ worker' = worker /\ task' = task
    BY <1>3 DEF Lookup, Shutdown, ShutdownReturns, vars, monitorVars, workerVars
  <2> QED BY <1>1, <2>1 DEF PipesShaped
<1>4. ASSUME NEW j \in Jobs, StartWorker(j)
      PROVE  PipesShaped'
  <2> SUFFICES ASSUME NEW k \in Jobs PROVE Good(k)' BY DEF PipesShaped
  <2>2. task[j] = "waiting" BY <1>4, AcquireWaiting DEF StartWorker
  <2>3. pipe[j] = <<>> BY <1>0, <2>2 DEF Suspended
  <2>4. pipe' = pipe BY <1>4 DEF StartWorker
  <2>5. CASE k = j BY <2>3, <2>4, <2>5 DEF Shaped
  <2>6. CASE k # j
    BY <1>1, <1>4, <2>4, <2>6 DEF StartWorker, TypeOK
  <2> QED BY <2>5, <2>6
<1>5. ASSUME NEW j \in Jobs, InLoop(j)
      PROVE  PipesShaped'
  <2> SUFFICES ASSUME NEW k \in Jobs PROVE Good(k)' BY DEF PipesShaped
  <2>1. /\ task[j] \in Suspended
        /\ \E t \in Suspended : task' = [task EXCEPT ![j] = t]
        /\ worker' \in {worker, [worker EXCEPT ![j] = "exited"]}
        /\ \A i \in Jobs \ {j} : pipe'[i] = pipe[i]
    BY <1>5, LoopStep DEF InLoop
  <2>2. CASE k # j BY <1>1, <2>1, <2>2 DEF TypeOK
  <2>3. task'[j] \in Suspended BY <2>1 DEF TypeOK
  <2>4. /\ pipe[j] \in Seq(Messages) /\ Shaped(pipe[j])
        /\ worker[j] = "working" =>
             \A i \in 1 .. Len(pipe[j]) : ~ IsFinish(pipe[j][i])
    BY <1>0 DEF TypeOK, Messages
  <2>5. ASSUME pipe[j] # <<>>
        PROVE  /\ Tail(pipe[j]) \in Seq(Messages) /\ Shaped(Tail(pipe[j]))
               /\ worker[j] = "working" =>
                    \A i \in 1 .. Len(Tail(pipe[j])) : ~ IsFinish(Tail(pipe[j])[i])
    <3>1. \A i \in 1 .. Len(Tail(pipe[j])) :
            Tail(pipe[j])[i] = pipe[j][i + 1] /\ i + 1 \in 1 .. Len(pipe[j])
      BY <2>4, <2>5
    <3> QED BY <2>4, <2>5, <3>1, TailShaped
  <2>6. CASE ReceiveProgress(j)
    <3>1. TopOfLoop(j, Tail(pipe[j]), Append(journal[j], Head(pipe[j])))
      BY <2>6 DEF ReceiveProgress
    <3>2. pipe[j] # <<>> BY <2>6 DEF ReceiveProgress
    <3>3. /\ Shaped(pipe'[j])
          /\ worker'[j] = "working" =>
               \A i \in 1 .. Len(pipe'[j]) : ~ IsFinish(pipe'[j][i])
      BY <2>5, <3>1, <3>2, TopOfLoopPipe
    <3> QED BY <2>2, <2>3, <3>3 DEF Shaped
  <2>7. CASE ReceiveFinished(j)
    <3>1. pipe[j] # <<>> /\ pipe'[j] = Tail(pipe[j]) /\ worker' = worker
      BY <2>7 DEF ReceiveFinished, TypeOK
    <3> QED BY <2>2, <2>3, <2>5, <3>1 DEF Shaped
  <2>8. CASE GetTimesOut(j)
    <3>1. pipe' = pipe /\ worker' = worker BY <2>8 DEF GetTimesOut
    <3> QED BY <2>2, <2>3, <2>4, <3>1 DEF Shaped
  <2>9. CASE ResumeEmpty(j) /\ Alive(j)
    <3>1. TopOfLoop(j, pipe[j], journal[j]) BY <2>9 DEF ResumeEmpty
    <3>2. /\ Shaped(pipe'[j])
          /\ worker'[j] = "working" =>
               \A i \in 1 .. Len(pipe'[j]) : ~ IsFinish(pipe'[j][i])
      BY <2>4, <3>1, TopOfLoopPipe
    <3> QED BY <2>2, <2>3, <3>2 DEF Shaped
  <2>10. CASE ResumeEmpty(j) /\ ~ Alive(j)
    <3>1. pipe' = pipe /\ worker' = worker BY <2>10 DEF ResumeEmpty
    <3> QED BY <2>2, <2>3, <2>4, <3>1 DEF Shaped
  <2> QED BY <1>5, <2>6, <2>7, <2>8, <2>9, <2>10 DEF InLoop
<1>6. ASSUME NEW j \in Jobs, Conclude(j)
      PROVE  PipesShaped'
  <2> SUFFICES ASSUME NEW k \in Jobs PROVE Good(k)' BY DEF PipesShaped
  <2>1. CASE k = j BY <1>6, <2>1 DEF Conclude, TypeOK, Shaped
  <2>2. CASE k # j BY <1>1, <1>6, <2>2 DEF Conclude, TypeOK
  <2> QED BY <2>1, <2>2
<1>7. ASSUME NEW j \in Jobs, NEW m \in Messages,
             pipe' = [pipe EXCEPT ![j] = Append(@, m)],
             worker[j] = "working", task' = task,
             \/ worker' = worker /\ ~ IsFinish(m)
             \/ worker' = [worker EXCEPT ![j] = "finished"]
      PROVE  PipesShaped'
  <2> SUFFICES ASSUME NEW k \in Jobs PROVE Good(k)' BY DEF PipesShaped
  <2>1. CASE k # j BY <1>1, <1>7, <2>1 DEF TypeOK
  <2>2. CASE k = j
    <3>1. task[j] \in Suspended BY <1>7 DEF TasksMatch, Alive
    <3>2. /\ pipe'[j] = Append(pipe[j], m)
          /\ pipe[j] \in Seq(Messages)
      BY <1>7 DEF TypeOK, Messages
    <3>3. /\ Len(pipe'[j]) = Len(pipe[j]) + 1
          /\ Len(pipe[j]) \in Nat
          /\ pipe'[j][Len(pipe[j]) + 1] = m
          /\ \A i \in 1 .. Len(pipe[j]) : pipe'[j][i] = pipe[j][i]
      BY <3>2
    <3>4. \A i \in 1 .. Len(pipe[j]) : ~ IsFinish(pipe[j][i])
      BY <1>0, <1>7
    <3>5. \A i \in 1 .. Len(pipe'[j]) :
            IsFinish(pipe'[j][i]) => i = Len(pipe'[j])
      BY SMTT(30), <3>3, <3>4
    <3>6. worker'[j] = "working" => ~ IsFinish(m) BY <1>7 DEF TypeOK
    <3>7. worker'[j] = "working" =>
            \A i \in 1 .. Len(pipe'[j]) : ~ IsFinish(pipe'[j][i])
      BY <3>3, <3>4, <3>6
    <3> QED BY <1>7, <2>2, <3>1, <3>5, <3>7 DEF Shaped
  <2> QED BY <2>1, <2>2
<1>8. ASSUME NEW j \in Jobs, Publish(j)
      PROVE  PipesShaped'
  <2>1. published[j] + 1 \in 1 .. MaxProgress
    BY <1>8, LimitsAssumption DEF Publish, TypeOK
  <2>2. Progress(published[j] + 1) \in ProgressEvents BY <2>1 DEF ProgressEvents
  <2> QED BY <1>7, <1>8, <2>2, Kinds DEF Publish, monitorVars, Messages
<1>9. ASSUME NEW j \in Jobs, NEW f \in Endings, Finish(j, f)
      PROVE  PipesShaped'
  <2>1. Event(f) \in Messages
    BY LimitsAssumption DEF Messages, FinishMessages
  <2> QED BY <1>7, <1>9, <2>1 DEF Finish, monitorVars
<1> QED BY <1>2, <1>3, <1>4, <1>5, <1>6, <1>8, <1>9
        DEF Next, DispatchStep, InLoop

-----------------------------------------------------------------------------
(* The journal *)

\* JournalEndsWithState for one job.
EndsWithState(j) ==
  /\ \A i \in 1 .. Len(journal[j]) :
       journal[j][i].kind \in Terminal =>
         /\ i = Len(journal[j])
         /\ journal[j][i].kind = state[j]
  /\ state[j] \in Terminal =>
       /\ journal[j] # <<>>
       /\ journal[j][Len(journal[j])] = Event(state[j])
       /\ snapshot[j] = [state |-> state[j], sequence |-> Len(journal[j])]

\* A job that is not over has no terminal line.
LEMMA NoTerminalLine ==
  ASSUME NEW j \in Jobs, EndsWithState(j), state[j] \notin Terminal
  PROVE  \A i \in 1 .. Len(journal[j]) : journal[j][i].kind \notin Terminal
PROOF BY DEF EndsWithState

\* Entering a state extends the journal of a job that is not over correctly.
LEMMA EnterEnds ==
  ASSUME TypeOK, NEW j \in Jobs, NEW s \in States, EndsWithState(j),
         state[j] \notin Terminal, Enter(j, s)
  PROVE  /\ EndsWithState(j)'
         /\ \A k \in Jobs \ {j} : EndsWithState(k) => EndsWithState(k)'
PROOF
<1>1. /\ journal'[j] = Append(journal[j], Event(s))
      /\ state'[j] = s
      /\ snapshot'[j] = [state |-> s, sequence |-> Len(journal[j]) + 1]
  BY DEF Enter, TypeOK
<1>2. /\ Len(journal[j]) \in Nat
      /\ Len(journal'[j]) = Len(journal[j]) + 1
      /\ journal'[j][Len(journal[j]) + 1] = Event(s)
      /\ \A i \in 1 .. Len(journal[j]) : journal'[j][i] = journal[j][i]
  BY <1>1 DEF TypeOK
<1>3. \A i \in 1 .. Len(journal'[j]) :
        i \in 1 .. Len(journal[j]) \/ i = Len(journal[j]) + 1
  BY <1>2
<1>4. Event(s).kind = s BY DEF Event
<1>5. \A i \in 1 .. Len(journal'[j]) :
        journal'[j][i].kind \in Terminal =>
          i = Len(journal'[j]) /\ journal'[j][i].kind = state'[j]
  BY <1>1, <1>2, <1>3, <1>4, NoTerminalLine
<1>6. /\ journal'[j] # <<>>
      /\ journal'[j][Len(journal'[j])] = Event(state'[j])
      /\ snapshot'[j] = [state |-> state'[j], sequence |-> Len(journal'[j])]
  BY <1>1, <1>2
<1>7. EndsWithState(j)' BY <1>5, <1>6 DEF EndsWithState
<1>8. ASSUME NEW k \in Jobs \ {j}, EndsWithState(k)
      PROVE  EndsWithState(k)'
  <2>1. journal'[k] = journal[k] /\ state'[k] = state[k] /\ snapshot'[k] = snapshot[k]
    BY DEF Enter, TypeOK
  <2> QED BY <1>8, <2>1 DEF EndsWithState
<1> QED BY <1>7, <1>8

\* _finalize, too, and it leaves the files of a job that is over alone.
LEMMA FinalizeEnds ==
  ASSUME TypeOK, JournalEndsWithState, NEW j \in Jobs, NEW s \in Terminal,
         NEW r, NEW e, Finalize(j, s, r, e)
  PROVE  JournalEndsWithState'
PROOF
<1>1. \A k \in Jobs : EndsWithState(k) BY DEF JournalEndsWithState, EndsWithState
<1>2. CASE state[j] \in Terminal
  BY <1>2 DEF Finalize, recordVars, JournalEndsWithState
<1>3. CASE state[j] \notin Terminal
  <2>1. Enter(j, s) BY <1>3 DEF Finalize
  <2>2. s \in States BY DEF States
  <2>3. \A k \in Jobs : EndsWithState(k)' BY <1>1, <1>3, <2>1, <2>2, EnterEnds
  <2> QED BY <2>3 DEF JournalEndsWithState, EndsWithState
<1> QED BY <1>2, <1>3

\* Lines that are not terminal may be added while the job is not over.
LEMMA ProgressEnds ==
  ASSUME TypeOK, NEW j \in Jobs, EndsWithState(j), state[j] \notin Terminal,
         NEW q \in Seq(ProgressEvents), journal'[j] = journal[j] \o q,
         state'[j] = state[j]
  PROVE  EndsWithState(j)'
PROOF
<1>1. /\ Len(journal[j]) \in Nat /\ Len(q) \in Nat
      /\ Len(journal'[j]) = Len(journal[j]) + Len(q)
      /\ \A i \in 1 .. Len(journal[j]) : journal'[j][i] = journal[j][i]
      /\ \A i \in 1 .. Len(q) : journal'[j][Len(journal[j]) + i] = q[i]
  BY DEF TypeOK
<1>2. \A i \in 1 .. Len(q) : q[i].kind \notin Terminal
  <2>1. \A i \in 1 .. Len(q) : q[i] \in ProgressEvents OBVIOUS
  <2> QED BY <2>1, Kinds DEF Terminal
<1>3. ASSUME NEW i \in 1 .. Len(journal'[j])
      PROVE  journal'[j][i].kind \notin Terminal
  <2>1. CASE i \in 1 .. Len(journal[j]) BY <1>1, <2>1, NoTerminalLine
  <2>2. CASE i \notin 1 .. Len(journal[j])
    <3>1. i - Len(journal[j]) \in 1 .. Len(q) BY <1>1, <2>2
    <3>2. i = Len(journal[j]) + (i - Len(journal[j])) BY <1>1
    <3>3. journal'[j][i] = q[i - Len(journal[j])] BY <1>1, <3>1, <3>2
    <3> QED BY <1>2, <3>1, <3>3
  <2> QED BY <2>1, <2>2
<1> QED BY <1>3 DEF EndsWithState

\* Appending in two steps or in one.
LEMMA LinesAssociative ==
  ASSUME NEW a \in Seq(Lines), NEW b \in Seq(Lines), NEW c \in Seq(Lines)
  PROVE  (a \o b) \o c = a \o (b \o c)
PROOF BY ConcatAssociative

\* The message loop only adds progress lines.
LEMMA LoopJournal ==
  ASSUME TypeOK, PipesShaped, NEW j \in Jobs, InLoop(j)
  PROVE  \E q \in Seq(ProgressEvents) : journal'[j] = journal[j] \o q
PROOF
<1>1. /\ journal[j] \in Seq(Lines) /\ <<>> \in Seq(ProgressEvents)
      /\ journal[j] \o <<>> = journal[j]
  BY DEF TypeOK, Lines
<1>2. pipe[j] \in Seq(Messages) /\ Shaped(pipe[j])
  BY DEF TypeOK, Messages, PipesShaped
<1>3. ASSUME NEW p \in Seq(Messages), Shaped(p), NEW l, TopOfLoop(j, p, l)
      PROVE  \/ journal'[j] = l
             \/ Leading(p) \in Seq(ProgressEvents) /\ journal'[j] = l \o Leading(p)
  BY <1>3, LeadingProgress DEF TopOfLoop, TypeOK
<1>4. CASE ReceiveProgress(j)
  <2>1. pipe[j] # <<>> /\ ~ IsFinish(Head(pipe[j])) BY <1>4 DEF ReceiveProgress
  <2>2. /\ Tail(pipe[j]) \in Seq(Messages) /\ Shaped(Tail(pipe[j]))
        /\ Head(pipe[j]) \in ProgressEvents
    BY <1>2, <2>1, TailShaped, Kinds
  <2> DEFINE h == Head(pipe[j])
             t == Leading(Tail(pipe[j]))
  <2>3. \/ journal'[j] = Append(journal[j], h)
        \/ t \in Seq(ProgressEvents) /\ journal'[j] = Append(journal[j], h) \o t
    BY <1>3, <1>4, <2>2 DEF ReceiveProgress
  <2>4. h \in ProgressEvents BY <2>2
  <2> HIDE DEF h, t
  <2>5. <<h>> \in Seq(ProgressEvents) /\ Append(journal[j], h) = journal[j] \o <<h>>
    BY <1>1, <2>4 DEF Lines
  <2>6. ASSUME t \in Seq(ProgressEvents)
        PROVE  /\ <<h>> \o t \in Seq(ProgressEvents)
               /\ (journal[j] \o <<h>>) \o t = journal[j] \o (<<h>> \o t)
    <3>1. t \in Seq(Lines) /\ <<h>> \in Seq(Lines)
      BY <2>4, <2>6 DEF Lines
    <3>2. <<h>> \o t \in Seq(ProgressEvents) BY <2>5, <2>6
    <3>3. (journal[j] \o <<h>>) \o t = journal[j] \o (<<h>> \o t)
      BY <1>1, <3>1, LinesAssociative
    <3> QED BY <3>2, <3>3
  <2> QED BY <2>3, <2>5, <2>6
<1>5. CASE ReceiveFinished(j) \/ GetTimesOut(j)
  BY <1>1, <1>5 DEF ReceiveFinished, GetTimesOut
<1>6. CASE ResumeEmpty(j)
  <2>1. CASE Alive(j) BY <1>1, <1>2, <1>3, <1>6, <2>1 DEF ResumeEmpty
  <2>2. CASE ~ Alive(j) BY <1>1, <1>6, <2>2 DEF ResumeEmpty
  <2> QED BY <2>1, <2>2
<1> QED BY <1>4, <1>5, <1>6 DEF InLoop

\* Every step keeps a terminal line last.
LEMMA JournalStep ==
  ASSUME TypeOK, TasksMatch, WaitersOnce, PipesShaped, JournalEndsWithState,
         [Next]_vars
  PROVE  JournalEndsWithState'
PROOF
<1>0. \A k \in Jobs : EndsWithState(k) BY DEF JournalEndsWithState, EndsWithState
<1>1. ASSUME NEW j \in Jobs, NEW s \in States, Enter(j, s), state[j] \notin Terminal
      PROVE  JournalEndsWithState'
  <2>1. \A k \in Jobs : EndsWithState(k)' BY <1>0, <1>1, EnterEnds
  <2> QED BY <2>1 DEF JournalEndsWithState, EndsWithState
<1>2. ASSUME NEW j \in Jobs, Create(j) \/ CancelRunning(j) \/ StartWorker(j)
      PROVE  JournalEndsWithState'
  <2>1. \/ Enter(j, "queued") /\ state[j] = "absent"
        \/ Enter(j, "cancellation_requested") /\ state[j] = "running"
        \/ Enter(j, "running") /\ state[j] \notin Terminal
    BY <1>2 DEF Create, CancelRunning, StartWorker
  <2> QED BY <1>1, <2>1 DEF States, Terminal
<1>3. ASSUME NEW j \in Jobs, CancelQueued(j) \/ Conclude(j)
      PROVE  JournalEndsWithState'
  <2>1. CASE CancelQueued(j)
    BY <2>1, FinalizeEnds DEF CancelQueued, Terminal
  <2>2. CASE Conclude(j)
    BY <2>2, OutcomeTyped, FinalizeEnds DEF Conclude
  <2> QED BY <1>3, <2>1, <2>2
<1>4. ASSUME NEW j \in Jobs, InLoop(j)
      PROVE  JournalEndsWithState'
  <2>1. /\ task[j] \in Suspended /\ state' = state /\ snapshot' = snapshot
        /\ \A k \in Jobs \ {j} : journal'[k] = journal[k]
    BY <1>4, LoopStep DEF InLoop, loopFrame
  <2>2. state[j] \notin Terminal BY <2>1 DEF TasksMatch, Terminal
  <2>3. EndsWithState(j)' BY <1>0, <1>4, <2>1, <2>2, LoopJournal, ProgressEnds
  <2>4. \A k \in Jobs \ {j} : EndsWithState(k)' BY <1>0, <2>1 DEF EndsWithState
  <2> QED BY <2>3, <2>4 DEF JournalEndsWithState, EndsWithState
<1>5. ASSUME UNCHANGED recordVars
      PROVE  JournalEndsWithState'
  BY <1>5 DEF JournalEndsWithState, recordVars
<1>6. CASE Lookup \/ Shutdown \/ ShutdownReturns \/ UNCHANGED vars
  BY <1>5, <1>6 DEF Lookup, Shutdown, ShutdownReturns, vars
<1>7. ASSUME NEW j \in Jobs,
             \/ SkipCancelled(j) \/ JoinTimesOut(j)   \/ Publish(j)
             \/ Exit(j)          \/ DeadlinePasses(j) \/ GracePasses(j)
             \/ \E f \in Endings : Finish(j, f)
      PROVE  JournalEndsWithState'
  BY <1>5, <1>7 DEF SkipCancelled, JoinTimesOut, Publish, Exit,
                    DeadlinePasses, GracePasses, Finish
<1> QED BY <1>2, <1>3, <1>4, <1>6, <1>7 DEF Next, DispatchStep, InLoop

-----------------------------------------------------------------------------
(* The theorems *)

\* The inductive invariant.
IInv == /\ TypeOK     /\ TasksMatch  /\ WaitersOnce
        /\ PipesShaped /\ SlotsBounded /\ JournalEndsWithState

LEMMA InitInv ==
  ASSUME Init
  PROVE  IInv
PROOF
<1> USE DEF Init
<1>1. TypeOK
  BY LimitsAssumption DEF TypeOK, States, Errors, TaskStates
<1>2. TasksMatch BY DEF TasksMatch, Suspended, Alive
<1>3. WaitersOnce BY DEF WaitersOnce
<1>4. PipesShaped BY DEF PipesShaped, Shaped, Suspended
<1>5. SlotsBounded
  <2>1. Monitored = {} BY DEF Monitored, Suspended
  <2> QED BY <2>1, FS_EmptySet, LimitsAssumption DEF SlotsBounded
<1>6. JournalEndsWithState BY DEF JournalEndsWithState, Terminal
<1> QED BY <1>1, <1>2, <1>3, <1>4, <1>5, <1>6 DEF IInv

LEMMA StepInv ==
  ASSUME IInv, [Next]_vars
  PROVE  IInv'
PROOF BY TypeStep, TasksMatchStep, WaitersOnceStep, PipesShapedStep,
         SlotsBoundedStep, JournalStep DEF IInv

\* The invariant holds in every reachable state.
THEOREM Invariance == Spec => []IInv
PROOF
<1>1. Init => IInv BY InitInv
<1>2. IInv /\ [Next]_vars => IInv' BY StepInv
<1> QED BY <1>1, <1>2, PTL DEF Spec

\* Every variable of the manager keeps the values the code gives it.
THEOREM Typing == Spec => []TypeOK
PROOF
<1>1. IInv => TypeOK BY DEF IInv
<1> QED BY <1>1, Invariance, PTL

\* No worker process outlives its monitor or runs for a job that is over, and
\* no more than MaxConcurrent run, for any number of jobs.
THEOREM Supervision == Spec => []WorkersSupervised
PROOF
<1>1. ASSUME IInv
      PROVE  WorkersSupervised
  <2>1. \A j \in Jobs :
          Alive(j) => /\ task[j] \in Suspended
                      /\ state[j] \in {"running", "cancellation_requested"}
    BY <1>1 DEF IInv, TasksMatch
  <2>2. {j \in Jobs : Alive(j)} \subseteq Monitored BY <2>1 DEF Monitored
  <2>3. /\ Cardinality({j \in Jobs : Alive(j)}) <= Cardinality(Monitored)
        /\ Cardinality({j \in Jobs : Alive(j)}) \in Nat
        /\ Cardinality(Monitored) \in Nat
    BY <1>1, <2>2, FS_Subset, FS_CardinalityType DEF IInv, SlotsBounded
  <2>4. Cardinality({j \in Jobs : Alive(j)}) <= MaxConcurrent
    BY <1>1, <2>3, LimitsAssumption DEF IInv, SlotsBounded
  <2> QED BY <2>1, <2>4 DEF WorkersSupervised
<1> QED BY <1>1, Invariance, PTL

\* The journal of a job ends with the one terminal event of its record, which
\* its snapshot covers, whatever the worker still sends.
THEOREM TerminalEventLast == Spec => []JournalEndsWithState
PROOF
<1>1. IInv => JournalEndsWithState BY DEF IInv
<1> QED BY <1>1, Invariance, PTL

\* What TerminalIsFinal says of one step.
FinalKept ==
  \A j \in Jobs :
    state[j] \in Terminal =>
      /\ <<state'[j], result'[j], error'[j]>> = <<state[j], result[j], error[j]>>
      /\ <<journal'[j], snapshot'[j]>> = <<journal[j], snapshot[j]>>
      /\ ~ Alive(j)'

LEMMA FinalStep ==
  ASSUME IInv, IInv', [Next]_vars
  PROVE  FinalKept
PROOF
<1> DEFINE Same(k) ==
      /\ state'[k] = state[k] /\ result'[k] = result[k] /\ error'[k] = error[k]
      /\ journal'[k] = journal[k] /\ snapshot'[k] = snapshot[k]
<1>1. ASSUME \A k \in Jobs : state[k] \in Terminal => Same(k)
      PROVE  FinalKept
  <2>1. ASSUME NEW k \in Jobs, state[k] \in Terminal
        PROVE  ~ Alive(k)'
    <3>1. state'[k] \in Terminal BY <1>1, <2>1
    <3>2. TasksMatch' BY DEF IInv
    <3> QED BY <3>1, <3>2 DEF TasksMatch, Terminal
  <2> QED BY <1>1, <2>1 DEF FinalKept
<1>2. TypeOK /\ TasksMatch BY DEF IInv
<1>3. CASE UNCHANGED recordVars BY <1>1, <1>3 DEF recordVars
<1>4. ASSUME NEW j \in Jobs, NEW s, Enter(j, s), state[j] \notin Terminal,
             result' = result, error' = error
      PROVE  FinalKept
  BY <1>1, <1>2, <1>4 DEF Enter, TypeOK
<1>5. ASSUME NEW j \in Jobs, NEW s, NEW r, NEW e, Finalize(j, s, r, e)
      PROVE  FinalKept
  BY <1>1, <1>2, <1>5 DEF Finalize, Enter, TypeOK, recordVars
<1>6. ASSUME NEW j \in Jobs, Create(j) \/ CancelRunning(j) \/ StartWorker(j)
      PROVE  FinalKept
  <2>1. \/ Enter(j, "queued") /\ state[j] = "absent"
        \/ Enter(j, "cancellation_requested") /\ state[j] = "running"
        \/ Enter(j, "running") /\ state[j] \notin Terminal
    BY <1>6 DEF Create, CancelRunning, StartWorker
  <2>2. result' = result /\ error' = error
    BY <1>6 DEF Create, CancelRunning, StartWorker
  <2> QED BY <1>4, <2>1, <2>2 DEF Terminal
<1>7. ASSUME NEW j \in Jobs, CancelQueued(j) \/ Conclude(j)
      PROVE  FinalKept
  BY <1>5, <1>7 DEF CancelQueued, Conclude
<1>8. ASSUME NEW j \in Jobs, InLoop(j)
      PROVE  FinalKept
  <2>1. /\ task[j] \in Suspended /\ UNCHANGED loopFrame
        /\ \A k \in Jobs \ {j} : journal'[k] = journal[k]
    BY <1>2, <1>8, LoopStep DEF InLoop
  <2>2. state[j] \notin Terminal BY <1>2, <2>1 DEF TasksMatch, Terminal
  <2> QED BY <1>1, <2>1, <2>2 DEF loopFrame
<1>9. CASE Lookup \/ Shutdown \/ ShutdownReturns \/ UNCHANGED vars
  BY <1>3, <1>9 DEF Lookup, Shutdown, ShutdownReturns, vars
<1>10. ASSUME NEW j \in Jobs,
              \/ SkipCancelled(j) \/ JoinTimesOut(j)   \/ Publish(j)
              \/ Exit(j)          \/ DeadlinePasses(j) \/ GracePasses(j)
              \/ \E f \in Endings : Finish(j, f)
       PROVE  FinalKept
  BY <1>3, <1>10 DEF SkipCancelled, JoinTimesOut, Publish, Exit,
                     DeadlinePasses, GracePasses, Finish
<1> QED BY <1>6, <1>7, <1>8, <1>9, <1>10 DEF Next, DispatchStep, InLoop

\* A job that is over is never changed again and its worker never returns.
THEOREM Finality == Spec => TerminalIsFinal
PROOF
<1>1. IInv /\ IInv' /\ [Next]_vars => [FinalKept]_vars BY FinalStep
<1>2. TerminalIsFinal <=> [][FinalKept]_vars BY DEF TerminalIsFinal, FinalKept
<1> QED BY <1>1, <1>2, Invariance, PTL DEF Spec

-----------------------------------------------------------------------------
(* What a client reads of a finished job *)

\* OutcomeConsistent for a job with this state, result and error.
Fits(s, r, e) ==
  /\ s \notin Terminal => r = "none" /\ e = "none"
  /\ s = "completed" => r = "plan" /\ e = "none"
  /\ s = "failed" => r = "none"
  /\ s \in {"cancelled", "timed_out"} => r # "plan"
  /\ s \in Terminal \ {"completed"} => e # "none"

\* What _monitor settles a job with fits together in each combination of a
\* forced stop and a final message.
LEMMA OutcomeFits ==
  ASSUME TypeOK, NEW j \in Jobs
  PROVE  Fits(OutcomeState(j), OutcomeResult(j), OutcomeError(j))
PROOF
<1>1. forced[j] \in {"none", "timed_out", "cancelled"} BY DEF TypeOK
<1>2. finished[j] \in Finishes \cup {"none"} BY DEF TypeOK
<1>3. \A d \in Errors \ {"none"} : WorkerError(finished[j], d) # "none"
  BY <1>2 DEF WorkerError, Errors, TimedOut
<1>4. BestOf(finished[j]) \in {"none", "best"} BY DEF BestOf
<1>5. CASE forced[j] # "none"
  <2>1. /\ OutcomeState(j) = forced[j] /\ OutcomeResult(j) # "plan"
    BY <1>4, <1>5 DEF OutcomeState, OutcomeResult
  <2>2. OutcomeError(j) # "none" BY <1>1, <1>3, <1>5 DEF OutcomeError, Errors
  <2> QED BY <1>1, <1>5, <2>1, <2>2 DEF Fits, Terminal
<1>6. CASE forced[j] = "none" /\ finished[j] = "result"
  <2>1. OutcomeState(j) = "completed" /\ OutcomeResult(j) = "plan"
    BY <1>6 DEF OutcomeState, OutcomeResult, Stopped
  <2>2. OutcomeError(j) = WorkerError(finished[j], "none")
    BY <1>6 DEF OutcomeError
  <2>3. WorkerError(finished[j], "none") = "none" BY <1>6 DEF WorkerError, TimedOut
  <2> QED BY <2>1, <2>2, <2>3 DEF Fits, Terminal
<1>7. CASE forced[j] = "none" /\ finished[j] \in Stopped
  <2>1. /\ OutcomeState(j) \in {"timed_out", "cancelled"}
        /\ OutcomeResult(j) \in {"none", "best"}
    BY <1>4, <1>7 DEF OutcomeState, OutcomeResult, Stopped
  <2>2. OutcomeError(j) # "none"
    BY <1>7 DEF OutcomeError, WorkerError, Stopped, TimedOut
  <2> QED BY <2>1, <2>2 DEF Fits, Terminal
<1>8. CASE forced[j] = "none" /\ finished[j] \in {"none", "error"}
  <2>1. OutcomeState(j) = "failed" /\ OutcomeResult(j) = "none"
    BY <1>8 DEF OutcomeState, OutcomeResult, BestOf, HasBest, Stopped
  <2>2. OutcomeError(j) # "none"
    BY <1>8 DEF OutcomeError, WorkerError, TimedOut
  <2> QED BY <2>1, <2>2 DEF Fits, Terminal
<1> QED BY <1>1, <1>2, <1>5, <1>6, <1>7, <1>8 DEF Finishes

\* Settling a job with what fits keeps every job consistent.
LEMMA FinalizeFits ==
  ASSUME TypeOK, OutcomeConsistent, NEW j \in Jobs, NEW s, NEW r, NEW e,
         Fits(s, r, e), Finalize(j, s, r, e)
  PROVE  OutcomeConsistent'
PROOF
<1>1. \A k \in Jobs : Fits(state[k], result[k], error[k])
  BY DEF OutcomeConsistent, Fits
<1>2. CASE state[j] \in Terminal
  BY <1>2 DEF Finalize, recordVars, OutcomeConsistent
<1>3. CASE state[j] \notin Terminal
  <2>1. /\ state' = [state EXCEPT ![j] = s]
        /\ result' = [result EXCEPT ![j] = r]
        /\ error' = [error EXCEPT ![j] = e]
    BY <1>3 DEF Finalize, Enter
  <2>2. \A k \in Jobs : Fits(state'[k], result'[k], error'[k])
    BY <1>1, <2>1 DEF TypeOK
  <2> QED BY <2>2 DEF OutcomeConsistent, Fits
<1> QED BY <1>2, <1>3

\* Every step keeps state, result and error consistent.
LEMMA OutcomeStep ==
  ASSUME IInv, OutcomeConsistent, [Next]_vars
  PROVE  OutcomeConsistent'
PROOF
<1>1. TypeOK /\ TasksMatch BY DEF IInv
<1>2. ASSUME state' = state, result' = result, error' = error
      PROVE  OutcomeConsistent'
  BY <1>2 DEF OutcomeConsistent
<1>3. ASSUME NEW j \in Jobs, NEW s, Enter(j, s),
             s \notin Terminal, state[j] \notin Terminal,
             result' = result, error' = error
      PROVE  OutcomeConsistent'
  <2>1. state' = [state EXCEPT ![j] = s] BY <1>3 DEF Enter
  <2>2. \A k \in Jobs : state'[k] = IF k = j THEN s ELSE state[k]
    BY <1>1, <2>1 DEF TypeOK
  <2> QED BY <1>3, <2>2 DEF OutcomeConsistent, Terminal
<1>4. ASSUME NEW j \in Jobs, Create(j) \/ CancelRunning(j) \/ StartWorker(j)
      PROVE  OutcomeConsistent'
  <2>1. \/ Enter(j, "queued") /\ state[j] = "absent"
        \/ Enter(j, "cancellation_requested") /\ state[j] = "running"
        \/ Enter(j, "running") /\ state[j] \notin Terminal
    BY <1>4 DEF Create, CancelRunning, StartWorker
  <2>2. result' = result /\ error' = error
    BY <1>4 DEF Create, CancelRunning, StartWorker
  <2> QED BY <1>3, <2>1, <2>2 DEF Terminal
<1>5. ASSUME NEW j \in Jobs, CancelQueued(j)
      PROVE  OutcomeConsistent'
  <2>1. Fits("cancelled", "none", "generation_cancelled") BY DEF Fits, Terminal
  <2> QED BY <1>1, <1>5, <2>1, FinalizeFits DEF CancelQueued
<1>6. ASSUME NEW j \in Jobs, Conclude(j)
      PROVE  OutcomeConsistent'
  BY <1>1, <1>6, OutcomeFits, FinalizeFits DEF Conclude
<1>7. ASSUME NEW j \in Jobs, InLoop(j)
      PROVE  OutcomeConsistent'
  BY <1>1, <1>2, <1>7, LoopStep DEF InLoop, loopFrame
<1>8. CASE Lookup \/ Shutdown \/ ShutdownReturns \/ UNCHANGED vars
  BY <1>2, <1>8 DEF Lookup, Shutdown, ShutdownReturns, vars, recordVars
<1>9. ASSUME NEW j \in Jobs,
             \/ SkipCancelled(j) \/ JoinTimesOut(j)   \/ Publish(j)
             \/ Exit(j)          \/ DeadlinePasses(j) \/ GracePasses(j)
             \/ \E f \in Endings : Finish(j, f)
      PROVE  OutcomeConsistent'
  BY <1>2, <1>9 DEF SkipCancelled, JoinTimesOut, Publish, Exit,
                    DeadlinePasses, GracePasses, Finish, recordVars
<1> QED BY <1>4, <1>5, <1>6, <1>7, <1>8, <1>9 DEF Next, DispatchStep, InLoop

\* However deadline, cancellation and the worker's own end race, what a client
\* reads of a finished job is consistent.
THEOREM OutcomesConsistent == Spec => []OutcomeConsistent
PROOF
<1>1. Init => OutcomeConsistent BY DEF Init, OutcomeConsistent, Terminal
<1>2. IInv /\ OutcomeConsistent /\ [Next]_vars => OutcomeConsistent'
  BY OutcomeStep
<1> QED BY <1>1, <1>2, Invariance, PTL DEF Spec

-----------------------------------------------------------------------------
(* Admission and order of start *)

Live == {j \in Jobs : state[j] \notin Terminal \cup {"absent"}}

\* Only jobs in _jobs are live, so that the capacity test counts all of them.
Admitted ==
  /\ \A j \in known : state[j] # "absent"
  /\ Live \subseteq known
  /\ IsFiniteSet(Live)
  /\ Cardinality(Live) <= MaxConcurrent + MaxQueued

\* A step that admits nobody and forgets only jobs that are over.
LEMMA AdmitsNobody ==
  ASSUME Admitted, TypeOK,
         known' \subseteq known,
         \A j \in known \ known' : state[j] \in Terminal,
         \A j \in Jobs : state[j] = "absent" <=> state'[j] = "absent",
         \A j \in Jobs : state[j] \in Terminal => state'[j] \in Terminal
  PROVE  Admitted'
PROOF
<1>1. Live' \subseteq Live BY DEF Live
<1>2. /\ IsFiniteSet(Live') /\ Cardinality(Live') <= Cardinality(Live)
      /\ Cardinality(Live) \in Nat /\ Cardinality(Live') \in Nat
  BY <1>1, FS_Subset, FS_CardinalityType DEF Admitted
<1>3. Cardinality(Live') <= MaxConcurrent + MaxQueued
  BY <1>2, LimitsAssumption DEF Admitted
<1>4. \A j \in known' : state'[j] # "absent" BY DEF Admitted, TypeOK
<1>5. Live' \subseteq known' BY <1>1 DEF Admitted, Live
<1> QED BY <1>2, <1>3, <1>4, <1>5 DEF Admitted

\* Create admits a job only while there is room.
LEMMA CreateAdmits ==
  ASSUME Admitted, TypeOK, NEW j \in Jobs, Create(j)
  PROVE  Admitted'
PROOF
<1>1. PICK old \in SUBSET Completed : known' = (known \ old) \cup {j}
  BY DEF Create
<1>2. state[j] = "absent" /\ state' = [state EXCEPT ![j] = "queued"]
  BY DEF Create, Enter
<1>3. \A k \in Jobs : state'[k] = IF k = j THEN "queued" ELSE state[k]
  BY <1>2 DEF TypeOK
<1>4. Active = Live BY DEF Active, Live, Admitted, TypeOK
<1>5. Cardinality(Live) < MaxConcurrent + MaxQueued
  <2>1. Cardinality(Live) \in Nat BY FS_CardinalityType DEF Admitted
  <2>2. ~ Cardinality(Active) >= MaxConcurrent + MaxQueued BY DEF Create, Full
  <2> QED BY <1>4, <2>1, <2>2, LimitsAssumption
<1>6. Live' = Live \cup {j} BY <1>3 DEF Live, Terminal
<1>7. /\ IsFiniteSet(Live') /\ Cardinality(Live') <= Cardinality(Live) + 1
      /\ Cardinality(Live) \in Nat /\ Cardinality(Live') \in Nat
  BY <1>6, FS_AddElement, FS_CardinalityType DEF Admitted
<1>8. Cardinality(Live') <= MaxConcurrent + MaxQueued
  BY <1>5, <1>7, LimitsAssumption
<1>9. \A k \in known' : state'[k] # "absent"
  BY <1>1, <1>3 DEF Admitted, TypeOK
<1>10. Live' \subseteq known'
  BY <1>1, <1>6 DEF Admitted, Live, Completed
<1> QED BY <1>7, <1>8, <1>9, <1>10 DEF Admitted

\* Every step keeps the live jobs within what create admits.
LEMMA AdmittedStep ==
  ASSUME IInv, Admitted, [Next]_vars
  PROVE  Admitted'
PROOF
<1>1. TypeOK /\ TasksMatch /\ WaitersOnce BY DEF IInv
<1>2. ASSUME known' = known \/ Expire,
             \A k \in Jobs : state[k] = "absent" <=> state'[k] = "absent",
             \A k \in Jobs : state[k] \in Terminal => state'[k] \in Terminal
      PROVE  Admitted'
  <2>1. known' \subseteq known /\ \A k \in known \ known' : state[k] \in Terminal
    BY <1>2 DEF Expire, Completed
  <2> QED BY <1>1, <1>2, <2>1, AdmitsNobody
<1>3. ASSUME NEW j \in Jobs, NEW s, state[j] \notin Terminal \cup {"absent"},
             s # "absent", state' = [state EXCEPT ![j] = s],
             known' = known \/ Expire
      PROVE  Admitted'
  <2>1. \A k \in Jobs : state'[k] = IF k = j THEN s ELSE state[k]
    BY <1>1, <1>3 DEF TypeOK
  <2>2. /\ \A k \in Jobs : state[k] = "absent" <=> state'[k] = "absent"
        /\ \A k \in Jobs : state[k] \in Terminal => state'[k] \in Terminal
    BY <1>3, <2>1
  <2> QED BY <1>2, <1>3, <2>2
<1>4. ASSUME NEW j \in Jobs, CancelQueued(j)
      PROVE  Admitted'
  <2>1. state[j] \notin Terminal \cup {"absent"} BY <1>4 DEF CancelQueued, Terminal
  <2>2. state' = [state EXCEPT ![j] = "cancelled"] /\ Expire
    BY <1>4, <2>1 DEF CancelQueued, Finalize, Enter
  <2> QED BY <1>3, <2>1, <2>2
<1>5. ASSUME NEW j \in Jobs, CancelRunning(j)
      PROVE  Admitted'
  <2>1. state[j] \notin Terminal \cup {"absent"} BY <1>5 DEF CancelRunning, Terminal
  <2>2. state' = [state EXCEPT ![j] = "cancellation_requested"] /\ Expire
    BY <1>5 DEF CancelRunning, Enter
  <2> QED BY <1>3, <2>1, <2>2
<1>6. ASSUME NEW j \in Jobs, StartWorker(j)
      PROVE  Admitted'
  <2>1. task[j] = "waiting" BY <1>1, <1>6, AcquireWaiting DEF StartWorker
  <2>2. state[j] \notin Terminal \cup {"absent"}
    BY <1>1, <1>6, <2>1 DEF StartWorker, TasksMatch
  <2>3. state' = [state EXCEPT ![j] = "running"] /\ known' = known
    BY <1>6 DEF StartWorker, Enter
  <2> QED BY <1>3, <2>2, <2>3
<1>7. ASSUME NEW j \in Jobs, Conclude(j)
      PROVE  Admitted'
  <2>1. task[j] \in Suspended BY <1>7 DEF Conclude, Suspended
  <2>2. state[j] \notin Terminal \cup {"absent"}
    BY <1>1, <2>1 DEF TasksMatch, Terminal
  <2>3. state' = [state EXCEPT ![j] = OutcomeState(j)] /\ known' = known
    BY <1>7, <2>2 DEF Conclude, Finalize, Enter
  <2>4. OutcomeState(j) # "absent" BY <1>1, OutcomeTyped DEF Terminal
  <2> QED BY <1>3, <2>2, <2>3, <2>4
<1>8. ASSUME NEW j \in Jobs, InLoop(j)
      PROVE  Admitted'
  BY <1>1, <1>2, <1>8, LoopStep DEF InLoop, loopFrame
<1>9. CASE Lookup \/ Shutdown \/ ShutdownReturns \/ UNCHANGED vars
  BY <1>2, <1>9 DEF Lookup, Shutdown, ShutdownReturns, vars, recordVars
<1>10. ASSUME NEW j \in Jobs,
              \/ SkipCancelled(j) \/ JoinTimesOut(j)   \/ Publish(j)
              \/ Exit(j)          \/ DeadlinePasses(j) \/ GracePasses(j)
              \/ \E f \in Endings : Finish(j, f)
       PROVE  Admitted'
  BY <1>2, <1>10 DEF SkipCancelled, JoinTimesOut, Publish, Exit,
                     DeadlinePasses, GracePasses, Finish, recordVars
<1> QED BY <1>1, <1>4, <1>5, <1>6, <1>7, <1>8, <1>9, <1>10, CreateAdmits
        DEF Next, DispatchStep, InLoop

\* The jobs that are not over never exceed what create admits, whatever is
\* cancelled, purged and created again.
THEOREM Admission == Spec => []AdmissionBounded
PROOF
<1>1. ASSUME Init
      PROVE  Admitted
  <2>1. Live = {} /\ known = {} BY <1>1 DEF Init, Live
  <2> QED BY <2>1, FS_EmptySet, LimitsAssumption DEF Admitted
<1>2. IInv /\ Admitted /\ [Next]_vars => Admitted' BY AdmittedStep
<1>3. Admitted => AdmissionBounded BY DEF Admitted, AdmissionBounded, Live
<1> QED BY <1>1, <1>2, <1>3, Invariance, PTL DEF Spec

\* Each waiting task is in the semaphore, so that a task that is started ahead
\* of it stands before it there.
WaitersComplete ==
  \A j \in Jobs :
    task[j] = "waiting" => \E a \in 1 .. Len(waiters) : waiters[a] = j

LEMMA WaitersCompleteStep ==
  ASSUME IInv, WaitersComplete, [Next]_vars
  PROVE  WaitersComplete'
PROOF
<1>1. TypeOK /\ TasksMatch /\ waiters \in Seq(Jobs) BY DEF IInv, TypeOK
<1>2. ASSUME NEW j \in Jobs, Create(j)
      PROVE  WaitersComplete'
  <2>1. /\ waiters' = Append(waiters, j)
        /\ \A k \in Jobs \ {j} : task'[k] = task[k]
    BY <1>1, <1>2 DEF Create, TypeOK
  <2>2. /\ Len(waiters') = Len(waiters) + 1 /\ Len(waiters) \in Nat
        /\ waiters'[Len(waiters) + 1] = j
        /\ \A a \in 1 .. Len(waiters) : waiters'[a] = waiters[a]
    BY <1>1, <2>1
  <2> SUFFICES ASSUME NEW k \in Jobs, task'[k] = "waiting"
               PROVE  \E a \in 1 .. Len(waiters') : waiters'[a] = k
    BY DEF WaitersComplete
  <2>3. CASE k = j BY <2>2, <2>3
  <2>4. CASE k # j
    <3>1. PICK a \in 1 .. Len(waiters) : waiters[a] = k
      BY <2>1, <2>4 DEF WaitersComplete
    <3> QED BY <2>2, <3>1
  <2> QED BY <2>3, <2>4
<1>3. ASSUME NEW j \in Jobs, SkipCancelled(j) \/ StartWorker(j)
      PROVE  WaitersComplete'
  <2>1. waiters # <<>> /\ j = Head(waiters) /\ waiters' = Tail(waiters)
    BY <1>3 DEF SkipCancelled, StartWorker, Acquire
  <2>2. /\ Len(waiters') = Len(waiters) - 1 /\ Len(waiters) \in Nat
        /\ j = waiters[1]
        /\ \A a \in 1 .. Len(waiters') : waiters'[a] = waiters[a + 1]
    BY <1>1, <2>1
  <2>3. /\ \A k \in Jobs \ {j} : task'[k] = task[k]
        /\ task'[j] # "waiting"
    BY <1>1, <1>3 DEF SkipCancelled, StartWorker, TypeOK
  <2> SUFFICES ASSUME NEW k \in Jobs, task'[k] = "waiting"
               PROVE  \E a \in 1 .. Len(waiters') : waiters'[a] = k
    BY DEF WaitersComplete
  <2>4. k # j /\ task[k] = "waiting" BY <2>3
  <2>5. PICK a \in 1 .. Len(waiters) : waiters[a] = k
    BY <2>4 DEF WaitersComplete
  <2>6. a # 1 BY <2>2, <2>4, <2>5
  <2>7. a - 1 \in 1 .. Len(waiters') /\ waiters'[a - 1] = waiters[(a - 1) + 1]
    BY <2>2, <2>6
  <2> QED BY <2>5, <2>7
<1>4. CASE ~ \E j \in Jobs : Create(j) \/ SkipCancelled(j) \/ StartWorker(j)
  <2>1. waiters' = waiters BY <1>1, <1>4, OtherSteps
  <2>2. \A k \in Jobs : task'[k] = "waiting" => task[k] = "waiting"
    <3>1. ASSUME NEW j \in Jobs, InLoop(j)
          PROVE  \E t \in Suspended \cup {"done"} : task' = [task EXCEPT ![j] = t]
      BY <1>1, <3>1, LoopStep DEF InLoop
    <3>2. ASSUME NEW j \in Jobs, Conclude(j)
          PROVE  \E t \in Suspended \cup {"done"} : task' = [task EXCEPT ![j] = t]
      BY <3>2 DEF Conclude
    <3>3. ASSUME NEW j \in Jobs,
                 \/ CancelQueued(j)   \/ CancelRunning(j) \/ JoinTimesOut(j)
                 \/ Publish(j)        \/ Exit(j)
                 \/ DeadlinePasses(j) \/ GracePasses(j)
                 \/ \E f \in Endings : Finish(j, f)
          PROVE  task' = task
      BY <3>3 DEF CancelQueued, CancelRunning, JoinTimesOut, Publish, Exit,
                  DeadlinePasses, GracePasses, Finish, monitorVars
    <3>4. CASE Lookup \/ Shutdown \/ ShutdownReturns \/ UNCHANGED vars
      BY <3>4 DEF Lookup, Shutdown, ShutdownReturns, vars, monitorVars
    <3>5. ASSUME NEW j \in Jobs,
                 \E t \in Suspended \cup {"done"} : task' = [task EXCEPT ![j] = t]
          PROVE  \A k \in Jobs : task'[k] = "waiting" => task[k] = "waiting"
      BY <1>1, <3>5 DEF TypeOK, Suspended
    <3> QED BY <1>4, <3>1, <3>2, <3>3, <3>4, <3>5 DEF Next, DispatchStep, InLoop
  <2> QED BY <2>1, <2>2 DEF WaitersComplete
<1> QED BY <1>2, <1>3, <1>4

\* What NoQueueJumping says of one step.
StartedInOrder ==
  \A j, k \in Jobs :
    state[j] = "queued" /\ state[k] = "queued" /\ state'[k] = "running" =>
      j = k \/ Before(k, j)

\* Only the dispatch task in front starts its job.
LEMMA StartedInOrderStep ==
  ASSUME IInv, WaitersComplete, [Next]_vars
  PROVE  StartedInOrder
PROOF
<1>1. TypeOK /\ TasksMatch /\ waiters \in Seq(Jobs) BY DEF IInv, TypeOK
<1>2. ASSUME NEW k \in Jobs, StartWorker(k)
      PROVE  StartedInOrder
  <2>1. waiters # <<>> /\ k = Head(waiters) BY <1>2 DEF StartWorker, Acquire
  <2>2. 1 \in 1 .. Len(waiters) /\ waiters[1] = k BY <1>1, <2>1
  <2>3. \A i \in Jobs \ {k} : state'[i] = state[i]
    BY <1>1, <1>2 DEF StartWorker, Enter, TypeOK
  <2> SUFFICES ASSUME NEW j \in Jobs, state[j] = "queued", j # k
               PROVE  Before(k, j)
    BY <2>3 DEF StartedInOrder
  <2>4. PICK b \in 1 .. Len(waiters) : waiters[b] = j
    BY <1>1 DEF TasksMatch, WaitersComplete
  <2>5. 1 < b BY <2>2, <2>4
  <2> QED BY <2>2, <2>4, <2>5 DEF Before
<1>3. ASSUME state' = state
      PROVE  StartedInOrder
  BY <1>3 DEF StartedInOrder
<1>4. ASSUME NEW j \in Jobs, NEW s, s # "running", state' = [state EXCEPT ![j] = s]
      PROVE  StartedInOrder
  BY <1>1, <1>4 DEF StartedInOrder, TypeOK
<1>5. ASSUME NEW j \in Jobs, Create(j) \/ CancelRunning(j)
      PROVE  StartedInOrder
  BY <1>4, <1>5 DEF Create, CancelRunning, Enter
<1>6. ASSUME NEW j \in Jobs, CancelQueued(j)
      PROVE  StartedInOrder
  <2>1. state' \in {state, [state EXCEPT ![j] = "cancelled"]}
    BY <1>1, <1>6, FinalizeState DEF CancelQueued, Terminal
  <2> QED BY <1>3, <1>4, <2>1
<1>7. ASSUME NEW j \in Jobs, Conclude(j)
      PROVE  StartedInOrder
  <2>1. state' \in {state, [state EXCEPT ![j] = OutcomeState(j)]}
    BY <1>1, <1>7, OutcomeTyped, FinalizeState DEF Conclude
  <2>2. OutcomeState(j) # "running" BY <1>1, OutcomeTyped DEF Terminal
  <2> QED BY <1>3, <1>4, <2>1, <2>2
<1>8. ASSUME NEW j \in Jobs, InLoop(j)
      PROVE  StartedInOrder
  BY <1>1, <1>3, <1>8, LoopStep DEF InLoop, loopFrame
<1>9. CASE Lookup \/ Shutdown \/ ShutdownReturns \/ UNCHANGED vars
  BY <1>3, <1>9 DEF Lookup, Shutdown, ShutdownReturns, vars, recordVars
<1>10. ASSUME NEW j \in Jobs,
              \/ SkipCancelled(j) \/ JoinTimesOut(j)   \/ Publish(j)
              \/ Exit(j)          \/ DeadlinePasses(j) \/ GracePasses(j)
              \/ \E f \in Endings : Finish(j, f)
       PROVE  StartedInOrder
  BY <1>3, <1>10 DEF SkipCancelled, JoinTimesOut, Publish, Exit,
                     DeadlinePasses, GracePasses, Finish, recordVars
<1> QED BY <1>2, <1>5, <1>6, <1>7, <1>8, <1>9, <1>10
        DEF Next, DispatchStep, InLoop

\* Dispatch is fair: no job is started before one that was admitted earlier
\* and still waits.
THEOREM OrderOfStart == Spec => NoQueueJumping
PROOF
<1>1. Init => WaitersComplete BY DEF Init, WaitersComplete
<1>2. IInv /\ WaitersComplete /\ [Next]_vars => WaitersComplete'
  BY WaitersCompleteStep
<1>3. IInv /\ WaitersComplete /\ [Next]_vars => [StartedInOrder]_vars
  BY StartedInOrderStep
<1>4. NoQueueJumping <=> [][StartedInOrder]_vars
  BY DEF NoQueueJumping, StartedInOrder
<1> QED BY <1>1, <1>2, <1>3, <1>4, Invariance, PTL DEF Spec

-----------------------------------------------------------------------------
(* Causes of a stop *)

Cancelling == {"cancelled", "cancelled_best"}

Requested(j) == \E i \in 1 .. Len(journal[j]) :
                  journal[j][i].kind = "cancellation_requested"

\* Behind every stop of a job stands its cause: a forced stop its deadline or
\* the request of a client; the event shared with the worker one of these, or
\* shutdown; a worker that reports a cancellation that event.
Caused(j) ==
  /\ state[j] = "cancellation_requested" => Requested(j)
  /\ forced[j] = "timed_out" => deadline[j]
  /\ forced[j] = "cancelled" => Requested(j)
  /\ cancellation[j] => server # "up" \/ Requested(j) \/ forced[j] = "timed_out"
  /\ finished[j] \in Cancelling => cancellation[j]
  /\ \A i \in 1 .. Len(pipe[j]) : pipe[j][i].kind \in Cancelling => cancellation[j]
StopsCaused == \A j \in Jobs : Caused(j)

\* A step that leaves the job alone.
LEMMA CausedKept ==
  ASSUME NEW j \in Jobs, Caused(j), server # "up" => server' # "up",
         state'[j] = state[j], journal'[j] = journal[j], forced'[j] = forced[j],
         deadline'[j] = deadline[j], cancellation'[j] = cancellation[j],
         finished'[j] = finished[j], pipe'[j] = pipe[j]
  PROVE  Caused(j)'
PROOF
<1>1. Requested(j)' <=> Requested(j) BY DEF Requested
<1> QED BY ZenonT(20), <1>1 DEF Caused

\* Lines are only added, so that a request stays in the journal.
LEMMA RequestedKept ==
  ASSUME TypeOK, NEW j \in Jobs, Requested(j),
         \/ \E s : journal'[j] = Append(journal[j], s)
         \/ \E q \in Seq(Lines) : journal'[j] = journal[j] \o q
  PROVE  Requested(j)'
PROOF
<1>1. PICK i \in 1 .. Len(journal[j]) :
        journal[j][i].kind = "cancellation_requested"
  BY DEF Requested
<1>2. journal[j] \in Seq(Lines) BY DEF TypeOK, Lines
<1>3. i \in 1 .. Len(journal'[j]) /\ journal'[j][i] = journal[j][i]
  <2>1. CASE \E s : journal'[j] = Append(journal[j], s) BY <1>2, <2>1
  <2>2. CASE \E q \in Seq(Lines) : journal'[j] = journal[j] \o q BY <1>2, <2>2
  <2> QED BY <2>1, <2>2
<1> QED BY <1>1, <1>3 DEF Requested

\* A pass of the loop: what it newly forces has its cause, and what it reads
\* was in the queue.
LEMMA TopOfLoopCaused ==
  ASSUME TypeOK, NEW j \in Jobs, Caused(j), UNCHANGED <<state, deadline, server>>,
         Requested(j) => Requested(j)',
         NEW p \in Seq(Messages), NEW l, TopOfLoop(j, p, l),
         \A i \in 1 .. Len(p) : p[i].kind \in Cancelling => cancellation[j]
  PROVE  Caused(j)'
PROOF
<1>1. /\ forced'[j] = Forced(j)
      /\ cancellation'[j] = (cancellation[j] \/ Forced(j) # forced[j])
  BY DEF TopOfLoop, TypeOK
<1>2. cancellation[j] => cancellation'[j] BY Zenon, <1>1
<1>3. forced[j] \in {"none", "timed_out", "cancelled"} BY DEF TypeOK
<1>4. \/ Forced(j) = forced[j]
      \/ forced[j] = "none" /\ Forced(j) = "timed_out" /\ deadline[j]
      \/ /\ forced[j] = "none" /\ Forced(j) = "cancelled"
         /\ state[j] = "cancellation_requested"
  BY <1>3 DEF Forced
<1>5. /\ state'[j] = "cancellation_requested" => Requested(j)'
      /\ forced'[j] = "timed_out" => deadline'[j]
      /\ forced'[j] = "cancelled" => Requested(j)'
  BY <1>1, <1>4 DEF Caused
<1>6. cancellation'[j] =>
        server' # "up" \/ Requested(j)' \/ forced'[j] = "timed_out"
  <2>1. CASE Forced(j) = forced[j] BY <1>1, <2>1 DEF Caused
  <2>2. CASE Forced(j) # forced[j] BY <1>1, <1>4, <1>5, <2>2
  <2> QED BY <2>1, <2>2
<1>7. finished'[j] \in {finished[j], FinalOf(p)} /\ pipe'[j] \in {p, <<>>}
  BY DEF TopOfLoop, TypeOK
<1>8. FinalOf(p) \in Cancelling => cancellation[j]
  <2>1. CASE Closed(p)
    <3>1. Len(p) \in 1 .. Len(p) BY <2>1 DEF Closed
    <3>2. FinalOf(p) = p[Len(p)].kind BY <2>1 DEF FinalOf
    <3> QED BY Zenon, <3>1, <3>2
  <2>2. CASE ~ Closed(p) BY <2>2 DEF FinalOf, Cancelling
  <2> QED BY <2>1, <2>2
<1>9. finished'[j] \in Cancelling => cancellation'[j]
  <2>1. finished[j] \in Cancelling => cancellation[j] BY Zenon DEF Caused
  <2> QED BY Zenon, <1>2, <1>7, <1>8, <2>1
<1>10. \A i \in 1 .. Len(pipe'[j]) :
         pipe'[j][i].kind \in Cancelling => cancellation'[j]
  <2>1. CASE pipe'[j] = p BY Zenon, <1>2, <2>1
  <2>2. CASE pipe'[j] = <<>> BY <2>2
  <2> QED BY <1>7, <2>1, <2>2
<1> QED BY Zenon, <1>5, <1>6, <1>9, <1>10 DEF Caused

\* The message loop.
LEMMA LoopCaused ==
  ASSUME TypeOK, PipesShaped, StopsCaused, NEW j \in Jobs, InLoop(j)
  PROVE  Caused(j)'
PROOF
<1>1. /\ Caused(j) /\ pipe[j] \in Seq(Messages) /\ Shaped(pipe[j])
  BY DEF StopsCaused, TypeOK, Messages, PipesShaped
<1>2. UNCHANGED loopFrame BY LoopStep DEF InLoop
<1>3. UNCHANGED <<state, deadline, server>> BY <1>2 DEF loopFrame
<1>4. Requested(j) => Requested(j)'
  <2>1. PICK q \in Seq(ProgressEvents) : journal'[j] = journal[j] \o q
    BY LoopJournal
  <2>2. q \in Seq(Lines) BY DEF Lines
  <2> QED BY <2>1, <2>2, RequestedKept
<1>5. \A i \in 1 .. Len(pipe[j]) : pipe[j][i].kind \in Cancelling => cancellation[j]
  BY Zenon, <1>1 DEF Caused
<1>6. ASSUME pipe[j] # <<>>
      PROVE  /\ Tail(pipe[j]) \in Seq(Messages) /\ Head(pipe[j]) = pipe[j][1]
             /\ 1 \in 1 .. Len(pipe[j])
             /\ \A i \in 1 .. Len(Tail(pipe[j])) :
                  i + 1 \in 1 .. Len(pipe[j]) /\ Tail(pipe[j])[i] = pipe[j][i + 1]
  BY <1>1, <1>6
<1>7. ASSUME pipe[j] # <<>>
      PROVE  \A i \in 1 .. Len(Tail(pipe[j])) :
               Tail(pipe[j])[i].kind \in Cancelling => cancellation[j]
  BY Zenon, <1>5, <1>6, <1>7
<1>8. CASE ReceiveProgress(j)
  <2>1. /\ pipe[j] # <<>>
        /\ TopOfLoop(j, Tail(pipe[j]), Append(journal[j], Head(pipe[j])))
    BY <1>8 DEF ReceiveProgress
  <2> QED BY <1>1, <1>3, <1>4, <1>6, <1>7, <2>1, TopOfLoopCaused
<1>9. CASE ReceiveFinished(j)
  <2>1. /\ pipe[j] # <<>> /\ finished'[j] = Head(pipe[j]).kind
        /\ pipe'[j] = Tail(pipe[j]) /\ cancellation' = cancellation
        /\ forced' = forced
    BY <1>9 DEF ReceiveFinished, TypeOK
  <2>2. finished'[j] \in Cancelling => cancellation'[j]
    BY Zenon, <1>5, <1>6, <2>1
  <2>3. \A i \in 1 .. Len(pipe'[j]) :
          pipe'[j][i].kind \in Cancelling => cancellation'[j]
    BY Zenon, <1>7, <2>1
  <2> QED BY Zenon, <1>1, <1>3, <1>4, <2>1, <2>2, <2>3 DEF Caused
<1>10. ASSUME UNCHANGED <<journal, forced, finished, cancellation, pipe>>
       PROVE  Caused(j)'
  BY <1>1, <1>3, <1>10, CausedKept
<1>11. CASE GetTimesOut(j) BY <1>10, <1>11 DEF GetTimesOut
<1>12. CASE ResumeEmpty(j)
  <2>1. CASE Alive(j)
    <3>1. TopOfLoop(j, pipe[j], journal[j]) BY <1>12, <2>1 DEF ResumeEmpty
    <3> QED BY <1>1, <1>3, <1>4, <1>5, <3>1, TopOfLoopCaused
  <2>2. CASE ~ Alive(j) BY <1>10, <1>12, <2>2 DEF ResumeEmpty
  <2> QED BY <2>1, <2>2
<1> QED BY <1>8, <1>9, <1>11, <1>12 DEF InLoop

\* A record that enters a state; a request is in the journal from then on.
LEMMA EnterCaused ==
  ASSUME TypeOK, StopsCaused, NEW j \in Jobs, NEW s, Enter(j, s),
         server' = server, deadline' = deadline,
         UNCHANGED <<forced, finished, pipe>>,
         \/ cancellation' = cancellation
         \/ /\ cancellation' = [cancellation EXCEPT ![j] = TRUE]
            /\ s = "cancellation_requested"
  PROVE  StopsCaused'
PROOF
<1>1. /\ journal'[j] = Append(journal[j], Event(s)) /\ state'[j] = s
      /\ \A k \in Jobs \ {j} : journal'[k] = journal[k] /\ state'[k] = state[k]
  BY DEF Enter, TypeOK
<1>2. \A k \in Jobs \ {j} : cancellation'[k] = cancellation[k] BY DEF TypeOK
<1>3. Requested(j) => Requested(j)' BY <1>1, RequestedKept
<1>4. s = "cancellation_requested" => Requested(j)'
  <2>1. /\ Len(journal'[j]) \in 1 .. Len(journal'[j])
        /\ journal'[j][Len(journal'[j])] = Event(s)
    BY <1>1 DEF TypeOK
  <2> QED BY <2>1 DEF Requested, Event
<1>5. Caused(j) BY DEF StopsCaused
<1>6. cancellation[j] => cancellation'[j] BY DEF TypeOK
<1>7. cancellation'[j] =>
        server' # "up" \/ Requested(j)' \/ forced'[j] = "timed_out"
  <2>1. CASE cancellation' = cancellation BY Zenon, <1>3, <1>5, <2>1 DEF Caused
  <2>2. CASE cancellation' # cancellation BY <1>4, <2>2
  <2> QED BY <2>1, <2>2
<1>8. Caused(j)' BY Zenon, <1>1, <1>3, <1>4, <1>5, <1>6, <1>7 DEF Caused
<1>9. ASSUME NEW k \in Jobs \ {j}
      PROVE  Caused(k)'
  <2>1. Caused(k) BY DEF StopsCaused
  <2> QED BY <1>1, <1>2, <2>1, CausedKept
<1> QED BY <1>8, <1>9 DEF StopsCaused

\* Every step keeps a cause behind every stop.
LEMMA CausedStep ==
  ASSUME IInv, StopsCaused, [Next]_vars
  PROVE  StopsCaused'
PROOF
<1>1. TypeOK /\ TasksMatch /\ PipesShaped BY DEF IInv
<1>2. \A k \in Jobs : Caused(k) BY DEF StopsCaused
<1>3. ASSUME UNCHANGED <<state, journal, forced, deadline, cancellation,
                         finished, pipe, server>>
      PROVE  StopsCaused'
  BY <1>2, <1>3, CausedKept DEF StopsCaused
<1>4. ASSUME NEW j \in Jobs, Create(j) \/ CancelRunning(j) \/ StartWorker(j)
      PROVE  StopsCaused'
  <2>1. \/ Enter(j, "queued") /\ cancellation' = cancellation
        \/ Enter(j, "running") /\ cancellation' = cancellation
        \/ /\ Enter(j, "cancellation_requested")
           /\ cancellation' = [cancellation EXCEPT ![j] = TRUE]
    BY <1>4 DEF Create, CancelRunning, StartWorker
  <2>2. server' = server /\ deadline' = deadline /\ UNCHANGED <<forced, finished, pipe>>
    BY <1>4 DEF Create, CancelRunning, StartWorker, workerVars
  <2> QED BY <1>1, <2>1, <2>2, EnterCaused
<1>5. ASSUME NEW j \in Jobs, CancelQueued(j)
      PROVE  StopsCaused'
  <2>1. state[j] \notin Terminal BY <1>5 DEF CancelQueued, Terminal
  <2>2. Enter(j, "cancelled") BY <1>5, <2>1 DEF CancelQueued, Finalize
  <2>3. server' = server /\ deadline' = deadline
        /\ UNCHANGED <<forced, finished, pipe>> /\ cancellation' = cancellation
    BY <1>5 DEF CancelQueued, monitorVars, workerVars
  <2> QED BY <1>1, <2>2, <2>3, EnterCaused
<1>6. ASSUME NEW j \in Jobs, Conclude(j)
      PROVE  StopsCaused'
  <2>1. /\ forced'[j] = "none" /\ finished'[j] = "none" /\ pipe'[j] = <<>>
        /\ cancellation'[j] = FALSE /\ server' = server
    BY <1>1, <1>6 DEF Conclude, TypeOK
  <2>2. /\ state'[j] \in Terminal
        /\ \A k \in Jobs \ {j} : state'[k] = state[k] /\ journal'[k] = journal[k]
    <3>1. Finalize(j, OutcomeState(j), OutcomeResult(j), OutcomeError(j))
      BY <1>6 DEF Conclude
    <3>2. state'[j] \in Terminal BY <1>1, <3>1, OutcomeTyped, FinalizeState
    <3> QED BY <1>1, <3>1, <3>2 DEF Finalize, Enter, recordVars, TypeOK
  <2>3. Caused(j)'
    BY <2>1, <2>2 DEF Caused, Terminal, Cancelling
  <2>4. ASSUME NEW k \in Jobs \ {j}
        PROVE  Caused(k)'
    <3>1. /\ forced'[k] = forced[k] /\ finished'[k] = finished[k]
          /\ pipe'[k] = pipe[k] /\ cancellation'[k] = cancellation[k]
          /\ deadline'[k] = deadline[k]
      BY <1>1, <1>6 DEF Conclude, TypeOK
    <3> QED BY <1>2, <2>1, <2>2, <3>1, CausedKept
  <2> QED BY <2>3, <2>4 DEF StopsCaused
<1>7. ASSUME NEW j \in Jobs, InLoop(j)
      PROVE  StopsCaused'
  <2>1. ASSUME NEW k \in Jobs \ {j}
        PROVE  Caused(k)'
    <3>1. /\ UNCHANGED loopFrame /\ pipe'[k] = pipe[k] /\ journal'[k] = journal[k]
      BY <1>1, <1>7, LoopStep DEF InLoop
    <3>2. ASSUME NEW p, NEW l, TopOfLoop(j, p, l)
          PROVE  /\ forced'[k] = forced[k] /\ finished'[k] = finished[k]
                 /\ cancellation'[k] = cancellation[k]
      BY <1>1, <3>2 DEF TopOfLoop, TypeOK
    <3>3. /\ forced'[k] = forced[k] /\ finished'[k] = finished[k]
          /\ cancellation'[k] = cancellation[k]
      BY <1>1, <1>7, <3>2
         DEF InLoop, ReceiveProgress, ReceiveFinished, GetTimesOut, ResumeEmpty,
             TypeOK
    <3> QED BY <1>2, <3>1, <3>3, CausedKept DEF loopFrame
  <2> QED BY <1>1, <1>7, <2>1, LoopCaused DEF StopsCaused
<1>8. CASE Shutdown
  <2>1. /\ server' = "stopping" /\ UNCHANGED <<state, journal, forced, deadline,
                                               finished, pipe>>
    BY <1>8 DEF Shutdown, recordVars, workerVars
  <2>2. \A k \in Jobs : cancellation[k] => cancellation'[k]
    BY <1>8 DEF Shutdown
  <2>3. ASSUME NEW k \in Jobs
        PROVE  Caused(k)'
    <3>1. Requested(k)' <=> Requested(k) BY <2>1 DEF Requested
    <3>2. server' # "up" BY <2>1
    <3> QED BY ZenonT(20), <1>2, <2>1, <2>2, <3>1, <3>2 DEF Caused
  <2> QED BY <2>3 DEF StopsCaused
<1>9. CASE ShutdownReturns
  <2>1. /\ server' # "up" /\ UNCHANGED <<state, journal, forced, deadline,
                                         cancellation, finished, pipe>>
    BY <1>9 DEF ShutdownReturns, recordVars, monitorVars, workerVars
  <2> QED BY <1>2, <2>1, CausedKept DEF StopsCaused
<1>10. ASSUME NEW j \in Jobs, DeadlinePasses(j)
       PROVE  StopsCaused'
  <2>1. UNCHANGED <<state, journal, forced, cancellation, finished, pipe, server>>
    BY <1>10 DEF DeadlinePasses, recordVars, monitorVars, workerVars
  <2>2. /\ deadline'[j] = TRUE
        /\ \A k \in Jobs \ {j} : deadline'[k] = deadline[k]
    BY <1>1, <1>10 DEF DeadlinePasses, TypeOK
  <2>3. ASSUME NEW k \in Jobs
        PROVE  Caused(k)'
    <3>1. Requested(k)' <=> Requested(k) BY <2>1 DEF Requested
    <3>2. deadline[k] => deadline'[k] BY <2>2
    <3> QED BY ZenonT(20), <1>2, <2>1, <3>1, <3>2 DEF Caused
  <2> QED BY <2>3 DEF StopsCaused
<1>11. ASSUME NEW j \in Jobs, NEW m, Alive(j), pipe' = [pipe EXCEPT ![j] = Append(@, m)],
              m.kind \in Cancelling => cancellation[j],
              UNCHANGED <<state, journal, forced, deadline, cancellation,
                          finished, server>>
       PROVE  StopsCaused'
  <2>1. /\ pipe'[j] = Append(pipe[j], m)
        /\ \A k \in Jobs \ {j} : pipe'[k] = pipe[k]
    BY <1>1, <1>11 DEF TypeOK
  <2>2. \A i \in 1 .. Len(pipe'[j]) :
          \/ i \in 1 .. Len(pipe[j]) /\ pipe'[j][i] = pipe[j][i]
          \/ pipe'[j][i] = m
    BY <1>1, <2>1 DEF TypeOK
  <2>3. \A i \in 1 .. Len(pipe'[j]) :
          pipe'[j][i].kind \in Cancelling => cancellation'[j]
    BY Zenon, <1>2, <1>11, <2>2 DEF Caused
  <2>4. Requested(j)' <=> Requested(j) BY <1>11 DEF Requested
  <2>5. Caused(j)' BY ZenonT(20), <1>2, <1>11, <2>3, <2>4 DEF Caused
  <2>6. ASSUME NEW k \in Jobs \ {j}
        PROVE  Caused(k)'
    BY <1>2, <1>11, <2>1, CausedKept
  <2> QED BY <2>5, <2>6 DEF StopsCaused
<1>12. ASSUME NEW j \in Jobs, Publish(j)
       PROVE  StopsCaused'
  <2>1. Progress(published[j] + 1).kind \notin Cancelling
    BY DEF Progress, Cancelling
  <2>2. Alive(j) /\ pipe' = [pipe EXCEPT ![j] = Append(@, Progress(published[j] + 1))]
    BY <1>12 DEF Publish, Alive
  <2>3. UNCHANGED <<state, journal, forced, deadline, cancellation, finished, server>>
    BY <1>12 DEF Publish, recordVars, monitorVars
  <2> QED BY <1>11, <2>1, <2>2, <2>3
<1>13. ASSUME NEW j \in Jobs, NEW f \in Endings, Finish(j, f)
       PROVE  StopsCaused'
  <2>1. Event(f).kind \in Cancelling => cancellation[j]
    BY <1>13 DEF Finish, Event, Cancelling
  <2>2. Alive(j) /\ pipe' = [pipe EXCEPT ![j] = Append(@, Event(f))]
    BY <1>13 DEF Finish, Alive
  <2>3. UNCHANGED <<state, journal, forced, deadline, cancellation, finished, server>>
    BY <1>13 DEF Finish, recordVars, monitorVars
  <2> QED BY <1>11, <2>1, <2>2, <2>3
<1>14. CASE Lookup \/ UNCHANGED vars
  BY <1>3, <1>14 DEF Lookup, vars, recordVars, monitorVars, workerVars
<1>15. ASSUME NEW j \in Jobs, \/ SkipCancelled(j) \/ JoinTimesOut(j)
                              \/ Exit(j)          \/ GracePasses(j)
       PROVE  StopsCaused'
  BY <1>3, <1>15 DEF SkipCancelled, JoinTimesOut, Exit, GracePasses,
                     recordVars, monitorVars, workerVars
<1> QED BY <1>4, <1>5, <1>6, <1>7, <1>8, <1>9, <1>10, <1>12, <1>13, <1>14, <1>15
        DEF Next, DispatchStep, InLoop

\* What StopHasCause says of one step.
HasCause ==
  \A j \in Jobs :
    /\ state[j] \in {"running", "cancellation_requested"} /\ state'[j] = "cancelled" =>
         \/ server # "up"
         \/ \E i \in 1 .. Len(journal[j]) :
              journal[j][i].kind = "cancellation_requested"
    /\ state[j] # "timed_out" /\ state'[j] = "timed_out" =>
         deadline[j] \/ TimedOut(finished[j])

LEMMA HasCauseStep ==
  ASSUME IInv, StopsCaused, [Next]_vars
  PROVE  HasCause
PROOF
<1>1. TypeOK /\ TasksMatch BY DEF IInv
<1>2. ASSUME state' = state
      PROVE  HasCause
  BY <1>2 DEF HasCause
<1>3. ASSUME NEW j \in Jobs, NEW s, s \notin {"cancelled", "timed_out"},
             state' = [state EXCEPT ![j] = s]
      PROVE  HasCause
  BY <1>1, <1>3 DEF HasCause, TypeOK
<1>4. ASSUME NEW j \in Jobs, Create(j) \/ CancelRunning(j) \/ StartWorker(j)
      PROVE  HasCause
  BY <1>3, <1>4 DEF Create, CancelRunning, StartWorker, Enter
<1>5. ASSUME NEW j \in Jobs, CancelQueued(j)
      PROVE  HasCause
  <2>1. state' \in {state, [state EXCEPT ![j] = "cancelled"]}
    BY <1>1, <1>5, FinalizeState DEF CancelQueued, Terminal
  <2>2. state[j] = "queued" BY <1>5 DEF CancelQueued
  <2> QED BY <1>1, <2>1, <2>2 DEF HasCause, TypeOK
<1>6. ASSUME NEW j \in Jobs, Conclude(j)
      PROVE  HasCause
  <2>1. state' \in {state, [state EXCEPT ![j] = OutcomeState(j)]}
    BY <1>1, <1>6, OutcomeTyped, FinalizeState DEF Conclude
  <2>2. Caused(j) BY DEF StopsCaused
  <2>3. forced[j] \in {"none", "timed_out", "cancelled"} BY <1>1 DEF TypeOK
  <2>4. OutcomeState(j) = "cancelled" => server # "up" \/ Requested(j)
    <3>1. OutcomeState(j) = "cancelled" =>
            forced[j] = "cancelled" \/ (forced[j] = "none" /\ finished[j] \in Cancelling)
      BY <2>3 DEF OutcomeState, Cancelling, Stopped, TimedOut
    <3> QED BY <2>2, <3>1 DEF Caused
  <2>5. OutcomeState(j) = "timed_out" => deadline[j] \/ TimedOut(finished[j])
    <3>1. OutcomeState(j) = "timed_out" =>
            forced[j] = "timed_out" \/ TimedOut(finished[j])
      BY <2>3 DEF OutcomeState, Stopped, TimedOut
    <3> QED BY <2>2, <3>1 DEF Caused
  <2>6. CASE state' = state BY <1>2, <2>6
  <2>7. CASE state' = [state EXCEPT ![j] = OutcomeState(j)]
    <3>1. \A k \in Jobs : state'[k] = IF k = j THEN OutcomeState(j) ELSE state[k]
      BY <1>1, <2>7 DEF TypeOK
    <3> QED BY <2>4, <2>5, <3>1 DEF HasCause, Requested
  <2> QED BY <2>1, <2>6, <2>7
<1>7. ASSUME NEW j \in Jobs, InLoop(j)
      PROVE  HasCause
  BY <1>1, <1>2, <1>7, LoopStep DEF InLoop, loopFrame
<1>8. CASE Lookup \/ Shutdown \/ ShutdownReturns \/ UNCHANGED vars
  BY <1>2, <1>8 DEF Lookup, Shutdown, ShutdownReturns, vars, recordVars
<1>9. ASSUME NEW j \in Jobs,
             \/ SkipCancelled(j) \/ JoinTimesOut(j)   \/ Publish(j)
             \/ Exit(j)          \/ DeadlinePasses(j) \/ GracePasses(j)
             \/ \E f \in Endings : Finish(j, f)
      PROVE  HasCause
  BY <1>2, <1>9 DEF SkipCancelled, JoinTimesOut, Publish, Exit,
                    DeadlinePasses, GracePasses, Finish, recordVars
<1> QED BY <1>4, <1>5, <1>6, <1>7, <1>8, <1>9 DEF Next, DispatchStep, InLoop

\* A started job ends cancelled only after a request or during shutdown, and
\* timed out only after its deadline or the worker's own clock.
THEOREM StopsHaveCauses == Spec => StopHasCause
PROOF
<1>1. Init => StopsCaused
  BY DEF Init, StopsCaused, Caused, Cancelling
<1>2. IInv /\ StopsCaused /\ [Next]_vars => StopsCaused' BY CausedStep
<1>3. IInv /\ StopsCaused /\ [Next]_vars => [HasCause]_vars BY HasCauseStep
<1>4. StopHasCause <=> [][HasCause]_vars BY DEF StopHasCause, HasCause
<1> QED BY <1>1, <1>2, <1>3, <1>4, Invariance, PTL DEF Spec

-----------------------------------------------------------------------------
(* The events of a worker *)

\* Lines that are not progress leave the numbers alone.
LEMMA LineKeepsNumbers ==
  ASSUME NEW a \in Seq(Lines), NEW m, m.kind # "progress", InOrder(a)
  PROVE  LoggedNumbers(Append(a, m)) = LoggedNumbers(a) /\ InOrder(Append(a, m))
PROOF
<1> DEFINE b == Append(a, m)
<1>1. /\ Len(b) = Len(a) + 1 /\ Len(a) \in Nat /\ b[Len(a) + 1] = m
      /\ \A i \in 1 .. Len(a) : b[i] = a[i]
  OBVIOUS
<1> HIDE DEF b
<1>2. Logged(b) = Logged(a)
  <2>1. \A i \in 1 .. Len(b) : i \in 1 .. Len(a) \/ i = Len(a) + 1 BY <1>1
  <2>2. \A i \in 1 .. Len(a) : i \in 1 .. Len(b) BY <1>1
  <2> QED BY <1>1, <2>1, <2>2 DEF Logged
<1>3. \A i \in Logged(a) : b[i] = a[i] BY <1>1 DEF Logged
<1>4. LoggedNumbers(b) = LoggedNumbers(a) BY <1>2, <1>3 DEF LoggedNumbers
<1>5. InOrder(b) BY <1>2, <1>3 DEF InOrder
<1> QED BY <1>4, <1>5 DEF b

\* Progress lines that count on from c make the numbers count on.
LEMMA LinesCountOn ==
  ASSUME NEW a \in Seq(Lines), NEW c \in Nat,
         LoggedNumbers(a) = 1 .. c, InOrder(a),
         NEW q \in Seq(ProgressEvents), \A i \in 1 .. Len(q) : q[i].number = c + i
  PROVE  /\ LoggedNumbers(a \o q) = 1 .. (c + Len(q))
         /\ InOrder(a \o q)
PROOF
<1> DEFINE b == a \o q
<1>1. /\ Len(b) = Len(a) + Len(q) /\ Len(a) \in Nat /\ Len(q) \in Nat
      /\ \A i \in 1 .. Len(a) : b[i] = a[i]
      /\ \A i \in 1 .. Len(q) : b[Len(a) + i] = q[i]
  OBVIOUS
<1>2. \A i \in 1 .. Len(q) : q[i].kind = "progress" BY Kinds
<1> HIDE DEF b
<1>3. \A i \in Logged(a) : i \in 1 .. Len(a) /\ i \in Logged(b) /\ b[i] = a[i]
  BY <1>1 DEF Logged
<1>4. \A i \in 1 .. Len(q) :
        Len(a) + i \in Logged(b) /\ b[Len(a) + i].number = c + i
  BY SMTT(20), <1>1, <1>2 DEF Logged
<1>5. ASSUME NEW i \in Logged(b)
      PROVE  i \in Logged(a) \/ \E k \in 1 .. Len(q) : i = Len(a) + k
  <2>1. CASE i \in 1 .. Len(a) BY <1>1, <2>1 DEF Logged
  <2>2. CASE i \notin 1 .. Len(a)
    <3>1. i - Len(a) \in 1 .. Len(q) /\ i = Len(a) + (i - Len(a))
      BY <1>1, <2>2 DEF Logged
    <3> QED BY <3>1
  <2> QED BY <2>1, <2>2
<1>6. \A i \in Logged(a) : a[i].number \in 1 .. c BY Zenon DEF LoggedNumbers
<1>7. LoggedNumbers(b) \subseteq 1 .. (c + Len(q))
  <2>1. ASSUME NEW i \in Logged(b)
        PROVE  b[i].number \in 1 .. (c + Len(q))
    <3>1. CASE i \in Logged(a) BY <1>1, <1>3, <1>6, <3>1
    <3>2. CASE \E k \in 1 .. Len(q) : i = Len(a) + k BY <1>1, <1>4, <3>2
    <3> QED BY <1>5, <3>1, <3>2
  <2> QED BY <2>1 DEF LoggedNumbers
<1>8. 1 .. (c + Len(q)) \subseteq LoggedNumbers(b)
  <2>1. ASSUME NEW n \in 1 .. (c + Len(q))
        PROVE  \E i \in Logged(b) : b[i].number = n
    <3>1. CASE n \in 1 .. c
      <4>1. PICK i \in Logged(a) : a[i].number = n BY <3>1 DEF LoggedNumbers
      <4> QED BY <1>3, <4>1
    <3>2. CASE n \notin 1 .. c
      <4>1. n - c \in 1 .. Len(q) /\ c + (n - c) = n BY <1>1, <3>2
      <4> QED BY <1>4, <4>1
    <3> QED BY <3>1, <3>2
  <2> QED BY <2>1 DEF LoggedNumbers
<1>9. InOrder(b)
  <2> SUFFICES ASSUME NEW i \in Logged(b), NEW k \in Logged(b), i < k
               PROVE  b[i].number < b[k].number
    BY DEF InOrder
  <2>1. CASE i \in Logged(a) /\ k \in Logged(a) BY <1>3, <2>1 DEF InOrder
  <2>2. CASE i \in Logged(a) /\ k \notin Logged(a)
    <3>1. PICK m \in 1 .. Len(q) : k = Len(a) + m BY <1>5, <2>2
    <3>2. b[k].number = c + m /\ b[i].number \in 1 .. c
      BY <1>3, <1>4, <1>6, <2>2, <3>1
    <3> QED BY <3>2
  <2>3. CASE i \notin Logged(a)
    <3>1. PICK m \in 1 .. Len(q) : i = Len(a) + m BY <1>5, <2>3
    <3>2. k \notin Logged(a) BY <1>1, <1>3, <3>1
    <3>3. PICK o \in 1 .. Len(q) : k = Len(a) + o BY <1>5, <3>2
    <3> QED BY <1>1, <1>4, <3>1, <3>3
  <2> QED BY <2>1, <2>2, <2>3
<1>10. LoggedNumbers(b) = 1 .. (c + Len(q)) BY <1>7, <1>8
<1> QED BY <1>9, <1>10 DEF b

\* The journal of a job holds the events 1 to c, the queue those from c + 1 to
\* the last published; a final message is read when the queue is empty and the
\* worker done.  The queue of a job that is over is gone.
CountsOn(j, c) ==
  /\ LoggedNumbers(journal[j]) = 1 .. c
  /\ task[j] # "done" =>
       /\ published[j] = c + Len(Leading(pipe[j]))
       /\ \A i \in 1 .. Len(Leading(pipe[j])) : pipe[j][i].number = c + i
Counted(j) ==
  /\ InOrder(journal[j])
  /\ \E c \in Nat : CountsOn(j, c)
  /\ finished[j] # "none" =>
       task[j] = "joining" /\ worker[j] # "working" /\ pipe[j] = <<>>
EventsCounted == \A j \in Jobs : Counted(j)

\* A step that leaves the events of the job alone.
LEMMA CountedKept ==
  ASSUME NEW j \in Jobs, Counted(j), journal'[j] = journal[j], pipe'[j] = pipe[j],
         published'[j] = published[j], finished'[j] = finished[j],
         worker'[j] = "working" => worker[j] = "working" \/ finished[j] = "none",
         \/ task'[j] = task[j]
         \/ finished[j] = "none" /\ task[j] # "done"
  PROVE  Counted(j)'
PROOF
<1>1. PICK c \in Nat : CountsOn(j, c) BY DEF Counted
<1>2. CountsOn(j, c)' BY Zenon, <1>1 DEF CountsOn, Counted
<1>3. finished'[j] # "none" =>
        task'[j] = "joining" /\ worker'[j] # "working" /\ pipe'[j] = <<>>
  BY Zenon DEF Counted
<1>4. InOrder(journal'[j]) BY DEF Counted
<1> QED BY Zenon, <1>1, <1>2, <1>3, <1>4 DEF Counted

\* A pass of the loop with the lines l and the queue p.
LEMMA TopOfLoopCounted ==
  ASSUME TypeOK, NEW j \in Jobs, finished[j] = "none", published' = published,
         NEW p \in Seq(Messages), Shaped(p), NEW l \in Seq(Lines), NEW c \in Nat,
         InOrder(l), LoggedNumbers(l) = 1 .. c,
         published[j] = c + Len(Leading(p)),
         \A i \in 1 .. Len(Leading(p)) : p[i].number = c + i,
         TopOfLoop(j, p, l)
  PROVE  Counted(j)'
PROOF
<1>1. Leading(p) \in Seq(ProgressEvents) BY LeadingProgress
<1>2. CASE pipe'[j] = p /\ journal'[j] = l /\ finished'[j] = "none"
  <2>1. CountsOn(j, c)' BY Zenon, <1>2 DEF CountsOn
  <2> QED BY Zenon, <1>2, <2>1 DEF Counted
<1>3. CASE /\ pipe'[j] = <<>> /\ journal'[j] = l \o Leading(p)
           /\ task'[j] = "joining" /\ worker'[j] # "working"
  <2>1. \A i \in 1 .. Len(Leading(p)) : Leading(p)[i] = p[i] BY DEF Leading
  <2>2. \A i \in 1 .. Len(Leading(p)) : Leading(p)[i].number = c + i
    BY Zenon, <2>1
  <2> DEFINE q == Leading(p)
  <2>3. q \in Seq(ProgressEvents) /\ \A i \in 1 .. Len(q) : q[i].number = c + i
    BY <1>1, <2>2
  <2>4. published'[j] = c + Len(q) /\ journal'[j] = l \o q BY <1>3
  <2> HIDE DEF q
  <2>5. LoggedNumbers(journal'[j]) = 1 .. (c + Len(q)) /\ InOrder(journal'[j])
    BY <2>3, <2>4, LinesCountOn
  <2>6. Leading(<<>>) = <<>> /\ Len(<<>>) = 0 BY DEF Leading, Closed
  <2>7. c + Len(q) \in Nat BY <2>3
  <2>8. CountsOn(j, c + Len(q))' BY <1>3, <2>4, <2>5, <2>6, <2>7 DEF CountsOn
  <2> QED BY Zenon, <1>3, <2>5, <2>7, <2>8 DEF Counted
<1>4. CASE grace[j] = "passed" \/ Alive(j)
  <2>1. /\ pipe' = [pipe EXCEPT ![j] = p] /\ journal' = [journal EXCEPT ![j] = l]
        /\ finished' = finished
    BY <1>4 DEF TopOfLoop
  <2> QED BY <1>2, <2>1 DEF TypeOK
<1>5. CASE grace[j] # "passed" /\ ~ Alive(j)
  <2>1. /\ pipe' = [pipe EXCEPT ![j] = <<>>]
        /\ journal' = [journal EXCEPT ![j] = l \o Leading(p)]
        /\ task' = [task EXCEPT ![j] = "joining"] /\ worker' = worker
    BY <1>5 DEF TopOfLoop
  <2>2. worker[j] # "working" BY <1>5 DEF Alive
  <2> QED BY <1>3, <2>1, <2>2 DEF TypeOK
<1> QED BY <1>4, <1>5

\* What is left before the final message when the first one is taken.
LEMMA LeadingTail ==
  ASSUME NEW p \in Seq(Messages), p # <<>>, ~ IsFinish(Head(p))
  PROVE  Len(Leading(p)) = Len(Leading(Tail(p))) + 1
PROOF
<1> DEFINE t == Tail(p)
<1>1. /\ t \in Seq(Messages) /\ Len(t) = Len(p) - 1 /\ Len(p) \in Nat /\ Len(p) >= 1
      /\ Head(p) = p[1] /\ \A i \in 1 .. Len(t) : t[i] = p[i + 1]
  OBVIOUS
<1> HIDE DEF t
<1>2. CASE Closed(p)
  <2>1. IsFinish(p[Len(p)]) BY <1>2 DEF Closed
  <2>2. Len(p) # 1 BY <1>1, <2>1
  <2>3. Len(t) \in 1 .. Len(t) /\ t[Len(t)] = p[Len(p)] BY <1>1, <2>2
  <2>4. Closed(t) BY <1>1, <2>1, <2>3 DEF Closed
  <2>5. Leading(p) = SubSeq(p, 1, Len(p) - 1) /\ Leading(t) = SubSeq(t, 1, Len(t) - 1)
    BY <1>2, <2>4 DEF Leading
  <2>6. Len(Leading(p)) = Len(p) - 1 /\ Len(Leading(t)) = Len(t) - 1
    BY <1>1, <2>3, <2>5
  <2>7. Len(Leading(p)) = Len(Leading(t)) + 1 BY <1>1, <2>6
  <2> QED BY Zenon, <2>7 DEF t
<1>3. CASE ~ Closed(p)
  <2>1. ~ IsFinish(p[Len(p)]) BY <1>3 DEF Closed
  <2>2. t # <<>> => t[Len(t)] = p[Len(p)] BY <1>1
  <2>3. ~ Closed(t) BY <2>1, <2>2 DEF Closed
  <2>4. Leading(p) = p /\ Leading(t) = t BY <1>3, <2>3 DEF Leading
  <2>5. Len(Leading(p)) = Len(Leading(t)) + 1 BY <1>1, <2>4
  <2> QED BY Zenon, <2>5 DEF t
<1> QED BY <1>2, <1>3

\* It is part of the queue.
LEMMA LeadingLength ==
  ASSUME NEW p \in Seq(Messages)
  PROVE  Len(Leading(p)) \in Nat /\ Len(Leading(p)) <= Len(p) /\ Len(p) \in Nat
PROOF
<1>1. CASE Closed(p)
  <2>1. p # <<>> /\ Leading(p) = SubSeq(p, 1, Len(p) - 1)
    BY <1>1 DEF Closed, Leading
  <2> QED BY <2>1
<1>2. CASE ~ Closed(p) BY <1>2 DEF Leading
<1> QED BY <1>1, <1>2

\* The message loop.
LEMMA LoopCounted ==
  ASSUME TypeOK, PipesShaped, NEW j \in Jobs, Counted(j), InLoop(j)
  PROVE  Counted(j)'
PROOF
<1>1. /\ pipe[j] \in Seq(Messages) /\ Shaped(pipe[j]) /\ journal[j] \in Seq(Lines)
  BY DEF TypeOK, Messages, Lines, PipesShaped
<1>2. task[j] \in {"getting", "empty"}
  BY DEF InLoop, ReceiveProgress, ReceiveFinished, GetTimesOut, ResumeEmpty
<1>3. finished[j] = "none" BY <1>2 DEF Counted
<1>4. PICK c \in Nat : CountsOn(j, c) BY DEF Counted
<1>5. /\ LoggedNumbers(journal[j]) = 1 .. c
      /\ published[j] = c + Len(Leading(pipe[j]))
      /\ \A i \in 1 .. Len(Leading(pipe[j])) : pipe[j][i].number = c + i
  BY <1>2, <1>4 DEF CountsOn
<1>6. InOrder(journal[j]) BY DEF Counted
<1>7. published' = published BY LoopStep DEF InLoop, loopFrame
<1>8. CASE ReceiveProgress(j)
  <2>1. /\ pipe[j] # <<>> /\ ~ IsFinish(Head(pipe[j]))
        /\ TopOfLoop(j, Tail(pipe[j]), Append(journal[j], Head(pipe[j])))
    BY <1>8 DEF ReceiveProgress
  <2> DEFINE h == Head(pipe[j])
             t == Tail(pipe[j])
             n == Len(Leading(t))
  <2>2. /\ t \in Seq(Messages) /\ Shaped(t) /\ h \in ProgressEvents
        /\ h = pipe[j][1]
        /\ \A i \in 1 .. Len(t) : t[i] = pipe[j][i + 1]
    BY <1>1, <2>1, TailShaped, Kinds
  <2>3. Len(Leading(pipe[j])) = n + 1 BY <1>1, <2>1, LeadingTail
  <2>4. n \in Nat /\ Len(t) \in Nat /\ n <= Len(t) BY <2>2, LeadingLength
  <2>5. TopOfLoop(j, t, Append(journal[j], h)) BY <2>1
  <2> HIDE DEF h, t, n
  <2>6. h.number = c + 1 BY <1>5, <2>2, <2>3, <2>4
  <2>7. ASSUME NEW i \in 1 .. n
        PROVE  t[i].number = (c + 1) + i
    <3>1. i \in 1 .. Len(t) /\ i + 1 \in 1 .. (n + 1) BY <2>4
    <3>2. pipe[j][i + 1].number = c + (i + 1) BY <1>5, <2>3, <3>1
    <3> QED BY <2>2, <3>1, <3>2
  <2>8. /\ Append(journal[j], h) \in Seq(Lines)
        /\ Append(journal[j], h) = journal[j] \o <<h>>
        /\ <<h>> \in Seq(ProgressEvents)
    <3>1. h \in ProgressEvents /\ h \in Lines BY <2>2 DEF Lines
    <3> QED BY <1>1, <3>1
  <2>9. /\ LoggedNumbers(Append(journal[j], h)) = 1 .. (c + 1)
        /\ InOrder(Append(journal[j], h))
    <3>1. Len(<<h>>) = 1 /\ <<h>>[1] = h OBVIOUS
    <3>2. \A i \in 1 .. Len(<<h>>) : <<h>>[i].number = c + i BY <2>6, <3>1
    <3>3. /\ LoggedNumbers(journal[j] \o <<h>>) = 1 .. (c + Len(<<h>>))
          /\ InOrder(journal[j] \o <<h>>)
      BY <1>1, <1>5, <1>6, <2>8, <3>2, LinesCountOn
    <3> QED BY <2>8, <3>1, <3>3
  <2>10. c + 1 \in Nat /\ published[j] = (c + 1) + n BY <1>5, <2>3, <2>4
  <2>11. /\ published[j] = (c + 1) + Len(Leading(t))
         /\ \A i \in 1 .. Len(Leading(t)) : t[i].number = (c + 1) + i
    BY <2>7, <2>10 DEF n
  <2> QED BY <1>3, <1>7, <2>2, <2>5, <2>8, <2>9, <2>10, <2>11, TopOfLoopCounted
<1>9. CASE ReceiveFinished(j)
  <2>1. /\ pipe[j] # <<>> /\ IsFinish(Head(pipe[j]))
        /\ pipe'[j] = Tail(pipe[j]) /\ task'[j] = "joining"
        /\ journal' = journal /\ worker' = worker
    <3>1. /\ pipe' = [pipe EXCEPT ![j] = Tail(@)]
          /\ task' = [task EXCEPT ![j] = "joining"]
          /\ pipe[j] # <<>> /\ IsFinish(Head(pipe[j]))
          /\ journal' = journal /\ worker' = worker
      BY <1>9 DEF ReceiveFinished
    <3> QED BY <3>1 DEF TypeOK
  <2>2. Len(pipe[j]) = 1 /\ pipe[j][1] = Head(pipe[j])
    <3>1. 1 \in 1 .. Len(pipe[j]) /\ pipe[j][1] = Head(pipe[j]) BY <1>1, <2>1
    <3> QED BY <1>1, <2>1, <3>1 DEF Shaped
  <2>3. pipe'[j] = <<>>
    <3>1. Tail(pipe[j]) \in Seq(Messages) /\ Len(Tail(pipe[j])) = 0
      BY <1>1, <2>1, <2>2
    <3>2. Tail(pipe[j]) = <<>> BY <3>1, EmptySeq
    <3> QED BY <2>1, <3>2
  <2>4. worker[j] # "working" BY <2>1, <2>2 DEF PipesShaped
  <2>5. Leading(pipe[j]) = SubSeq(pipe[j], 1, 0)
    BY <2>1, <2>2 DEF Leading, Closed
  <2>6. Len(Leading(pipe[j])) = 0 /\ Leading(<<>>) = <<>> /\ Len(<<>>) = 0
    <3>1. Leading(<<>>) = <<>> BY DEF Leading, Closed
    <3> QED BY <1>1, <2>5, <3>1
  <2>7. CountsOn(j, c)' BY <1>5, <1>7, <2>1, <2>3, <2>6 DEF CountsOn
  <2> QED BY Zenon, <1>6, <2>1, <2>3, <2>4, <2>7 DEF Counted
<1>10. CASE GetTimesOut(j)
  <2>1. /\ journal' = journal /\ pipe' = pipe /\ finished' = finished
        /\ worker' = worker
    BY <1>10 DEF GetTimesOut
  <2> QED BY <1>2, <1>3, <1>7, <2>1, CountedKept
<1>11. CASE ResumeEmpty(j)
  <2>1. CASE Alive(j)
    <3>1. TopOfLoop(j, pipe[j], journal[j]) BY <1>11, <2>1 DEF ResumeEmpty
    <3> QED BY <1>1, <1>3, <1>5, <1>6, <1>7, <3>1, TopOfLoopCounted
  <2>2. CASE ~ Alive(j)
    <3>1. /\ journal' = journal /\ pipe' = pipe /\ finished' = finished
          /\ worker' = worker
      BY <1>11, <2>2 DEF ResumeEmpty
    <3> QED BY <1>2, <1>3, <1>7, <3>1, CountedKept
  <2> QED BY <2>1, <2>2
<1> QED BY <1>8, <1>9, <1>10, <1>11 DEF InLoop

\* A record that enters a state.
LEMMA EnterCounted ==
  ASSUME TypeOK, EventsCounted, NEW j \in Jobs, NEW s \in States, Enter(j, s),
         UNCHANGED <<pipe, published, finished>>,
         \A k \in Jobs \ {j} : worker'[k] = worker[k] /\ task'[k] = task[k],
         \/ worker'[j] = worker[j] /\ task'[j] = task[j]
         \/ finished[j] = "none" /\ task[j] # "done"
  PROVE  EventsCounted'
PROOF
<1>1. /\ journal'[j] = Append(journal[j], Event(s))
      /\ \A k \in Jobs \ {j} : journal'[k] = journal[k]
      /\ journal[j] \in Seq(Lines)
  BY DEF Enter, TypeOK, Lines
<1>2. Event(s).kind # "progress" BY DEF Event, States, Terminal
<1>3. Counted(j) BY DEF EventsCounted
<1>4. /\ LoggedNumbers(journal'[j]) = LoggedNumbers(journal[j])
      /\ InOrder(journal'[j])
  BY <1>1, <1>2, <1>3, LineKeepsNumbers DEF Counted
<1>5. PICK c \in Nat : CountsOn(j, c) BY <1>3 DEF Counted
<1>6. CountsOn(j, c)' BY Zenon, <1>4, <1>5 DEF CountsOn
<1>7. finished'[j] # "none" =>
        task'[j] = "joining" /\ worker'[j] # "working" /\ pipe'[j] = <<>>
  BY Zenon, <1>3 DEF Counted
<1>8. Counted(j)' BY Zenon, <1>4, <1>6, <1>7 DEF Counted
<1>9. ASSUME NEW k \in Jobs \ {j}
      PROVE  Counted(k)'
  BY <1>1, CountedKept DEF EventsCounted
<1> QED BY <1>8, <1>9 DEF EventsCounted

\* The worker: an event counts on, and a final message is none of them.
LEMMA PublishCounted ==
  ASSUME TypeOK, PipesShaped, NEW j \in Jobs, Counted(j), Publish(j),
         task[j] \in Suspended
  PROVE  Counted(j)'
PROOF
<1> DEFINE p == pipe[j]
           m == Progress(published[j] + 1)
<1>1. /\ p \in Seq(Messages) /\ published[j] \in Nat /\ worker[j] = "working"
      /\ \A i \in 1 .. Len(p) : ~ IsFinish(p[i])
  BY LimitsAssumption DEF TypeOK, Messages, Publish, PipesShaped
<1>2. /\ pipe'[j] = Append(p, m) /\ published'[j] = published[j] + 1
      /\ journal' = journal /\ finished' = finished /\ task' = task /\ worker' = worker
  BY DEF Publish, TypeOK, recordVars, monitorVars
<1>3. m.number = published[j] + 1 /\ ~ IsFinish(m)
  BY DEF Progress, IsFinish, Finishes, Stopped
<1>4. finished[j] = "none" BY <1>1 DEF Counted
<1>5. PICK c \in Nat : CountsOn(j, c) BY DEF Counted
<1> HIDE DEF p, m
<1>6. /\ Len(Append(p, m)) = Len(p) + 1 /\ Len(p) \in Nat
      /\ Append(p, m)[Len(p) + 1] = m
      /\ \A i \in 1 .. Len(p) : Append(p, m)[i] = p[i]
  BY <1>1
<1>7. ~ Closed(p) /\ ~ Closed(Append(p, m)) BY <1>1, <1>3, <1>6 DEF Closed
<1>8. Leading(p) = p /\ Leading(Append(p, m)) = Append(p, m)
  BY <1>7 DEF Leading
<1>9. /\ published[j] = c + Len(p)
      /\ \A i \in 1 .. Len(p) : p[i].number = c + i
  BY <1>5, <1>8 DEF CountsOn, Suspended, p
<1>10. /\ published'[j] = c + Len(Append(p, m))
       /\ \A i \in 1 .. Len(Append(p, m)) : Append(p, m)[i].number = c + i
  BY <1>2, <1>3, <1>6, <1>9
<1>11. CountsOn(j, c)' BY Zenon, <1>2, <1>5, <1>8, <1>10 DEF CountsOn
<1> QED BY Zenon, <1>2, <1>4, <1>11 DEF Counted

LEMMA FinishCounted ==
  ASSUME TypeOK, PipesShaped, NEW j \in Jobs, Counted(j),
         NEW f \in Endings, Finish(j, f)
  PROVE  Counted(j)'
PROOF
<1> DEFINE p == pipe[j]
           m == Event(f)
<1>1. /\ p \in Seq(Messages) /\ worker[j] = "working"
      /\ \A i \in 1 .. Len(p) : ~ IsFinish(p[i])
  BY DEF TypeOK, Messages, Finish, PipesShaped
<1>2. /\ pipe'[j] = Append(p, m) /\ published' = published
      /\ journal' = journal /\ finished' = finished /\ task' = task
  BY DEF Finish, TypeOK, recordVars, monitorVars
<1>3. m \in Messages /\ IsFinish(m)
  BY LimitsAssumption DEF Messages, FinishMessages, IsFinish, Event
<1>4. finished[j] = "none" BY <1>1 DEF Counted
<1>5. PICK c \in Nat : CountsOn(j, c) BY DEF Counted
<1> HIDE DEF p, m
<1>6. /\ Len(Append(p, m)) = Len(p) + 1 /\ Len(p) \in Nat
      /\ Append(p, m)[Len(p) + 1] = m /\ Append(p, m) # <<>>
      /\ SubSeq(Append(p, m), 1, Len(p)) = p
      /\ \A i \in 1 .. Len(p) : Append(p, m)[i] = p[i]
  BY <1>1, <1>3
<1>7. ~ Closed(p) /\ Closed(Append(p, m)) BY <1>1, <1>3, <1>6 DEF Closed
<1>8. Leading(p) = p BY <1>7 DEF Leading
<1>9. Leading(Append(p, m)) = SubSeq(Append(p, m), 1, Len(Append(p, m)) - 1)
  BY <1>7 DEF Leading
<1>10. Leading(Append(p, m)) = p BY <1>6, <1>9
<1>11. CountsOn(j, c)' BY Zenon, <1>2, <1>5, <1>6, <1>8, <1>10 DEF CountsOn, p
<1> QED BY Zenon, <1>2, <1>4, <1>11 DEF Counted

\* The end of the monitor: the queue is gone, the journal gets its last line.
LEMMA ConcludeCounted ==
  ASSUME TypeOK, EventsCounted, NEW j \in Jobs, Conclude(j)
  PROVE  EventsCounted'
PROOF
<1>1. Finalize(j, OutcomeState(j), OutcomeResult(j), OutcomeError(j))
  BY DEF Conclude
<1>2. /\ journal'[j] \in {journal[j], Append(journal[j], Event(OutcomeState(j)))}
      /\ \A k \in Jobs \ {j} : journal'[k] = journal[k]
  BY <1>1 DEF Finalize, Enter, recordVars, TypeOK
<1>3. /\ task'[j] = "done" /\ finished'[j] = "none"
      /\ \A k \in Jobs \ {j} : /\ task'[k] = task[k] /\ finished'[k] = finished[k]
                               /\ pipe'[k] = pipe[k] /\ published'[k] = published[k]
                               /\ worker'[k] = worker[k]
  BY DEF Conclude, TypeOK
<1>4. journal[j] \in Seq(Lines) BY DEF TypeOK, Lines
<1>5. Event(OutcomeState(j)).kind # "progress"
  BY OutcomeTyped DEF Event, Terminal
<1>6. Counted(j) BY DEF EventsCounted
<1>7. /\ LoggedNumbers(journal'[j]) = LoggedNumbers(journal[j])
      /\ InOrder(journal'[j])
  BY <1>2, <1>4, <1>5, <1>6, LineKeepsNumbers DEF Counted
<1>8. PICK c \in Nat : CountsOn(j, c) BY <1>6 DEF Counted
<1>9. CountsOn(j, c)' BY Zenon, <1>3, <1>7, <1>8 DEF CountsOn
<1>10. Counted(j)' BY Zenon, <1>3, <1>7, <1>9 DEF Counted
<1>11. ASSUME NEW k \in Jobs \ {j}
       PROVE  Counted(k)'
  BY <1>2, <1>3, CountedKept DEF EventsCounted
<1> QED BY <1>10, <1>11 DEF EventsCounted

\* Every step keeps the count.
LEMMA CountedStep ==
  ASSUME IInv, EventsCounted, [Next]_vars
  PROVE  EventsCounted'
PROOF
<1>1. TypeOK /\ TasksMatch /\ WaitersOnce /\ PipesShaped BY DEF IInv
<1>2. \A k \in Jobs : Counted(k) BY DEF EventsCounted
<1>3. ASSUME UNCHANGED <<journal, pipe, published, finished>>,
             \A k \in Jobs : worker'[k] = "working" => worker[k] = "working",
             task' = task
      PROVE  EventsCounted'
  BY <1>2, <1>3, CountedKept DEF EventsCounted
<1>4. ASSUME NEW j \in Jobs, Create(j)
      PROVE  EventsCounted'
  <2>1. Enter(j, "queued") /\ "queued" \in States BY <1>4 DEF Create, States
  <2>2. task[j] = "none" BY <1>1, <1>4 DEF Create, TasksMatch
  <2>3. finished[j] = "none" BY <1>2, <2>2 DEF Counted
  <2>4. /\ UNCHANGED <<pipe, published, finished>> /\ worker' = worker
        /\ \A k \in Jobs \ {j} : task'[k] = task[k]
    BY <1>1, <1>4 DEF Create, workerVars, TypeOK
  <2> QED BY <1>1, <2>1, <2>2, <2>3, <2>4, EnterCounted
<1>5. ASSUME NEW j \in Jobs, StartWorker(j)
      PROVE  EventsCounted'
  <2>1. Enter(j, "running") /\ "running" \in States BY <1>5 DEF StartWorker, States
  <2>2. task[j] = "waiting" BY <1>1, <1>5, AcquireWaiting DEF StartWorker
  <2>3. finished[j] = "none" BY <1>2, <2>2 DEF Counted
  <2>4. /\ UNCHANGED <<pipe, published, finished>>
        /\ \A k \in Jobs \ {j} : worker'[k] = worker[k] /\ task'[k] = task[k]
    BY <1>1, <1>5 DEF StartWorker, TypeOK
  <2> QED BY <1>1, <2>1, <2>2, <2>3, <2>4, EnterCounted
<1>6. ASSUME NEW j \in Jobs, CancelRunning(j) \/ CancelQueued(j)
      PROVE  EventsCounted'
  <2>1. \/ Enter(j, "cancellation_requested") \/ Enter(j, "cancelled")
    BY <1>6 DEF CancelRunning, CancelQueued, Finalize, Terminal
  <2>2. "cancellation_requested" \in States /\ "cancelled" \in States
    BY DEF States, Terminal
  <2>3. UNCHANGED <<pipe, published, finished, worker, task>>
    BY <1>6 DEF CancelRunning, CancelQueued, monitorVars, workerVars
  <2> QED BY <1>1, <2>1, <2>2, <2>3, EnterCounted
<1>7. ASSUME NEW j \in Jobs, SkipCancelled(j)
      PROVE  EventsCounted'
  <2>1. task[j] = "waiting" BY <1>1, <1>7, AcquireWaiting DEF SkipCancelled
  <2>2. finished[j] = "none" BY <1>2, <2>1 DEF Counted
  <2>3. /\ UNCHANGED <<journal, pipe, published, finished, worker>>
        /\ \A k \in Jobs \ {j} : task'[k] = task[k]
    BY <1>1, <1>7 DEF SkipCancelled, recordVars, workerVars, TypeOK
  <2> QED BY <1>2, <2>1, <2>2, <2>3, CountedKept DEF EventsCounted
<1>8. ASSUME NEW j \in Jobs, InLoop(j)
      PROVE  EventsCounted'
  <2>1. ASSUME NEW k \in Jobs \ {j}
        PROVE  Counted(k)'
    <3>1. /\ UNCHANGED loopFrame /\ pipe'[k] = pipe[k] /\ journal'[k] = journal[k]
      BY <1>1, <1>8, LoopStep DEF InLoop
    <3>2. PICK t \in Suspended : task' = [task EXCEPT ![j] = t]
      BY <1>1, <1>8, LoopStep DEF InLoop
    <3>3. worker' \in {worker, [worker EXCEPT ![j] = "exited"]}
      BY <1>1, <1>8, LoopStep DEF InLoop
    <3>4. task'[k] = task[k] /\ worker'[k] = worker[k] BY <1>1, <3>2, <3>3 DEF TypeOK
    <3>5. ASSUME NEW p, NEW l, TopOfLoop(j, p, l)
          PROVE  finished'[k] = finished[k]
      BY <1>1, <3>5 DEF TopOfLoop, TypeOK
    <3>6. finished'[k] = finished[k]
      BY <1>1, <1>8, <3>5
         DEF InLoop, ReceiveProgress, ReceiveFinished, GetTimesOut, ResumeEmpty,
             TypeOK
    <3> QED BY <1>2, <3>1, <3>4, <3>6, CountedKept DEF loopFrame
  <2> QED BY <1>1, <1>2, <1>8, <2>1, LoopCounted DEF EventsCounted
<1>9. ASSUME NEW j \in Jobs, Publish(j) \/ \E f \in Endings : Finish(j, f)
      PROVE  EventsCounted'
  <2>1. task[j] \in Suspended
    BY <1>1, <1>9 DEF Publish, Finish, TasksMatch, Alive
  <2>2. Counted(j)' BY <1>1, <1>2, <1>9, <2>1, PublishCounted, FinishCounted
  <2>3. ASSUME NEW k \in Jobs \ {j}
        PROVE  Counted(k)'
    <3>1. /\ journal' = journal /\ pipe'[k] = pipe[k] /\ task' = task
          /\ published'[k] = published[k] /\ finished' = finished
          /\ worker'[k] = worker[k]
      BY <1>1, <1>9 DEF Publish, Finish, recordVars, monitorVars, TypeOK
    <3> QED BY <1>2, <3>1, CountedKept
  <2> QED BY <2>2, <2>3 DEF EventsCounted
<1>10. CASE Lookup \/ Shutdown \/ ShutdownReturns \/ UNCHANGED vars
  <2>1. UNCHANGED <<journal, pipe, published, finished, worker, task>>
    BY <1>10 DEF Lookup, Shutdown, ShutdownReturns, vars, recordVars,
                 monitorVars, workerVars
  <2> QED BY <1>3, <2>1
<1>11. ASSUME NEW j \in Jobs, \/ JoinTimesOut(j)   \/ Exit(j)
                              \/ DeadlinePasses(j) \/ GracePasses(j)
       PROVE  EventsCounted'
  <2>1. /\ UNCHANGED <<journal, pipe, published, finished, task>>
        /\ worker' \in {worker, [worker EXCEPT ![j] = "exited"]}
    BY <1>11 DEF JoinTimesOut, Exit, DeadlinePasses, GracePasses, recordVars,
                 monitorVars, workerVars
  <2>2. \A k \in Jobs : worker'[k] = "working" => worker[k] = "working"
    BY <1>1, <2>1 DEF TypeOK
  <2> QED BY <1>3, <2>1, <2>2
<1> QED BY <1>1, <1>4, <1>5, <1>6, <1>7, <1>8, <1>9, <1>10, <1>11, ConcludeCounted
        DEF Next, DispatchStep, InLoop

\* The worker's events reach the journal in order, once each, without a gap
\* and, when its final message was read, completely.
THEOREM EventsInOrder == Spec => []WorkerEventsInOrder
PROOF
<1>1. ASSUME Init
      PROVE  EventsCounted
  <2>1. LoggedNumbers(<<>>) = 1 .. 0 /\ InOrder(<<>>)
    BY DEF LoggedNumbers, Logged, InOrder
  <2>2. Leading(<<>>) = <<>> /\ Len(<<>>) = 0 BY DEF Leading, Closed
  <2>3. \A j \in Jobs : CountsOn(j, 0) BY <1>1, <2>1, <2>2 DEF Init, CountsOn
  <2>4. 0 \in Nat OBVIOUS
  <2> QED BY Zenon, <1>1, <2>1, <2>3, <2>4 DEF Init, EventsCounted, Counted
<1>2. IInv /\ EventsCounted /\ [Next]_vars => EventsCounted' BY CountedStep
<1>3. ASSUME EventsCounted
      PROVE  WorkerEventsInOrder
  <2> SUFFICES ASSUME NEW j \in Jobs
               PROVE  /\ InOrder(journal[j])
                      /\ \A n \in LoggedNumbers(journal[j]) :
                           1 .. n \subseteq LoggedNumbers(journal[j])
                      /\ finished[j] # "none" =>
                           LoggedNumbers(journal[j]) = 1 .. published[j]
    BY DEF WorkerEventsInOrder
  <2>1. Counted(j) BY <1>3 DEF EventsCounted
  <2>2. PICK c \in Nat : CountsOn(j, c) BY <2>1 DEF Counted
  <2>3. LoggedNumbers(journal[j]) = 1 .. c BY <2>2 DEF CountsOn
  <2>4. ASSUME finished[j] # "none"
        PROVE  published[j] = c
    <3>1. task[j] = "joining" /\ pipe[j] = <<>> BY <2>1, <2>4 DEF Counted
    <3>2. Leading(<<>>) = <<>> /\ Len(<<>>) = 0 BY DEF Leading, Closed
    <3> QED BY <2>2, <3>1, <3>2 DEF CountsOn
  <2>5. \A n \in 1 .. c : 1 .. n \subseteq 1 .. c OBVIOUS
  <2> QED BY <2>1, <2>3, <2>4, <2>5 DEF Counted
<1> QED BY <1>1, <1>2, <1>3, Invariance, PTL DEF Spec


-----------------------------------------------------------------------------
(* The manager implements JobLifecycle *)

\* The jobs queued before j.
Line(j) == {k \in Jobs : /\ state[k] = "queued" /\ state[j] = "queued"
                         /\ Before(k, j)}

Ahead == [j \in Jobs |-> Line(j)]

\* The instance brings a Cardinality of its own.
LEMMA SameCardinality == ASSUME NEW S PROVE Lifecycle!Cardinality(S) = Cardinality(S)
PROOF BY Zenon DEF Lifecycle!Cardinality, Cardinality

\* Steps that neither queue nor start a job, nor move the semaphore.
LEMMA LineSame ==
  ASSUME UNCHANGED waiters,
         \A j \in Jobs : state[j] = "queued" <=> state'[j] = "queued"
  PROVE  Ahead' = Ahead
PROOF
<1>1. ASSUME NEW j \in Jobs
      PROVE  Line(j)' = Line(j)
  BY DEF Line, Before
<1> QED BY <1>1 DEF Ahead

LEMMA SubmitImplemented ==
  ASSUME IInv, Admitted, WaitersComplete, NEW j \in Jobs, Create(j)
  PROVE  Lifecycle!Submit(j)
PROOF
<1>1. TypeOK /\ TasksMatch /\ WaitersOnce /\ waiters \in Seq(Jobs)
  BY DEF IInv, TypeOK
<1>2. state[j] = "absent" /\ state' = [state EXCEPT ![j] = "queued"]
  BY DEF Create, Enter
<1>3. \A k \in Jobs : state'[k] = IF k = j THEN "queued" ELSE state[k]
  BY <1>1, <1>2 DEF TypeOK
<1>4. /\ Len(waiters') = Len(waiters) + 1 /\ Len(waiters) \in Nat
      /\ waiters'[Len(waiters) + 1] = j
      /\ \A a \in 1 .. Len(waiters) : waiters'[a] = waiters[a]
  BY <1>1 DEF Create
<1>5. \A a \in 1 .. Len(waiters) : waiters[a] # j
  BY <1>1, <1>2 DEF WaitersOnce, TasksMatch
<1>6. Lifecycle!Cardinality(Lifecycle!Queued \cup Lifecycle!Busy) < MaxConcurrent + MaxQueued
  <2>1. Lifecycle!Queued \cup Lifecycle!Busy = Live
    BY <1>1 DEF Lifecycle!Queued, Lifecycle!Busy, Lifecycle!Running, Live, TypeOK,
                States, Terminal
  <2>2. Active = Live BY <1>1 DEF Active, Live, Admitted, TypeOK
  <2>3. Cardinality(Live) \in Nat BY FS_CardinalityType DEF Admitted
  <2>4. ~ Cardinality(Active) >= MaxConcurrent + MaxQueued BY DEF Create, Full
  <2>5. Cardinality(Live) < MaxConcurrent + MaxQueued
    BY <2>2, <2>3, <2>4, LimitsAssumption
  <2> QED BY <2>1, <2>5, SameCardinality
<1>7. Line(j)' = Lifecycle!Queued
  <2>1. ASSUME NEW k \in Jobs, state[k] = "queued"
        PROVE  Before(k, j)'
    <3>1. PICK a \in 1 .. Len(waiters) : waiters[a] = k
      BY <1>1, <2>1 DEF TasksMatch, WaitersComplete
    <3>2. a < Len(waiters) + 1 BY <1>4
    <3> QED BY <1>4, <3>1, <3>2 DEF Before
  <2>2. ~ Before(j, j)'
    BY <1>4, <1>5 DEF Before
  <2> QED BY <1>2, <1>3, <2>1, <2>2 DEF Line, Lifecycle!Queued
<1>8. ASSUME NEW k \in Jobs, k # j
      PROVE  Line(k)' = Line(k)
  <2>1. ~ Before(j, k)' BY <1>4, <1>5, <1>8 DEF Before
  <2>2. \A i \in Jobs \ {j} : Before(i, k)' <=> Before(i, k)
    BY <1>4, <1>8 DEF Before
  <2> QED BY <1>2, <1>3, <1>8, <2>1, <2>2 DEF Line
<1>9. Ahead' = [Ahead EXCEPT ![j] = Lifecycle!Queued]
  BY <1>7, <1>8 DEF Ahead
<1> QED BY <1>2, <1>6, <1>9 DEF Lifecycle!Submit, Lifecycle!Move, Ahead, Line

\* The semaphore moves on: what was first stands before nobody.
LEMMA LineMoves ==
  ASSUME IInv, NEW j \in Jobs, Acquire(j)
  PROVE  /\ Line(j) = {}
         /\ \A i, k \in Jobs \ {j} : Before(i, k)' <=> Before(i, k)
PROOF
<1>1. TypeOK /\ WaitersOnce /\ waiters \in Seq(Jobs) BY DEF IInv, TypeOK
<1>2. waiters # <<>> /\ j = Head(waiters) /\ waiters' = Tail(waiters)
  BY DEF Acquire
<1>3. /\ Len(waiters') = Len(waiters) - 1 /\ Len(waiters) \in Nat
      /\ j = waiters[1] /\ 1 \in 1 .. Len(waiters)
      /\ \A a \in 1 .. Len(waiters') : waiters'[a] = waiters[a + 1]
  BY <1>1, <1>2
<1>4. Line(j) = {}
  <2>1. \A b \in 1 .. Len(waiters) : waiters[b] = j => b = 1
    BY <1>1, <1>3 DEF WaitersOnce
  <2> QED BY <1>3, <2>1 DEF Line, Before
<1>5. ASSUME NEW i \in Jobs \ {j}, NEW k \in Jobs \ {j}, Before(i, k)
      PROVE  Before(i, k)'
  <2>1. PICK a, b \in 1 .. Len(waiters) : a < b /\ waiters[a] = i /\ waiters[b] = k
    BY <1>5 DEF Before
  <2>2. a # 1 BY <1>3, <2>1
  <2>3. /\ a - 1 \in 1 .. Len(waiters') /\ b - 1 \in 1 .. Len(waiters')
        /\ a - 1 < b - 1
        /\ waiters'[a - 1] = waiters[(a - 1) + 1]
        /\ waiters'[b - 1] = waiters[(b - 1) + 1]
    BY <1>3, <2>1, <2>2
  <2> QED BY <2>1, <2>3 DEF Before
<1>6. ASSUME NEW i \in Jobs \ {j}, NEW k \in Jobs \ {j}, Before(i, k)'
      PROVE  Before(i, k)
  <2>1. PICK a, b \in 1 .. Len(waiters') : a < b /\ waiters'[a] = i /\ waiters'[b] = k
    BY <1>6 DEF Before
  <2>2. /\ a + 1 \in 1 .. Len(waiters) /\ b + 1 \in 1 .. Len(waiters)
        /\ a + 1 < b + 1
        /\ waiters[a + 1] = i /\ waiters[b + 1] = k
    BY <1>3, <2>1
  <2> QED BY <2>2 DEF Before
<1> QED BY <1>4, <1>5, <1>6

LEMMA BeginImplemented ==
  ASSUME IInv, NEW j \in Jobs, StartWorker(j)
  PROVE  Lifecycle!Begin(j)
PROOF
<1>1. TypeOK /\ TasksMatch /\ WaitersOnce BY DEF IInv
<1>2. Acquire(j) /\ state[j] \notin Terminal /\ state' = [state EXCEPT ![j] = "running"]
  BY DEF StartWorker, Enter
<1>3. \A k \in Jobs : state'[k] = IF k = j THEN "running" ELSE state[k]
  BY <1>1, <1>2 DEF TypeOK
<1>4. state[j] = "queued"
  <2>1. task[j] = "waiting" BY <1>1, <1>2, AcquireWaiting
  <2> QED BY <1>1, <1>2, <2>1 DEF TasksMatch, TypeOK, States, Suspended
<1>5. Lifecycle!Cardinality(Lifecycle!Busy) < MaxConcurrent
  <2>1. Lifecycle!Busy = Monitored
    BY <1>1 DEF TasksMatch, Lifecycle!Busy, Lifecycle!Running, Monitored
  <2> QED BY <1>2, <2>1, SameCardinality DEF Acquire, FreeSlot
<1>6. Ahead' = [k \in Jobs |-> IF k = j THEN {} ELSE Ahead[k] \ {j}]
  <2>1. Line(j)' = {} BY <1>3 DEF Line
  <2>2. ASSUME NEW k \in Jobs, k # j
        PROVE  Line(k)' = Line(k) \ {j}
    BY <1>2, <1>3, <2>2, LineMoves DEF Line
  <2> QED BY <2>1, <2>2 DEF Ahead
<1>7. Ahead[j] = {} BY <1>2, LineMoves DEF Ahead
<1> QED BY <1>2, <1>4, <1>5, <1>6, <1>7
        DEF Lifecycle!Begin, Lifecycle!Move, Lifecycle!LeaveLine, Ahead, Line

LEMMA WithdrawImplemented ==
  ASSUME IInv, NEW j \in Jobs, CancelQueued(j)
  PROVE  Lifecycle!Withdraw(j)
PROOF
<1>1. TypeOK BY DEF IInv
<1>2. state[j] = "queued" /\ state' = [state EXCEPT ![j] = "cancelled"] /\ waiters' = waiters
  BY DEF CancelQueued, Finalize, Enter, Terminal
<1>3. \A k \in Jobs : state'[k] = IF k = j THEN "cancelled" ELSE state[k]
  BY <1>1, <1>2 DEF TypeOK
<1>4. Ahead' = [k \in Jobs |-> IF k = j THEN {} ELSE Ahead[k] \ {j}]
  <2>1. \A i, k \in Jobs : Before(i, k)' <=> Before(i, k) BY <1>2 DEF Before
  <2>2. Line(j)' = {} BY <1>3 DEF Line
  <2>3. ASSUME NEW k \in Jobs, k # j
        PROVE  Line(k)' = Line(k) \ {j}
    BY <1>3, <2>1, <2>3 DEF Line
  <2> QED BY <2>2, <2>3 DEF Ahead
<1> QED BY <1>2, <1>4
        DEF Lifecycle!Withdraw, Lifecycle!Move, Lifecycle!LeaveLine, Ahead, Line

LEMMA RequestCancelImplemented ==
  ASSUME IInv, NEW j \in Jobs, CancelRunning(j)
  PROVE  Lifecycle!RequestCancel(j)
PROOF
<1>1. TypeOK BY DEF IInv
<1>2. /\ state[j] = "running"
      /\ state' = [state EXCEPT ![j] = "cancellation_requested"]
      /\ UNCHANGED waiters
  BY DEF CancelRunning, Enter
<1>3. Ahead' = Ahead BY <1>1, <1>2, LineSame DEF TypeOK
<1> QED BY <1>2, <1>3 DEF Lifecycle!RequestCancel, Lifecycle!Move, Ahead, Line

LEMMA FinishImplemented ==
  ASSUME IInv, NEW j \in Jobs, Conclude(j)
  PROVE  Lifecycle!Finish(j)
PROOF
<1>1. TypeOK /\ TasksMatch BY DEF IInv
<1>2. state[j] \in {"running", "cancellation_requested"}
  BY <1>1 DEF Conclude, Suspended, TasksMatch
<1>3. state' = [state EXCEPT ![j] = OutcomeState(j)] /\ UNCHANGED waiters
  BY <1>2 DEF Conclude, Finalize, Enter, Terminal
<1>4. OutcomeState(j) \in Terminal BY <1>1, OutcomeTyped
<1>5. Ahead' = Ahead BY <1>1, <1>2, <1>3, <1>4, LineSame DEF TypeOK, Terminal
<1> QED BY <1>2, <1>3, <1>4, <1>5
        DEF Lifecycle!Finish, Lifecycle!Move, Lifecycle!Running, Lifecycle!Finished,
            Terminal, Ahead, Line

\* Every step of the manager is a step of the lifecycle or leaves it alone.
LEMMA StepImplemented ==
  ASSUME IInv, Admitted, WaitersComplete, [Next]_vars
  PROVE  [Lifecycle!Next]_Lifecycle!vars
PROOF
<1>1. TypeOK BY DEF IInv
<1>2. ASSUME state' = state, Ahead' = Ahead
      PROVE  UNCHANGED Lifecycle!vars
  BY <1>2 DEF Lifecycle!vars, Ahead, Line
<1>3. ASSUME state' = state, waiters' = waiters
      PROVE  UNCHANGED Lifecycle!vars
  BY <1>2, <1>3, LineSame
<1>4. ASSUME NEW j \in Jobs, SkipCancelled(j)
      PROVE  UNCHANGED Lifecycle!vars
  <2>1. Acquire(j) /\ state[j] \in Terminal /\ state' = state
    BY <1>4 DEF SkipCancelled, recordVars
  <2>2. ASSUME NEW k \in Jobs
        PROVE  Line(k)' = Line(k)
    BY <2>1, LineMoves DEF Line, Terminal
  <2> QED BY <1>2, <2>1, <2>2 DEF Ahead
<1>5. ASSUME NEW j \in Jobs, InLoop(j)
      PROVE  UNCHANGED Lifecycle!vars
  BY <1>1, <1>3, <1>5, LoopStep DEF InLoop, loopFrame
<1>6. CASE Lookup \/ Shutdown \/ ShutdownReturns \/ UNCHANGED vars
  BY <1>3, <1>6 DEF Lookup, Shutdown, ShutdownReturns, vars, recordVars
<1>7. ASSUME NEW j \in Jobs,
             \/ JoinTimesOut(j)   \/ Publish(j)     \/ Exit(j)
             \/ DeadlinePasses(j) \/ GracePasses(j)
             \/ \E f \in Endings : Finish(j, f)
      PROVE  UNCHANGED Lifecycle!vars
  BY <1>3, <1>7 DEF JoinTimesOut, Publish, Exit, DeadlinePasses, GracePasses,
                    Finish, recordVars
<1>8. ASSUME NEW j \in Jobs,
             \/ Create(j) \/ CancelQueued(j) \/ CancelRunning(j)
             \/ StartWorker(j) \/ Conclude(j)
      PROVE  Lifecycle!Next
  BY <1>8, SubmitImplemented, WithdrawImplemented, RequestCancelImplemented,
     BeginImplemented, FinishImplemented DEF Lifecycle!Next
<1> QED BY <1>4, <1>5, <1>6, <1>7, <1>8 DEF Next, DispatchStep, InLoop

\* The manager implements the lifecycle promised to clients, without its
\* fairness: bounded admission, start in the order of admission, at most
\* MaxConcurrent running, one end of each job.
THEOREM Refinement == Spec => Lifecycle!Init /\ [][Lifecycle!Next]_Lifecycle!vars
PROOF
<1>1. Init => Lifecycle!Init
  <2>1. ASSUME Init
        PROVE  Ahead = [j \in Jobs |-> {}]
    <3>1. \A j \in Jobs : Line(j) = {} BY <2>1 DEF Init, Line
    <3> QED BY <3>1 DEF Ahead
  <2> QED BY <2>1 DEF Init, Lifecycle!Init, Ahead, Line
<1>2. Init => Admitted /\ WaitersComplete
  <2>1. ASSUME Init
        PROVE  Admitted
    <3>1. Live = {} /\ known = {} BY <2>1 DEF Init, Live
    <3> QED BY <3>1, FS_EmptySet, LimitsAssumption DEF Admitted
  <2> QED BY <2>1 DEF Init, WaitersComplete
<1>3. IInv /\ Admitted /\ [Next]_vars => Admitted' BY AdmittedStep
<1>4. IInv /\ WaitersComplete /\ [Next]_vars => WaitersComplete'
  BY WaitersCompleteStep
<1>5. IInv /\ Admitted /\ WaitersComplete /\ [Next]_vars
        => [Lifecycle!Next]_Lifecycle!vars
  BY StepImplemented
<1> QED BY <1>1, <1>2, <1>3, <1>4, <1>5, Invariance, PTL DEF Spec

-----------------------------------------------------------------------------
(* How far a job is from its end *)

\* The stages of a dispatch task that is suspended at t, with grace period g,
\* its deadline over or not and its worker alive or not.  In the message loop
\* they are the deadline running (6), the deadline over, the grace period
\* running (4), and over; then the process is joined, first while it is alive.
StageAt(t, g, over, alive) ==
  CASE t = "none"    -> 8
    [] t = "waiting" -> 7
    [] t \in {"getting", "empty"} /\ g = "unset" -> IF over THEN 5 ELSE 6
    [] t \in {"getting", "empty"} /\ g # "unset" -> IF g = "passed" THEN 3 ELSE 4
    [] t = "joining" -> IF alive THEN 2 ELSE 1
    [] OTHER -> 0

Stage(j) == StageAt(task[j], grace[j], deadline[j], Alive(j))

InMessageLoop == {"getting", "empty"}

LEMMA Stages ==
  ASSUME NEW g, NEW over, NEW alive
  PROVE  /\ StageAt("none", g, over, alive) = 8
         /\ StageAt("waiting", g, over, alive) = 7
         /\ \A t \in InMessageLoop :
              /\ g = "unset" => StageAt(t, g, over, alive) = IF over THEN 5 ELSE 6
              /\ g = "passed" => StageAt(t, g, over, alive) = 3
              /\ g \notin {"unset", "passed"} => StageAt(t, g, over, alive) = 4
         /\ StageAt("joining", g, over, alive) = IF alive THEN 2 ELSE 1
         /\ StageAt("done", g, over, alive) = 0
PROOF BY DEF StageAt, InMessageLoop

LEMMA StagesInLoop ==
  ASSUME NEW t \in InMessageLoop, NEW over, NEW alive
  PROVE  /\ over => StageAt(t, "unset", over, alive) = 5
         /\ ~ over => StageAt(t, "unset", over, alive) = 6
         /\ StageAt(t, "armed", over, alive) = 4
         /\ StageAt(t, "passed", over, alive) = 3
PROOF BY DEF StageAt, InMessageLoop

LEMMA StagesJoining ==
  ASSUME NEW g, NEW over, NEW alive
  PROVE  /\ alive => StageAt("joining", g, over, alive) = 2
         /\ ~ alive => StageAt("joining", g, over, alive) = 1
PROOF BY DEF StageAt

\* A stop is forced exactly when its grace period was started, and the clocks
\* of a task that is not in its loop yet, or no more, are unset.
Clocked(j) ==
  /\ forced[j] = "none" <=> grace[j] = "unset"
  /\ task[j] \notin Suspended => forced[j] = "none" /\ ~ deadline[j]

ClocksFit == \A j \in Jobs : Clocked(j)

LEMMA ClockedKept ==
  ASSUME NEW j \in Jobs, Clocked(j), forced'[j] = forced[j], grace'[j] = grace[j],
         deadline'[j] = deadline[j],
         task[j] \in Suspended => task'[j] \in Suspended
  PROVE  Clocked(j)'
PROOF BY DEF Clocked

\* A pass of the message loop.
LEMMA PassClocked ==
  ASSUME TypeOK, NEW j \in Jobs, task[j] \in InMessageLoop, Clocked(j),
         NEW p, NEW l, TopOfLoop(j, p, l)
  PROVE  /\ task'[j] \in Suspended
         /\ forced'[j] = "none" <=> grace'[j] = "unset"
         /\ \A k \in Jobs \ {j} : /\ task'[k] = task[k] /\ worker'[k] = worker[k]
                                  /\ forced'[k] = forced[k] /\ grace'[k] = grace[k]
PROOF
<1>1. /\ forced' = [forced EXCEPT ![j] = Forced(j)]
      /\ grace' = [grace EXCEPT ![j] = IF Forced(j) # forced[j] THEN "armed" ELSE @]
  BY DEF TopOfLoop
<1>2. /\ \E t \in Suspended : task' = [task EXCEPT ![j] = t]
      /\ worker' \in {worker, [worker EXCEPT ![j] = "exited"]}
  BY DEF TopOfLoop, Suspended
<1>3. forced[j] # "none" => Forced(j) = forced[j]
  BY DEF Forced
<1> QED
  BY <1>1, <1>2, <1>3 DEF Clocked, TypeOK

\* The tests at the top of the loop arm the grace period when they force a stop.
LEMMA ForcedArms ==
  ASSUME TypeOK, NEW j \in Jobs, Clocked(j)
  PROVE  /\ forced[j] # "none" => Forced(j) = forced[j]
         /\ forced[j] = "none" /\ deadline[j] => Forced(j) # forced[j]
PROOF BY DEF Forced

\* A pass never goes back, and one that finds a clock expired moves on.
LEMMA PassAdvances ==
  ASSUME TypeOK, NEW j \in Jobs, task[j] \in InMessageLoop, Clocked(j),
         NEW p, NEW l, TopOfLoop(j, p, l), UNCHANGED deadline
  PROVE  /\ Stage(j)' <= Stage(j)
         /\ Stage(j) \in {3, 5} => Stage(j)' < Stage(j)
PROOF
<1>1. grace'[j] = IF Forced(j) # forced[j] THEN "armed" ELSE grace[j]
  BY DEF TopOfLoop, TypeOK
<1>2. grace[j] \in {"unset", "armed", "passed"} /\ deadline[j] \in BOOLEAN
  BY DEF TypeOK
<1>3. /\ grace[j] = "passed" => Stage(j) = 3
      /\ grace[j] = "armed" => Stage(j) = 4
      /\ grace[j] = "unset" => Stage(j) = IF deadline[j] THEN 5 ELSE 6
  BY <1>2, StagesInLoop DEF Stage
<1>4. CASE task'[j] = "joining"
  <2>1. Stage(j)' \in {1, 2}
    BY <1>4, Stages DEF Stage
  <2> QED
    BY <1>2, <1>3, <2>1
<1>5. CASE task'[j] = "getting" /\ grace[j] # "passed"
  <2>1. CASE grace[j] = "armed"
    <3>1. grace'[j] = "armed"
      BY <1>1, <2>1
    <3>2. Stage(j)' = 4
      BY <1>5, <3>1, Stages DEF Stage, InMessageLoop
    <3> QED
      BY <1>3, <2>1, <3>2
  <2>2. CASE grace[j] = "unset" /\ deadline[j]
    <3>1. grace'[j] = "armed"
      BY <1>1, <2>2, ForcedArms DEF Clocked
    <3>2. Stage(j)' = 4
      BY <1>5, <3>1, Stages DEF Stage, InMessageLoop
    <3> QED
      BY <1>3, <2>2, <3>2
  <2>3. CASE grace[j] = "unset" /\ ~ deadline[j]
    <3>1. grace'[j] \in {"unset", "armed"} /\ ~ deadline'[j]
      BY <1>1, <2>3
    <3>2. Stage(j)' \in {4, 6}
      BY <1>5, <3>1, Stages DEF Stage, InMessageLoop
    <3> QED
      BY <1>3, <2>3, <3>2
  <2> QED
    BY <1>2, <1>5, <2>1, <2>2, <2>3
<1> QED
  BY <1>4, <1>5 DEF TopOfLoop, TypeOK

\* What the steps of the loop do to the clocks and to the stage.
LEMMA LoopAdvances ==
  ASSUME TypeOK, ClocksFit, NEW j \in Jobs, InLoop(j)
  PROVE  /\ Clocked(j)'
         /\ Stage(j)' <= Stage(j)
         /\ Stage(j) \notin {4, 6} /\ ~ GetTimesOut(j) => Stage(j)' < Stage(j)
         /\ \A k \in Jobs \ {j} : Stage(k)' = Stage(k) /\ (Clocked(k) => Clocked(k)')
PROOF
<1>1. UNCHANGED deadline /\ task[j] \in InMessageLoop
  BY DEF InLoop, ReceiveProgress, ReceiveFinished, GetTimesOut, ResumeEmpty, loopFrame,
         InMessageLoop
<1>2. /\ Clocked(j)
      /\ grace[j] \in {"unset", "armed", "passed"} /\ deadline[j] \in BOOLEAN
      /\ worker[j] \in {"none", "working", "finished", "exited"}
  BY DEF ClocksFit, TypeOK
<1>3. Stage(j) \in {3, 4, 5, 6}
  <2>1. CASE grace[j] = "unset"
    BY <1>1, <1>2, <2>1, StagesInLoop DEF Stage
  <2>2. CASE grace[j] \in {"armed", "passed"}
    BY <1>1, <2>2, StagesInLoop DEF Stage
  <2> QED
    BY <1>2, <2>1, <2>2
<1>4. ASSUME NEW k \in Jobs, task'[k] = task[k], worker'[k] = worker[k],
             forced'[k] = forced[k], grace'[k] = grace[k]
      PROVE  Stage(k)' = Stage(k) /\ (Clocked(k) => Clocked(k)')
  BY <1>1, <1>4, ClockedKept DEF Stage, Alive
<1>5. ASSUME NEW p, NEW l, TopOfLoop(j, p, l)
      PROVE  /\ Clocked(j)'
             /\ Stage(j)' <= Stage(j)
             /\ Stage(j) \in {3, 5} => Stage(j)' < Stage(j)
             /\ \A k \in Jobs \ {j} : Stage(k)' = Stage(k) /\ (Clocked(k) => Clocked(k)')
  <2>1. Clocked(j)'
    BY <1>1, <1>2, <1>5, PassClocked DEF Clocked
  <2>2. /\ Stage(j)' <= Stage(j)
        /\ Stage(j) \in {3, 5} => Stage(j)' < Stage(j)
    BY <1>1, <1>2, <1>5, PassAdvances
  <2>3. ASSUME NEW k \in Jobs \ {j}
        PROVE  Stage(k)' = Stage(k) /\ (Clocked(k) => Clocked(k)')
    BY <1>1, <1>2, <1>4, <1>5, PassClocked
  <2> QED
    BY <2>1, <2>2, <2>3
<1>6. CASE /\ task' = [task EXCEPT ![j] = "joining"] \/ task' = [task EXCEPT ![j] = "empty"]
           /\ UNCHANGED <<forced, grace, worker>>
  <2>1. task'[j] \in {"joining", "empty"} /\ \A k \in Jobs \ {j} : task'[k] = task[k]
    BY <1>6 DEF TypeOK
  <2>2. Clocked(j)'
    BY <1>1, <1>2, <1>6, <2>1 DEF Clocked, Suspended
  <2>3. CASE task'[j] = "joining"
    <3>1. Stage(j)' \in {1, 2}
      BY <2>3, Stages DEF Stage
    <3> QED
      BY <1>3, <1>4, <1>6, <2>1, <2>2, <3>1
  <2>4. CASE task'[j] = "empty"
    <3>1. Stage(j)' = Stage(j)
      BY <1>1, <1>2, <1>6, <2>4, Stages DEF Stage, InMessageLoop
    <3>2. GetTimesOut(j)
      <4>1. task[j] # "empty" => task[j] = "getting"
        BY <1>1 DEF InMessageLoop
      <4> QED
        BY <2>4, <4>1 DEF InLoop, ReceiveProgress, ReceiveFinished, GetTimesOut, ResumeEmpty, TopOfLoop, TypeOK
    <3> QED
      BY <1>3, <1>4, <1>6, <2>1, <2>2, <3>1, <3>2
  <2> QED
    BY <2>1, <2>3, <2>4
<1>7. CASE ReceiveProgress(j)
  BY <1>3, <1>5, <1>7 DEF ReceiveProgress
<1>8. CASE ReceiveFinished(j) \/ GetTimesOut(j)
  BY <1>6, <1>8 DEF ReceiveFinished, GetTimesOut
<1>9. CASE ResumeEmpty(j)
  BY <1>3, <1>5, <1>6, <1>9 DEF ResumeEmpty
<1> QED
  BY <1>7, <1>8, <1>9 DEF InLoop

LEMMA StageTyped ==
  ASSUME TypeOK, NEW j \in Jobs
  PROVE  Stage(j) \in 0 .. 8
PROOF
<1>1. CASE task[j] \in {"none", "waiting", "done", "joining"}
  BY <1>1, Stages DEF Stage
<1>2. CASE task[j] \in InMessageLoop
  <2>1. CASE grace[j] = "unset"
    BY <1>2, <2>1, StagesInLoop DEF Stage
  <2>2. CASE grace[j] \in {"armed", "passed"}
    BY <1>2, <2>2, StagesInLoop DEF Stage
  <2> QED
    BY <2>1, <2>2 DEF TypeOK
<1> QED
  BY <1>1, <1>2 DEF TypeOK, TaskStates, Suspended, InMessageLoop

\* A step that leaves a task and its clocks alone, and starts no worker.
LEMMA StageStays ==
  ASSUME TypeOK, NEW j \in Jobs, Clocked(j), task'[j] = task[j], forced'[j] = forced[j],
         grace'[j] = grace[j], deadline'[j] = deadline[j], Alive(j)' => Alive(j)
  PROVE  Clocked(j)' /\ Stage(j)' <= Stage(j)
PROOF
<1>1. Clocked(j)'
  BY ClockedKept
<1>2. Stage(j) \in 0 .. 8
  BY StageTyped
<1>3. CASE Alive(j)' = Alive(j)
  <2>1. Stage(j)' = Stage(j)
    BY <1>3 DEF Stage
  <2> QED
    BY <1>1, <1>2, <2>1
<1>4. CASE Alive(j) /\ ~ Alive(j)'
  <2>1. CASE task[j] = "joining"
    <3>1. Stage(j) = 2
      BY <1>4, <2>1, StagesJoining DEF Stage
    <3>2. Stage(j)' = 1
      BY <1>4, <2>1, StagesJoining DEF Stage
    <3> QED
      BY <1>1, <3>1, <3>2
  <2>2. CASE task[j] # "joining"
    <3>1. Stage(j)' = Stage(j)
      BY <2>2 DEF Stage, StageAt
    <3> QED
      BY <1>1, <1>2, <3>1
  <2> QED
    BY <2>1, <2>2
<1> QED
  BY <1>3, <1>4 DEF Alive

LEMMA DispatchAdvances ==
  ASSUME IInv, ClocksFit, NEW j \in Jobs, DispatchStep(j)
  PROVE  /\ ClocksFit'
         /\ \A k \in Jobs : Stage(k)' <= Stage(k)
         /\ Stage(j) \notin {4, 6} /\ ~ GetTimesOut(j) => Stage(j)' < Stage(j)
PROOF
<1>1. TypeOK /\ TasksMatch /\ WaitersOnce /\ Clocked(j)
  BY DEF IInv, ClocksFit
<1>2. \A k \in Jobs : Stage(k) \in 0 .. 8
  BY <1>1, StageTyped
<1>3. ASSUME Clocked(j)', Stage(j)' < Stage(j),
             \A k \in Jobs \ {j} : /\ task'[k] = task[k] /\ worker'[k] = worker[k]
                                   /\ forced'[k] = forced[k] /\ grace'[k] = grace[k]
                                   /\ deadline'[k] = deadline[k]
      PROVE  /\ ClocksFit'
             /\ \A k \in Jobs : Stage(k)' <= Stage(k)
  <2>1. ASSUME NEW k \in Jobs \ {j}
        PROVE  Clocked(k)' /\ Stage(k)' <= Stage(k)
    BY <1>1, <1>3, StageStays DEF ClocksFit, Alive
  <2>2. Stage(j)' <= Stage(j)
    <3>1. \A n \in 0 .. 8 : Stage(j)' < n => Stage(j)' <= n
      BY DEF Stage, StageAt
    <3> QED
      BY <1>2, <1>3, <3>1
  <2> QED
    BY <1>3, <2>1, <2>2 DEF ClocksFit
<1>4. CASE InLoop(j)
  <2>1. /\ Clocked(j)'
        /\ Stage(j)' <= Stage(j)
        /\ Stage(j) \notin {4, 6} /\ ~ GetTimesOut(j) => Stage(j)' < Stage(j)
        /\ \A k \in Jobs \ {j} : Stage(k)' = Stage(k) /\ (Clocked(k) => Clocked(k)')
    BY <1>1, <1>4, LoopAdvances
  <2>2. \A k \in Jobs \ {j} : Stage(k)' <= Stage(k)
    BY <1>2, <2>1
  <2> QED
    BY <2>1, <2>2 DEF ClocksFit
<1>5. CASE SkipCancelled(j) \/ StartWorker(j)
  <2>1. task[j] = "waiting"
    BY <1>1, <1>5, AcquireWaiting DEF SkipCancelled, StartWorker
  <2>2. /\ task'[j] \in {"done", "getting"}
        /\ UNCHANGED <<forced, grace, deadline>>
        /\ \A k \in Jobs \ {j} : task'[k] = task[k] /\ worker'[k] = worker[k]
    BY <1>1, <1>5 DEF SkipCancelled, StartWorker, TypeOK, workerVars
  <2>3. forced[j] = "none" /\ grace[j] = "unset"
    BY <1>1, <2>1 DEF Clocked, Suspended
  <2>4. Clocked(j)'
    BY <1>1, <2>1, <2>2 DEF Clocked, Suspended
  <2>5. Stage(j) = 7
    BY <2>1, Stages DEF Stage
  <2>6. Stage(j)' \in {0, 5, 6}
    <3>1. CASE task'[j] = "done"
      BY <3>1, Stages DEF Stage
    <3>2. CASE task'[j] = "getting"
      BY <2>2, <2>3, <3>2, StagesInLoop DEF Stage, InMessageLoop
    <3> QED
      BY <2>2, <3>1, <3>2
  <2>7. Stage(j)' < Stage(j)
    BY <2>5, <2>6
  <2> QED
    BY <1>3, <2>2, <2>4, <2>7
<1>6. CASE JoinTimesOut(j)
  <2>1. /\ task' = task /\ ~ Alive(j)'
        /\ UNCHANGED <<forced, grace, deadline>>
        /\ \A k \in Jobs \ {j} : worker'[k] = worker[k]
    BY <1>1, <1>6 DEF JoinTimesOut, TypeOK, monitorVars, Alive
  <2>2. Stage(j) = 2
    BY <1>6, StagesJoining DEF Stage, JoinTimesOut
  <2>3. Stage(j)' = 1
    BY <1>6, <2>1, StagesJoining DEF Stage, JoinTimesOut
  <2>4. Clocked(j)'
    BY <1>1, <2>1, ClockedKept
  <2>5. Stage(j)' < Stage(j)
    BY <2>2, <2>3
  <2> QED
    BY <1>3, <2>1, <2>4, <2>5
<1>7. CASE Conclude(j)
  <2>1. Stage(j) = 1
    BY <1>7, Stages DEF Conclude, Stage
  <2>2. /\ task'[j] = "done" /\ forced'[j] = "none" /\ grace'[j] = "unset" /\ ~ deadline'[j]
        /\ \A k \in Jobs \ {j} : /\ task'[k] = task[k] /\ worker'[k] = worker[k]
                                 /\ forced'[k] = forced[k] /\ grace'[k] = grace[k]
                                 /\ deadline'[k] = deadline[k]
    BY <1>1, <1>7 DEF Conclude, TypeOK
  <2>3. Stage(j)' = 0
    BY <2>2, Stages DEF Stage
  <2>4. Clocked(j)' /\ Stage(j)' < Stage(j)
    BY <2>1, <2>2, <2>3 DEF Clocked
  <2> QED
    BY <1>3, <2>2, <2>4
<1> QED
  BY <1>4, <1>5, <1>6, <1>7 DEF DispatchStep, InLoop

LEMMA OthersAdvance ==
  ASSUME IInv, ClocksFit, [Next]_vars
  PROVE  ClocksFit' /\ \A k \in Jobs : Stage(k)' <= Stage(k)
PROOF
<1>1. TypeOK /\ TasksMatch /\ \A k \in Jobs : Clocked(k)
  BY DEF IInv, ClocksFit
<1>2. ASSUME NEW K \in SUBSET Jobs,
             \A k \in K : Clocked(k)' /\ Stage(k)' <= Stage(k),
             \A k \in Jobs \ K : /\ task'[k] = task[k] /\ forced'[k] = forced[k]
                                 /\ grace'[k] = grace[k] /\ deadline'[k] = deadline[k]
                                 /\ Alive(k)' => Alive(k)
      PROVE  ClocksFit' /\ \A k \in Jobs : Stage(k)' <= Stage(k)
  BY <1>1, <1>2, StageStays DEF ClocksFit
<1>3. ASSUME UNCHANGED <<task, forced, grace, deadline>>, \A k \in Jobs : Alive(k)' => Alive(k)
      PROVE  ClocksFit' /\ \A k \in Jobs : Stage(k)' <= Stage(k)
  BY <1>1, <1>3, StageStays DEF ClocksFit
<1>4. ASSUME NEW j \in Jobs, DispatchStep(j)
      PROVE  ClocksFit' /\ \A k \in Jobs : Stage(k)' <= Stage(k)
  BY <1>4, DispatchAdvances
<1>5. ASSUME NEW j \in Jobs, Create(j)
      PROVE  ClocksFit' /\ \A k \in Jobs : Stage(k)' <= Stage(k)
  <2>1. /\ task[j] = "none" /\ task'[j] = "waiting"
        /\ UNCHANGED <<forced, grace, deadline, worker>>
        /\ \A k \in Jobs \ {j} : task'[k] = task[k]
    BY <1>1, <1>5 DEF Create, TasksMatch, TypeOK, workerVars
  <2>2. Clocked(j)'
    BY <1>1, <2>1 DEF Clocked, Suspended
  <2>3. Stage(j)' <= Stage(j)
    BY <2>1, Stages DEF Stage
  <2> QED
    BY <1>2, <2>1, <2>2, <2>3 DEF Alive
<1>6. ASSUME NEW j \in Jobs, DeadlinePasses(j)
      PROVE  ClocksFit' /\ \A k \in Jobs : Stage(k)' <= Stage(k)
  <2>1. /\ task[j] \in InMessageLoop /\ forced[j] = "none" /\ ~ deadline[j] /\ deadline'[j]
        /\ UNCHANGED <<task, forced, grace, worker>>
        /\ \A k \in Jobs \ {j} : deadline'[k] = deadline[k]
    BY <1>1, <1>6 DEF DeadlinePasses, InMessageLoop, TypeOK, monitorVars, workerVars
  <2>2. grace[j] = "unset"
    BY <1>1, <2>1 DEF Clocked
  <2>3. Clocked(j)'
    BY <1>1, <2>1 DEF Clocked, Suspended, InMessageLoop
  <2>4. Stage(j) = 6
    BY <2>1, <2>2, StagesInLoop DEF Stage
  <2>5. Stage(j)' = 5
    <3>1. task'[j] \in InMessageLoop /\ grace'[j] = "unset" /\ deadline'[j] = TRUE
      BY <1>6, <2>1, <2>2 DEF DeadlinePasses, TypeOK
    <3>2. \A t \in InMessageLoop : StageAt(t, "unset", TRUE, Alive(j)') = 5
      BY StagesInLoop
    <3> QED
      BY <3>1, <3>2 DEF Stage
  <2>6. Stage(j)' <= Stage(j)
    BY <2>4, <2>5
  <2> QED
    BY <1>2, <2>1, <2>3, <2>6 DEF Alive
<1>7. ASSUME NEW j \in Jobs, GracePasses(j)
      PROVE  ClocksFit' /\ \A k \in Jobs : Stage(k)' <= Stage(k)
  <2>1. /\ task[j] \in InMessageLoop /\ grace[j] = "armed" /\ grace'[j] = "passed"
        /\ UNCHANGED <<task, forced, deadline, worker>>
        /\ \A k \in Jobs \ {j} : grace'[k] = grace[k]
    BY <1>1, <1>7 DEF GracePasses, InMessageLoop, TypeOK, workerVars
  <2>2. Clocked(j)'
    BY <1>1, <2>1 DEF Clocked, Suspended, InMessageLoop
  <2>3. Stage(j) = 4 /\ Stage(j)' = 3
    BY <2>1, StagesInLoop DEF Stage
  <2>4. Stage(j)' <= Stage(j)
    BY <2>3
  <2> QED
    BY <1>2, <2>1, <2>2, <2>4 DEF Alive
<1>8. CASE \/ Lookup \/ Shutdown \/ ShutdownReturns \/ UNCHANGED vars
           \/ \E j \in Jobs : CancelQueued(j) \/ CancelRunning(j) \/ Publish(j)
  BY <1>3, <1>8 DEF Lookup, Shutdown, ShutdownReturns, vars, monitorVars, workerVars,
                    CancelQueued, CancelRunning, Publish, Alive
<1>9. ASSUME NEW j \in Jobs, Exit(j) \/ \E f \in Endings : Finish(j, f)
      PROVE  ClocksFit' /\ \A k \in Jobs : Stage(k)' <= Stage(k)
  <2>1. UNCHANGED <<task, forced, grace, deadline>>
    BY <1>9 DEF Exit, Finish, monitorVars
  <2>2. \A k \in Jobs : Alive(k)' => Alive(k)
    BY <1>1, <1>9 DEF Exit, Finish, Alive, TypeOK
  <2> QED
    BY <1>3, <2>1, <2>2
<1> QED
  BY <1>4, <1>5, <1>6, <1>7, <1>8, <1>9 DEF Next

\* What JobsAdvance says of one step.
Advance ==
  \A j \in Jobs :
    /\ Stage(j)' <= Stage(j)
    /\ Stage(j) \notin {4, 6} /\ DispatchStep(j) /\ ~ GetTimesOut(j) => Stage(j)' < Stage(j)

\* No message, cancellation, crash of a worker or shutdown sends a job back to an
\* earlier stage, and a task that is resumed moves on, unless it is in the
\* loop before a clock that still runs: an expired clock is never overlooked.
JobsAdvance == [][Advance]_vars

\* With the fairness of the event loop and the clocks, which TLC adds on a small
\* instance, this is why every job ends.
THEOREM Progressing == Spec => JobsAdvance
PROOF
<1>1. Init => ClocksFit
  BY DEF Init, ClocksFit, Clocked
<1>2. IInv /\ ClocksFit /\ [Next]_vars => ClocksFit'
  BY OthersAdvance
<1>3. IInv /\ ClocksFit /\ [Next]_vars => [Advance]_vars
  BY OthersAdvance, DispatchAdvances DEF Advance
<1> QED
  BY <1>1, <1>2, <1>3, Invariance, PTL DEF Spec, JobsAdvance

\* Nobody waits for ever on a semaphore nobody will release: while dispatch
\* tasks wait, one of them is first, and it finds a free slot or every slot is
\* held by a task that is suspended in the loop or at the join.
SemaphoreMoves ==
  (\E j \in Jobs : task[j] = "waiting") =>
    /\ waiters # <<>>
    /\ task[Head(waiters)] = "waiting"
    /\ FreeSlot \/ Monitored # {}

\* The queue of jobs cannot deadlock, whatever was cancelled in it: with
\* Progressing, which brings each task that holds a slot to its end.
THEOREM NoDeadlock == Spec => []SemaphoreMoves
PROOF
<1>1. Init => WaitersComplete
  BY DEF Init, WaitersComplete
<1>2. IInv /\ WaitersComplete /\ [Next]_vars => WaitersComplete'
  BY WaitersCompleteStep
<1>3. IInv /\ WaitersComplete => SemaphoreMoves
  <2> SUFFICES ASSUME IInv, WaitersComplete, NEW j \in Jobs, task[j] = "waiting"
               PROVE  /\ waiters # <<>>
                      /\ task[Head(waiters)] = "waiting"
                      /\ FreeSlot \/ Monitored # {}
    BY DEF SemaphoreMoves
  <2>1. waiters \in Seq(Jobs) /\ WaitersOnce
    BY DEF IInv, TypeOK
  <2>2. \E a \in 1 .. Len(waiters) : waiters[a] = j
    BY DEF WaitersComplete
  <2>3. Len(waiters) \in Nat /\ 1 \in 1 .. Len(waiters) /\ Head(waiters) = waiters[1]
    BY <2>1, <2>2
  <2>4. Monitored = {} => FreeSlot
    BY FS_EmptySet, LimitsAssumption DEF FreeSlot
  <2> QED
    BY <2>1, <2>3, <2>4 DEF WaitersOnce
<1> QED
  BY <1>1, <1>2, <1>3, Invariance, PTL DEF Spec
=============================================================================
