# Verification of the FPG generation server

TLA+ specifications of the control logic of the FPG server (`app/`), the TLC
runs that check them on small instances, and TLAPS proofs of the properties
that matter most.  Paths below are relative to the repository; "the manager" is
`GenerationJobManager` in `app/jobs/manager.py`.

## 1. The system

A FastAPI process accepts floor-plan generation requests, queues them, runs
each in a worker process, journals every event of a job in a file, streams the
journal to browsers as server-sent events, and keeps finished jobs readable for
an hour and across restarts.

| Component | State it keeps | Operations | What is hard | What makes it correct |
|---|---|---|---|---|
| Job manager, `app/jobs/manager.py` | `_jobs`, one `JobRecord` each; semaphore `_slots`; dispatch tasks; per job locals of `_monitor` | `create`, `get`, `cancel`, `_dispatch`, `_monitor`, `_finalize`, `_expire`, `shutdown` | one event loop whose tasks interleave at each `await`; worker processes and clocks run freely; deadline, cancellation and natural end race | bounded admission, FIFO start, one terminal outcome with a cause, supervised workers, every job ends |
| Worker process, `app/jobs/worker.py` | multiprocessing queue and event | publish events, send one `WorkerFinished`, exit | may hang, be killed, finish while the monitor looks away | events in order, the final message last |
| Job files, manager `_append_event`, `_write_snapshot`, `_write_result`, `_restore_retained_jobs` | `events.jsonl`, `snapshot.json`, `result.json` per job | append, replace, restore at start | a crash between two writes; snapshots that lag the journal | persisted before published; finished jobs survive; sequence numbers grow |
| Event stream, manager `events`, `app/routes/generation.py` | one cursor per subscriber, the record's `updated` event | replay, wait, heartbeat, reconnect | the shared event is cleared by each subscriber; records expire and restart under it | every subscriber gets every event once, in order, then the terminal one |
| Generation pipeline, `app/pipeline/generation/` | trial and run counters, best plan | checkpoint, evaluate, solve, report | a cancellation or deadline at any checkpoint, while a best plan exists | events then one outcome; best plan kept |
| Artifact storage, `app/artifacts/` | artifact files, temporary files, event logs, one lock directory and one thread lock per log | save or replace an artifact, append an event under its lock | threads of several processes, file system calls that fail, processes that die inside the lock, locks that count as stale while their owner lives | one writer at a time in a log, no event twice or lost, no half artifact, no call that waits for ever |
| Buildable space, `app/pipeline/buildable_space/`, `app/routes/buildable_space.py` | the execution context of a request, its flow directory and log | reserve a flow, run the stages, log, map errors to a status | two requests in one millisecond, failure at every stage, also of logging | no flow reserved twice, the log agrees with the answer, every request answered |
| Configuration, `app/core_config.py`, `app/main.py` | `BOOT_CONFIG` of the server, the configuration of each worker | load, validate, resolve a floor's profile | boundaries of area brackets; each worker loads the file again, which may have changed | every floor gets its one profile; a job runs with what its server advertised |
| Job routes, execution contexts, loggers | nothing of their own | validate requests, derive contexts, format lines | log calls that fail or raise | in the components above |

Components interact as follows.  A route calls `create`; the manager appends a
`queued` event, writes a snapshot and starts a dispatch task.  The task waits
for a slot, starts the worker process and moves the worker's messages from the
multiprocessing queue to the journal; the worker runs the generation pipeline.
`cancel` and the deadline set a shared event the pipeline polls.  Each append
wakes the subscribers, who re-read the journal file.  A buildable-space request
runs in the server itself: a middleware reserves its flow directory, the
pipeline logs in it and stores artifacts through the storage, as the workers do.
Server and workers each load the configuration file.

## 2. Modules

### JobManager

One life of the server.  Every action is the code between two suspensions of
the event loop, since only an `await` that really waits lets another task run
(taking the uncontended `_lock` does not suspend, and `_finalize` contains no
`await`):

| Action | Code |
|---|---|
| `Create`, `Lookup`, `CancelQueued`, `CancelRunning` | the handlers with the expiry they run; `Lookup` also stands for `create` on a full queue and for `cancel` calls that only answer |
| `SkipCancelled`, `StartWorker` | a dispatch task woken by the semaphore, up to the first wait for a message |
| `ReceiveProgress`, `ReceiveFinished`, `ResumeEmpty` | the monitor resumed with a message or with `Empty`, up to its next `await`; `TopOfLoop` is the pass through the tests at the top of the loop |
| `GetTimesOut` | the reading thread raises `Empty`; a separate step, because the loop resumes only later |
| `JoinTimesOut`, `Conclude` | the end of `_monitor`: join, terminate, settle, release the slot |
| `Shutdown`, `ShutdownReturns` | `shutdown` and its `gather` |
| `Publish`, `Finish`, `Exit` | the worker process; `Exit` is also its death at any moment |
| `DeadlinePasses`, `GracePasses` | the clocks; time is otherwise abstract |

Abstractions.  A result, an error and an event are reduced to what the
properties tell apart: a kind, and a number for progress events.
`_expire` may find any finished record old enough.  Time does not advance
within an action.  The journal is the list of lines of `events.jsonl`.  File
operations succeed here, and so does starting a worker (`manager.py:233-242`):
`JobJournal` has those that fail, which leave a record that is not terminal and
has no dispatch task, so that the properties of `JobManager` are those of a
server on which they work.  A dead worker's
message torn in the pipe, on which `Queue.get` would block, is not modelled.

Bounds.  `Jobs`, `MaxConcurrent`, `MaxQueued` as in the runs below;
`MaxProgress` caps the events of one worker; `Endings` names the final messages
workers send in a run.

### JobLifecycle

What clients are promised: bounded admission, FIFO start, at most
`MaxConcurrent` running, each job ends exactly once.  `JobManager` implements it
with `phase <- state` and, for `ahead`, the queued jobs whose tasks stand before
that of a job in the semaphore (which also holds tasks of jobs cancelled
meanwhile).

### JobJournal

The files of one job.  A handler or task first changes the record and then
writes its files, each a step of its own (`DoAppend`, `DoResult`, `DoLog`,
`DoSnapshot`); `todo` holds those still to come, and `Idle` says that the event
loop is free again.  `Transition` and `Settlement` give the order of the writes
in `create`, `_dispatch`, `cancel` and `_finalize`.

- `StartFails`: the queue, the event or the process of a worker cannot be had.
  The record already says running; its task ends, with nothing written.
- `Expire`: the record of a job that is over is dropped from memory, at any
  lookup and, within `Restore`, at the end of a start (`manager.py:518`); its
  files stay.
- `WriteFails`: an `OSError`.  It leaves a handler (the client gets an error),
  ends a dispatch task, or ends the start of the server; memory keeps what it
  holds, and a line whose `fsync` failed may be in the file.
- `Crash` and `Restore`: the process dies between any two file steps, and the
  next life rebuilds the record from `snapshot.json`, settling it as failed
  when it was active (`_restore_retained_jobs`).

One job is enough, because every job has a directory of its own and a handler
writes for one job.  What the monitor decides is here a free choice of a
terminal state; `JobManager` says which.  A line torn by a crash is not
modelled.

### EventFile

What `JobJournal` and `EventStream` have in common, the files as their readers
see them: the journal, the sequence of its last line, the sequence in the
snapshot, and whether the job is over.  `Write` is a line, `Save` a snapshot, and
`Settle` the line of a restart, numbered from the snapshot.  `JobJournal`
implements it step by step (`ImplementsEventFile`), failed writes and crashes
included: a line that was never written leaves its number out.  `EventStream` is
built on its actions, so that what subscribers read there is what the files of
`JobJournal` can hold.

### EventStream

Subscribers of one job.  An action of the generator is its code between two
suspensions: at a `yield` (`Resume`), at the wait for `updated` (`Wake`, or
`Heartbeat` and `AfterHeartbeat`), and at its start (`Begin`).  Clearing
`updated` and waiting for it are apart: `asyncio.wait_for` of Python 3.11,
which `Dockerfile` and `mypy.ini` name, runs `updated.wait()` in a task of its
own, and `Register` is the first step of that task.  In between (`pc` is
`registering`) lines are appended and other generators run; the model lets any
number of their steps happen there, more than the one round of the event loop
that can.  `erased` records which generators were there while another one
cleared a signal.  `Pass` re-reads the file after each suspension, while the code
walks the lines it read before the suspension: the file only grows, and the
lines before the cursor are never wanted again, so the next line is the same
either way.  `next` is `next_sequence`, except that while a frame is with the
connection it is still the sequence of that frame, as in the code.

The client is `consume_events` of `test/run_full_flow.py`: it connects with the
last sequence it received, leaves after a terminal event, and reconnects when
the connection is lost (`Drop`, frames in flight included) or the stream ends.
`Save`, `Expire` and `Restart` run under it; since `Save` is a step of its own, the
server may also restart between a line, even the terminal one, and its
snapshot.  Lines are numbered without gaps here: failed writes are left to
`JobJournal`.

### EventFeed

What a subscriber is promised, without generators, connections and sequences
of its own: the journal grows, and the next thing a client gets is the first
line of it above the last one it got (`Deliver`).  `EventStream` implements it
with `log <- journal` and `got <- received`, also across a restart that gives
numbers out again: then a line that is numbered too low is the one thing a
client can miss, and nothing comes twice or late.

### PlanSearch and GenerationPipeline

`GenerationPipeline` is the search in a worker process.  The pipeline looks at
the cancellation event and at its clock only at its checkpoints, so an action
is the code from one checkpoint to the next, and `Cancel` and `DeadlinePasses`
run in between.  `pc` names the checkpoint; `After` is the order of the stages
of an attempt.  What `fpg_core` computes is a choice among the outcomes the
code tells apart: a stage succeeds, fails in the expected way (`FailAttempt`,
`FailTrial`) or raises (`Raise`).  Scores are ranks.  The search session is
external; by its documentation it refuses a second pending trial, and whether a
failed trial counts towards the limit is left open.

`PlanSearch` is what a worker promises the manager: one answer, with the best
plan, a failure, or a stop that was asked for.  The kinds of answers are the
final messages `JobManager` lets workers send (`Finishes`).

### ArtifactStorage

Calls on one event log or one artifact; calls on different files share
nothing.  Each action is one file system call, so that threads of several
processes interleave, fail and die between any two of them.

- A call that appends (`append_json_event`) takes the lock of its process
  (`TakeThreadLock`, a wait without limit), tries to make the lock directory
  (`Mkdir`), looks at an existing one (`Stat`), removes a stale one (`Break`) or
  gives up after 30 s, writes its line (`Append`) and removes the directory
  (`Release`), whoever made it.
- A call that saves (`_write_snapshot`) fills a temporary file and links or
  moves it into place (`WriteTemp`, `Publish`, `Unlink`, `Cleanup`), or opens
  the artifact directly when atomic writes are off (`OpenDirectly`,
  `FillDirectly`).
- `Crash`, `DeadlinePasses` and `LockAges` are the environment.  `LockAges` is
  free: a lock may count as stale while its owner is only slow.

Two clocks are reduced to flags: the 30 s of a call and the 300 s of a lock.
Removing a lock directory that exists succeeds; were removing a stale one to
fail for good, its waiters would try for ever, since only the wait for a fresh
one looks at the deadline (`storage.py:312`).  The flags of the configuration
that turn logging or artifacts off leave calls out and are not modelled.

### ArtifactStore

The store `ArtifactStorage` is for its callers: an atomic one.  A call takes
effect in one instant between its start and its answer (`TakeEffect`), or not
at all; it may fail or die after it has, but is saved only if it has.  The
instant is the write of the line for an event, and the link, the replacement
or the opening for an artifact.  `StatusAt` says of each place in the code what
the caller knows there and whether the instant has passed; where writes are to
be atomic, half an artifact counts as none (`Readable`).  `JobLifecycle`,
`PlanSearch`, `EventFeed` and `ArtifactStore` are promises and translate no
code of their own.

### BuildableSpace

One request from the middleware to its status code.  `Arrive`, `Reserve` and
`Subdirs` are `_ensure_execution_context` with `create_execution_context`: the
name of a flow is the millisecond and a suffix, and `Reserve` is one `mkdir`, so
that two servers race for a name.  `Fallback` is the context a request gets when
no directory can be reserved.  The actions of the pipeline are its log calls
(`Emit`) and what `fpg_core` computes (`Compute`, a choice among its outcomes);
each names where it goes and which handler catches what it raises.  A line
hidden by the level of the log, and one lost by a failed write, look alike and
both count as one of `MaxFaults`.  `struck` is the history of the failures that
`VerdictsAgree` speaks of: at the first log call (its exception is handled outside
the pipeline), at those of the two verdicts, and where the response is built.
Bodies of requests and responses are left out.

### FloorSizePolicy and ServerConfiguration

`FloorSizePolicy` is a pure module: what the loader accepts (`ValidPolicy`) and
`resolve`, with ratios in hundredths so that the code's decimal rounding is
integer arithmetic.  `ServerConfiguration` puts it to use: an operator edits
the file at any moment (`Edit`, also to something unreadable), the server loads
it once (`Boot`), each worker again (`WorkerLoads`), and the pipeline resolves
the profile and the route rules (`Preprocess`, `ConfigureSearch`).  The rooms whose rules count are those of the
specification `fpg_core` prepares (`pipeline.py:212`): the requested ones and any
the server adds.  Of a document
only the policy, the timeout and the route rules are kept; the rest is valid.
Jobs that end for other reasons are in `JobManager`.

## 3. Runs

| Run | Bounds | Shows |
|---|---|---|
| `manager_queue` | 3 jobs, 1 slot, 1 queue place | the third job is refused while two are live; cancelled jobs leave tasks in the semaphore; start order; worker bound |
| `manager_pair` | 2 jobs, 1 slot, 1 queue place, 2 progress events, all 6 endings | under every mixture of deadline, cancellation, worker death and shutdown no event is lost, repeated or reordered, the journal ends with the state of the record, result, error and cause fit that state, and a finished job stays as it is |
| `manager_live` | 2 jobs, 1 slot, 2 endings | every job ends, shutdown returns, refinement of `JobLifecycle` with its fairness |
| `journal_files` | 2 worker events, 4 lives, 2 failures (a write or the start of the worker) | snapshot, journal and result file agree whatever fails; refinement of `EventFile`; a restarted server leaves nothing active, also after an interrupted restart; while nothing failed, finished jobs survive restarts, on disk and until they expire in memory |
| `stream_served` | 2 subscribers, 3 events and the terminal one, 1 lost connection each, 1 restart | the end of the job is never missed, another line only when a second generator's clear falls between a first one's clear and its wait; refinement of `EventFeed`, over the restart too; until the restart no early close, and everybody gets the terminal event |
| `pipeline_search` | 3 trials, 2 solver runs, 4 scores, critical pass required | the plan kept and delivered is the best, no trial is left pending, stops are obeyed; refinement of `PlanSearch` with its fairness |
| `artifact_storage` | 3 calls, 2 of them threads of one process; all append, or each creates or replaces; with and without atomic writes | who may be inside the lock together; refinement of `ArtifactStore`, so that each saved event is in the log once; no half artifact, saved artifacts stay, every call ends |
| `buildable_space` | 2 requests at 2 servers, 2 milliseconds, 2 failures | flows distinct; the log has the verdict of the answer and no other, unless the log call of a verdict or building the response is what failed; every request answered |
| `configuration` | 2 jobs, 6 documents (4 of them refused) and a torn file, 6 floors, 2 room types | each floor gets the profile of its bracket and its allowance; a job runs with its server's configuration unless the file was edited in between |

Two jobs suffice for what the monitors do, because monitors share only the
semaphore; three are needed for admission and order, where one runs, one waits
and one is refused or waits behind a cancelled job.  That two monitors run at
once is left to the proofs, which hold for every number of slots.  Two
subscribers suffice for the stream, because they meet only in `updated`: one
clears what the other waits for.  Four scores are one below the usable score,
two usable ones (so that one can be better than another) and a presentable one.
Four lives allow a crash in a first restart and again in a second.  Three calls
are a thread behind a thread lock and a rival in another process, and suffice
for the robbery of a lock (two waiters, one of which has just taken it).  Two
milliseconds let the clock stand still or move between two reservations, and
two failures let the report of a failure fail.  The six floors are 1, the maxima
of the packaged policy, one above each, and the area where the percentage passes
the minimum.

Violation runs, each for a sentence of the documentation or the code that the
code does not keep (the findings of `PROJECT.json` quote it):

| Run | What happens |
|---|---|
| `manager_lost_result` | a result sent while the reader gives up on an empty queue is never read |
| `stream_restart` | after a restart the stream is closed without its terminal event |
| `pipeline_stop` | a stop between two attempts discards the best plan |

Behaviours of the models that differ from the documentation too, and have no
run of their own:

- a process that dies after the terminal event is journaled (`manager.py:387`)
  and before the snapshot (417) is restored as active (507) and settled again:
  the journal has a second event of the states `docs/API.md:55` calls terminal;
- a cancelled job can carry a best-available result (`docs/API.md:333` says
  `result: null`), and a job whose cancellation was requested can end failed
  (`docs/API.md:584`);
- a restart can journal under a sequence already used (`docs/API.md:403`), which
  is what starves the client of `stream_restart`;
- a job can expire after its stream was answered with 200 (`docs/API.md:371`);
- an event that is not the last may reach a subscriber only with the next one or
  after the heartbeat interval of 15 s: its signal was cleared by another
  subscriber between this one's `clear` (`manager.py:202`) and the registration of
  its wait, one turn of the event loop later.  No document promises more, and
  `MissedOnlyIfErased` says that this is the only way and never the end of the job;
- a buildable-space request whose completion is logged by a call that then
  raises (`pipeline.py:126`) is logged as failed too and answered 500, and one
  whose response cannot be built is answered 500 beside its completion;
- `_event_log_lock` ("Protect one aggregated log from threads and worker
  processes", `storage.py:295`) lets two processes in when a waiter removes a
  lock directory that only looks stale, or that another waiter has just renewed.
  `Exclusion` says exactly when, and `ImplementsStore` that no event is lost or
  repeated by it.

Fairness.  Dispatch tasks are weakly fair because the event loop runs every
ready task, `Queue.get` and `join` have timeouts and the semaphore is FIFO; the
two clocks are weakly fair because time passes.  Nothing is assumed of clients
or workers of the manager: a worker may hang for ever.  In the stream the
generator is fair because the event loop runs it, the client because it keeps
reading and reconnecting, and the job because `manager_live` shows that it
ends; heartbeats are not assumed.  In the pipeline the steps of the process and
its clock are fair: solvers run under a time limit, and the other algorithms
are assumed to return.  In the storage threads run, file system calls return and
the 30 s of a waiting call pass; that locks age is not assumed, so that a call
ends by giving up behind the lock of a dead process.  In the buildable space the
event loop and the thread pool run what is ready; servers may die.  The
configuration has no liveness property.

## 4. Proofs

All proofs are for every value of the constants, from the assumptions on them
alone.

`JobManagerProofs` proves every safety property of the runs `manager_queue`
and `manager_pair`, and `Refinement`: the manager implements `JobLifecycle`
without its fairness.  The inductive invariant `IInv` adds to the properties
what they rest on: `TasksMatch` (the place of a dispatch task decides the states
of its record), `WaitersOnce` (the semaphore holds each waiting task once, so no
job is started twice), `PipesShaped` (a final message is last, so the lines
drained from a dead worker's queue are progress), and `SlotsBounded`.  Four
theorems need an invariant of their own on top of it:

- `Admission`: `Admitted`, only jobs in `_jobs` are live, so that the capacity
  test counts them all;
- `OrderOfStart` and `Refinement`: `WaitersComplete`, each waiting task is in the
  semaphore, so that what starts first stands before it there;
- `StopsHaveCauses`: `StopsCaused`, a forced stop, the shared event and a reported
  cancellation each have their cause before they have their effect;
- `EventsInOrder`: `EventsCounted`, the journal holds the events 1 to c and the
  queue those from c + 1 to the last published.

Two more theorems are the part of `EveryJobEnds` that needs no fairness.
`Progressing` orders the stages of a dispatch task - waiting, deadline running,
deadline over, grace period running, over, joining a live process, joining a
dead one, done - and says that no step whatever sends a task back, and that a
task that is resumed moves on, unless it is in the message loop before a clock
that still runs (its invariant is `ClocksFit`: a stop is forced exactly when its
grace period has been started).  `NoDeadlock` says that tasks that wait are
behind a free slot, or behind slots whose holders `Progressing` brings to an
end.  What is left to TLC is that fair steps are taken.

`JobJournalProofs`: `Typing`, `SnapshotBacked`, `ResultWritten`,
`SequencesGrow`, `SurvivesRestarts`, `SettlesAtRestart`, `FilesImplemented` (the
refinement of `EventFile`, for any number of failures and lives) and
`OverForGood` (a snapshot that shows the job over is the last thing ever written
of it).  The properties speak
of the snapshot after a write, the invariant of the writes still to come:
`TodoShaped` (the files left are a tail of those of the record's state),
`LineBeforeSnapshot` and `ResultBeforeSnapshot` (what the next snapshot will say
is in the journal and the result file already), `OverIsIdle` (nothing is written
for a job whose snapshot shows it over), `SequenceIsLast`; and, for what
survives a restart, `Kept` (while nothing fails the snapshot follows the
record, until that expires, and keeps what a client has seen).  The refinement needs `FileInv`: in the
first life the snapshot is not ahead of the journal, and a job whose journal has
ended is over and appends no more; in later lives the one event appended is
numbered from a snapshot that does not show the job over; and a journal that has
ended beyond its snapshot has a last line above it.

`GenerationPipelineProofs`: `Typing`, `BestKept`, `BestDelivered`,
`SessionRespected`, `PromptStop`, and `Refinement`: every behaviour is one of
`PlanSearch`.  The invariant adds `Undecided` (no answer before the end) and
`RoomLeft` (a trial or run is begun only while one is left).

`EventStreamProofs`: `Typing`, `EndNeverMissed`, `LoneWakeupsKept`, `FeedServed`,
`NothingTwice`, `PrefixDelivered` and `ClosedComplete`.  `EndNeverMissed` is
`MissedOnlyIfErased`; its invariant says of a generator between its clear and its
wait what the property says of one that waits (`Attentive`: a line is unread only
while `updated` is set or its signal was erased, and once the job is over
`updated` is set), which needs that nobody clears after the end (`JobBounds`: the
last line has the sequence of the record).  A subscriber that is alone has nobody
to erase its signals, so it misses nothing.  `FeedServed` is the refinement of `EventFeed`, in every
life: what is in flight to a client leads on from what it has, each line the
first of the journal above the one before it, and the generator stands behind
the last (`Leads`); appending a line, even one that repeats a number after a
restart, leaves it so.  `NothingTwice` follows.  `PrefixDelivered` and
`ClosedComplete` rest on `Numbered` (in the first life a line's sequence is its
number) and `Tracks` (what a client has and what is on its way to it are the
first lines of the journal), both lost at a restart, as `stream_restart` shows.

`ArtifactStorageProofs`: `Typing`, `LockHeld`, `EventsSavedOnce`, `ArtifactsIntact`
and `StoreImplemented`, the refinement of `ArtifactStore` for any number of calls,
processes and robbed locks.  `LockHeld` rests on `ThreadsApart` (one thread of a process
behind its lock) and `DirectoryHeld`, which a robbery ends; the others on
`PlacesFit`, `LinesFit` and `FileFits`, which say what a call has done from where
it is, and so whether the instant of its effect has passed.

`BuildableSpaceProofs`: `Typing`, `FlowsReservedOnce` (from `NamesHeld`: whoever
made a directory keeps its name, also past a crash) and `LogAgrees` (from
`LogFits`: the log of a request has risen at most to the event of its place; and
`Told`: what the log says, the exception on its way and the status say of each
other at each place, unless a failure has struck there).

`ServerConfigurationProofs`: `Typing`, `ProfilesResolved` and `AsAdvertised`.
The profile the loop of `resolve` finds is the least covering one; that there is
a least number in a set is proved once, and that its bracket is the only one
follows from the maxima growing (by a least counterexample).  `FileKept`
says that the file is what the server loaded unless it was edited.

Theorems about properties no run lists (`LoneWakeupsKept`, `PrefixDelivered`, `NothingTwice`,
`SequencesGrow`, `OverForGood`, `EventsSavedOnce`, `Progressing`, `NoDeadlock`) state
them in the proof modules: either a property of a run implies them, or they
are steps towards a liveness property that a run checks.

Only model-checked, because the proof system has no rules for fairness and
`ENABLED` here: `EveryJobEnds`, `ShutdownEnds`, `EverybodyServed`,
`EveryCallEnds`, `EveryRequestAnswered`, and the fairness of `JobLifecycle` and
`PlanSearch`.

## 5. Plan

Done: the manager with its lifecycle, the job files, the event stream and its
feed over the same files, the search, artifact storage and its store, buildable
space, the configuration, the proofs of all their safety properties and of the
safety part of every refinement, and the safety core of the manager's progress.
Left, in this order:

1. the same core of progress for the storage (a call that waits moves on behind
   a dead process's lock) and for the stream (a client short of events has a
   step to take);
2. an abstract registry of flows for `BuildableSpace`, refined across servers;
3. a journal line torn by a crash, and what the readers do with it;
4. the rest of the full-flow client (create, poll, fetch the result) composed
   with `EventStream`.

## 6. Not modelled

The algorithms of the external package `fpg_core`, request parsing and error
formatting, bodies and metadata of requests, which path an artifact has and how
it is serialized, the contexts derived from a root one for stages and trials
(copies), the builders of `fpg_core`'s configuration (copy and check one value
at a time: one condition, `Loads`), the unit converter, the database schema
stub, the request building of the test client and the context generator: they
keep no state that the properties above are about.  `reload_server_config` and
`server_lifespan` are called nowhere.  A line of `events.jsonl` torn by a crash
is not modelled: lines are atomic.
