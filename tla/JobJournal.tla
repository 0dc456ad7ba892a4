----------------------------- MODULE JobJournal -----------------------------
(***************************************************************************)
(* The files of one job: events.jsonl, result.json and snapshot.json, which *)
(* the manager writes one after the other inside its handlers, and from     *)
(* which a restarted server rebuilds the record.  The event loop waits for  *)
(* a handler's files, so no other handler runs in between; but the process  *)
(* may die before any of them, and a write may fail with an OSError.        *)
(* Every job has a directory of its own, so one job is enough.              *)
(***************************************************************************)
EXTENDS Naturals, Sequences

CONSTANTS MaxEvents,    \* bound on worker events per life
          MaxLives,     \* bound on the lives of the server
          MaxFailures   \* bound on failed writes and starts of a worker

ASSUME BoundsAssumption == /\ MaxEvents \in Nat
                           /\ MaxLives \in Nat \ {0}
                           /\ MaxFailures \in Nat

VARIABLES
  life,      \* number of the present life, 1 for the first
  up,        \* the process runs
  state,     \* JobRecord.state, "absent" when there is no record in _jobs
  sequence,  \* JobRecord.sequence
  task,      \* the dispatch task: none, live, or lost to an exception
  owner,     \* what the file steps belong to: handler, task or start
  todo,      \* the file steps left to the code that runs
  journal,   \* the lines of events.jsonl: sequence, kind and life
  snapshot,  \* snapshot.json: state and sequence
  written,   \* the state in result.json
  events,    \* worker events in this life
  failures,  \* failed writes and starts so far
  seen       \* the state last answered to a client

memory == <<state, sequence, task, owner>>
disk   == <<journal, snapshot, written>>
vars   == <<life, up, memory, todo, disk, events, failures, seen>>

Terminal == {"completed", "failed", "cancelled", "timed_out"}
Running  == {"running", "cancellation_requested"}
States   == {"absent", "queued"} \cup Running \cup Terminal

AppendOf(k) == [op |-> "append", kind |-> k]
WriteResult   == [op |-> "result", kind |-> "none"]
LogError      == [op |-> "log", kind |-> "none"]
WriteSnapshot == [op |-> "snapshot", kind |-> "none"]
StartTask     == [op |-> "task", kind |-> "none"]

Idle == up /\ todo = <<>>

Init ==
  /\ life = 1
  /\ up = TRUE
  /\ state = "absent"
  /\ sequence = 0
  /\ task = "none"
  /\ owner = "handler"
  /\ todo = <<>>
  /\ journal = <<>>
  /\ snapshot = [state |-> "absent", sequence |-> 0]
  /\ written = "absent"
  /\ events = 0
  /\ failures = 0
  /\ seen = "absent"

(***************************************************************************)
(* The steps of handlers and tasks in memory, with the files they write    *)
(***************************************************************************)

\* Mutant: the snapshot is written first.
TransitionSnapshotFirst(s) == <<WriteSnapshot, AppendOf(s)>>

\* Files written when a record enters state s without being settled.
Transition(s) == <<AppendOf(s), WriteSnapshot>>

\* Mutant: the snapshot is written before the result.
SettlementSnapshotEarly(s) ==
  <<AppendOf(s), WriteSnapshot, WriteResult>>

\* Files _finalize writes; a settled record has a result or an error, and all
\* but a completed one have an error to log.
Settlement(s) ==
  IF s = "completed"
  THEN <<AppendOf(s), WriteResult, WriteSnapshot>>
  ELSE <<AppendOf(s), WriteResult, LogError, WriteSnapshot>>

Run(who, files) == owner' = who /\ todo' = files

\* create_task is the last step of create: a failed create leaves no task.  The
\* id is new: no event has been numbered for it.
Create ==
  /\ Idle
  /\ life = 1
  /\ state = "absent"
  /\ sequence = 0
  /\ journal = <<>>
  /\ state' = "queued"
  /\ Run("handler", <<AppendOf("queued"), WriteSnapshot, StartTask>>)
  /\ UNCHANGED <<life, up, sequence, task, disk, events, failures, seen>>

Dispatch ==
  /\ Idle
  /\ task = "live"
  /\ state = "queued"
  /\ state' = "running"
  /\ Run("task", Transition("running"))
  /\ UNCHANGED <<life, up, sequence, task, disk, events, failures, seen>>

\* The queue, the event or the process of the worker cannot be had: the task ends
\* with the exception, and the record says running without event or snapshot.
StartFails ==
  /\ Idle
  /\ task = "live"
  /\ state = "queued"
  /\ failures < MaxFailures
  /\ failures' = failures + 1
  /\ state' = "running"
  /\ task' = "lost"
  /\ UNCHANGED <<life, up, sequence, owner, todo, disk, events, seen>>

WorkerEvent ==
  /\ Idle
  /\ task = "live"
  /\ state \in Running
  /\ events < MaxEvents
  /\ events' = events + 1
  /\ Run("task", <<AppendOf("progress")>>)
  /\ UNCHANGED <<life, up, state, sequence, task, disk, failures, seen>>

CancelQueued ==
  /\ Idle
  /\ state = "queued"
  /\ state' = "cancelled"
  /\ Run("handler", Settlement("cancelled"))
  /\ UNCHANGED <<life, up, sequence, task, disk, events, failures, seen>>

CancelRunning ==
  /\ Idle
  /\ state = "running"
  /\ state' = "cancellation_requested"
  /\ Run("handler", Transition("cancellation_requested"))
  /\ UNCHANGED <<life, up, sequence, task, disk, events, failures, seen>>

Settle(s) ==
  /\ Idle
  /\ task = "live"
  /\ state \in Running
  /\ state' = s
  /\ Run("task", Settlement(s))
  /\ UNCHANGED <<life, up, sequence, task, disk, events, failures, seen>>

\* GET of the status.
Read ==
  /\ Idle
  /\ state # "absent"
  /\ seen' = state
  /\ UNCHANGED <<life, up, memory, todo, disk, events, failures>>

\* _expire, run by create and by every lookup: the record of a job over for
\* longer than job_retention_seconds is dropped, its files stay.
Expire ==
  /\ Idle
  /\ state \in Terminal
  /\ state' = "absent"
  /\ UNCHANGED <<life, up, sequence, task, owner, todo, disk, events, failures, seen>>

(***************************************************************************)
(* Files                                                                   *)
(***************************************************************************)

Doing(op) == up /\ todo # <<>> /\ Head(todo).op = op

NewLine == [sequence |-> sequence + 1, kind |-> Head(todo).kind, life |-> life]

\* Mutant: the incremented sequence is not kept.
DoAppendForgets ==
  /\ Doing("append")
  /\ journal' = Append(journal, NewLine)
  /\ todo' = Tail(todo)
  /\ UNCHANGED <<life, up, memory, snapshot, written, events, failures, seen>>

\* The sequence is incremented before the line is written.
DoAppend ==
  /\ Doing("append")
  /\ sequence' = sequence + 1
  /\ journal' = Append(journal, NewLine)
  /\ todo' = Tail(todo)
  /\ UNCHANGED <<life, up, state, task, owner, snapshot, written, events,
                 failures, seen>>

\* Mutant: the state of the last snapshot is written.
DoResultStale ==
  /\ Doing("result")
  /\ written' = snapshot.state
  /\ todo' = Tail(todo)
  /\ UNCHANGED <<life, up, memory, journal, snapshot, events, failures, seen>>

DoResult ==
  /\ Doing("result")
  /\ written' = state
  /\ todo' = Tail(todo)
  /\ UNCHANGED <<life, up, memory, journal, snapshot, events, failures, seen>>

DoLog ==
  /\ Doing("log")
  /\ todo' = Tail(todo)
  /\ UNCHANGED <<life, up, memory, disk, events, failures, seen>>

\* A temporary file is written and moved over the snapshot.
DoSnapshot ==
  /\ Doing("snapshot")
  /\ snapshot' = [state |-> state, sequence |-> sequence]
  /\ todo' = Tail(todo)
  /\ UNCHANGED <<life, up, memory, journal, written, events, failures, seen>>

DoTask ==
  /\ Doing("task")
  /\ task' = "live"
  /\ todo' = Tail(todo)
  /\ UNCHANGED <<life, up, state, sequence, owner, disk, events, failures, seen>>

\* An OSError leaves the handler, ends the task, or ends the start of the
\* server; what memory holds by then stays.  A line whose fsync failed may be in
\* the journal all the same.
WriteFails ==
  /\ up
  /\ todo # <<>>
  /\ ~ Doing("task")
  /\ failures < MaxFailures
  /\ failures' = failures + 1
  /\ todo' = <<>>
  /\ \/ /\ Doing("append")
        /\ sequence' = sequence + 1
        /\ journal' \in {journal, Append(journal, NewLine)}
     \/ /\ ~ Doing("append")
        /\ UNCHANGED <<sequence, journal>>
  /\ task' = IF owner = "task" THEN "lost" ELSE task
  /\ up' = (owner # "start")
  /\ UNCHANGED <<life, state, owner, snapshot, written, events, seen>>

(***************************************************************************)
(* Crash and restart                                                       *)
(***************************************************************************)

Crash ==
  /\ up
  /\ life < MaxLives
  /\ up' = FALSE
  /\ todo' = <<>>
  /\ UNCHANGED <<life, memory, disk, events, failures, seen>>

\* Mutant: restored records are left as they are.
RestoreAsIs ==
  /\ ~ up
  /\ life < MaxLives
  /\ up' = TRUE
  /\ life' = life + 1
  /\ events' = 0
  /\ task' = "none"
  /\ state' = snapshot.state
  /\ sequence' = snapshot.sequence
  /\ UNCHANGED <<owner, todo, disk, failures, seen>>

\* Mutant: every restored record is settled as failed.
RestoreFailsAll ==
  /\ ~ up
  /\ life < MaxLives
  /\ up' = TRUE
  /\ life' = life + 1
  /\ events' = 0
  /\ task' = "none"
  /\ sequence' = snapshot.sequence
  /\ state' = IF snapshot.state = "absent" THEN "absent" ELSE "failed"
  /\ Run("start", IF snapshot.state = "absent" THEN <<>> ELSE Settlement("failed"))
  /\ UNCHANGED <<disk, failures, seen>>

\* start rebuilds the record from the snapshot and settles it when it was
\* active; without a snapshot the job is forgotten.  The records that were over
\* for too long are dropped again.
Restore ==
  /\ ~ up
  /\ life < MaxLives
  /\ up' = TRUE
  /\ life' = life + 1
  /\ events' = 0
  /\ task' = "none"
  /\ sequence' = snapshot.sequence
  /\ \/ /\ snapshot.state \in Terminal \cup {"absent"}
        /\ state' \in {snapshot.state, "absent"}
        /\ UNCHANGED <<owner, todo>>
     \/ /\ snapshot.state \notin Terminal \cup {"absent"}
        /\ state' = "failed"
        /\ Run("start", Settlement("failed"))
  /\ UNCHANGED <<disk, failures, seen>>

Next ==
  \/ Create \/ Dispatch \/ StartFails \/ WorkerEvent
  \/ CancelQueued \/ CancelRunning \/ Read \/ Expire
  \/ \E s \in Terminal : Settle(s)
  \/ DoAppend \/ DoResult \/ DoLog \/ DoSnapshot \/ DoTask
  \/ WriteFails
  \/ Crash \/ Restore

Spec == Init /\ [][Next]_vars

(***************************************************************************)
(* Properties                                                              *)
(***************************************************************************)

TypeOK ==
  /\ life \in 1 .. MaxLives
  /\ up \in BOOLEAN
  /\ state \in States
  /\ sequence \in Nat
  /\ task \in {"none", "live", "lost"}
  /\ owner \in {"handler", "task", "start"}
  /\ todo \in Seq([op : {"append", "result", "log", "snapshot", "task"},
                   kind : States \cup {"progress", "none"}])
  /\ journal \in Seq([sequence : Nat, kind : States \cup {"progress"},
                      life : 1 .. MaxLives])
  /\ snapshot \in [state : States, sequence : Nat]
  /\ written \in Terminal \cup {"absent"}
  /\ events \in 0 .. MaxEvents
  /\ failures \in 0 .. MaxFailures
  /\ seen \in States

\* Whatever write fails and wherever the process dies, the state a snapshot
\* shows has its event in the journal, under the sequence the snapshot names.
SnapshotHasEvent ==
  snapshot.state # "absent" =>
    \E i \in 1 .. Len(journal) :
      /\ journal[i].kind = snapshot.state
      /\ journal[i].sequence = snapshot.sequence

\* Nor does a snapshot show a job as over before its result file does.
SnapshotHasResult ==
  snapshot.state \in Terminal => written = snapshot.state

Final == IF journal = <<>> THEN [sequence |-> 0, kind |-> "none", life |-> 1]
         ELSE journal[Len(journal)]

\* Whatever fails, readers find a journal in which sequences grow and nothing
\* follows a terminal event, and a snapshot that follows it; only a restarted
\* server adds a terminal event of its own, numbered from the snapshot, and
\* only when that did not show the job over.
File == INSTANCE EventFile WITH
  journal <- [i \in 1 .. Len(journal) |->
                [sequence |-> journal[i].sequence,
                 terminal |-> journal[i].kind \in Terminal]],
  sequence <- Final.sequence,
  saved    <- snapshot.sequence,
  terminal <- Final.kind \in Terminal
ImplementsEventFile == File!Spec

\* As long as nothing failed, a job a client has seen over is, after any crash and
\* restart, over in the same way, on disk and, until it expires, in memory.
FinishedSurvives ==
  failures = 0 /\ Idle /\ seen \in Terminal =>
    snapshot.state = seen /\ state \in {seen, "absent"}

\* A restarted server that is ready has only jobs that are over, also when a
\* start before it was cut short by a crash or a failed write: none is left
\* active without a task.
RestartSettles ==
  Idle /\ life > 1 => state \in Terminal \cup {"absent"}
=============================================================================
