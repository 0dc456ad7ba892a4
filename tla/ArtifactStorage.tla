-------------------------- MODULE ArtifactStorage --------------------------
(***************************************************************************)
(* ArtifactStorage (app/artifacts/storage.py): calls that append an event   *)
(* to one event log under its lock directory (append_json_event,            *)
(* _event_log_lock), and calls that write one artifact (_write_snapshot).   *)
(*                                                                          *)
(* A call runs in a thread of some process, and every step is one file      *)
(* system call.  Processes die between any two of them.                     *)
(***************************************************************************)
EXTENDS Naturals

CONSTANTS Writers,    \* the calls
          Processes,
          ProcessOf,  \* the process a call runs in
          Workloads,  \* what the calls may do
          Nobody

Operations == {"append", "create", "replace"}

ASSUME NobodyAssumption  == Nobody \notin Writers
ASSUME ProcessAssumption == ProcessOf \in [Writers -> Processes]
ASSUME WorkloadAssumption == Workloads \subseteq [Writers -> Operations]

VARIABLES
  op,      \* what each call does
  atomic,  \* atomic_writes_enabled
  pc,
  lock,    \* who made the lock directory, Nobody if there is none
  stale,   \* it is older than 300 s
  late,    \* calls whose 30 s have passed
  robbed,  \* history: a waiter removed the lock directory of a live call
  lines,   \* lines of each call in the event log
  temp,    \* temporary file of each call
  file     \* the artifact: who wrote it, and whether it is complete

config == <<op, atomic>>
locking == <<lock, stale, robbed>>
vars == <<op, atomic, pc, lock, stale, late, robbed, lines, temp, file>>

Inside  == {"write", "release", "abandon"}
Waiting == {"mkdir", "stat", "break"}
Ended   == {"saved", "failed", "dead"}
Places  == {"idle", "queue", "open", "publish", "unlink", "cleanup", "fill"}
             \cup Inside \cup Waiting \cup Ended

Init ==
  /\ op \in Workloads
  /\ atomic \in BOOLEAN
  /\ pc = [w \in Writers |-> "idle"]
  /\ lock = Nobody
  /\ stale = FALSE
  /\ late = {}
  /\ robbed = FALSE
  /\ lines = [w \in Writers |-> 0]
  /\ temp = [w \in Writers |-> "none"]
  /\ file = [by |-> Nobody, whole |-> TRUE]

Go(w, place) == pc' = [pc EXCEPT ![w] = place]

At(w, from, to) == pc[w] = from /\ Go(w, to)

\* The directories above the file are made first, which may fail.
Call(w) ==
  /\ \/ At(w, "idle", IF op[w] = "append" THEN "queue" ELSE "open")
     \/ At(w, "idle", "failed")
  /\ UNCHANGED <<config, locking, late, lines, temp, file>>

(***************************************************************************)
(* The lock of the event log                                               *)
(***************************************************************************)

ThreadLockFree(w) ==
  \A v \in Writers : ProcessOf[v] = ProcessOf[w] => pc[v] \notin Waiting \cup Inside

\* The deadline was computed before; this wait has no limit.
TakeThreadLock(w) ==
  /\ ThreadLockFree(w)
  /\ At(w, "queue", "mkdir")
  /\ UNCHANGED <<config, locking, late, lines, temp, file>>

\* Mutant: the lock directory may exist already (exist_ok).
MkdirExistOk(w) ==
  /\ At(w, "mkdir", "write")
  /\ lock' = w
  /\ stale' = FALSE
  /\ UNCHANGED <<config, late, robbed, lines, temp, file>>

Mkdir(w) ==
  /\ \/ /\ lock = Nobody
        /\ At(w, "mkdir", "write")
        /\ lock' = w
        /\ stale' = FALSE
     \/ /\ lock # Nobody
        /\ At(w, "mkdir", "stat")
        /\ UNCHANGED <<lock, stale>>
     \/ /\ At(w, "mkdir", "failed")  \* any other error of mkdir is raised
        /\ UNCHANGED <<lock, stale>>
  /\ UNCHANGED <<config, late, robbed, lines, temp, file>>

\* Mutant: the wait has no deadline.
GivesUpNever(w) == FALSE

GivesUp(w) == w \in late

\* Mutant: after the pause the waiter does not try again.
StatSleeps(w) ==
  /\ \/ lock # Nobody /\ stale /\ At(w, "stat", "break")
     \/ ~ (lock # Nobody /\ stale) /\ At(w, "stat", "asleep")
  /\ UNCHANGED <<config, locking, late, lines, temp, file>>

\* The directory vanished, is old, or is waited for.
Stat(w) ==
  /\ \/ lock = Nobody /\ At(w, "stat", "mkdir")
     \/ lock # Nobody /\ stale /\ At(w, "stat", "break")
     \/ lock # Nobody /\ ~ stale /\ GivesUp(w) /\ At(w, "stat", "failed")
     \/ lock # Nobody /\ ~ stale /\ ~ GivesUp(w) /\ At(w, "stat", "mkdir")
  /\ UNCHANGED <<config, locking, late, lines, temp, file>>

\* rmdir removes whatever directory is there by now.
Break(w) ==
  /\ At(w, "break", "mkdir")
  /\ robbed' = (robbed \/ (lock # Nobody /\ pc[lock] # "dead"))
  /\ lock' = Nobody
  /\ stale' = FALSE
  /\ UNCHANGED <<config, late, lines, temp, file>>

\* Mutant: a write that failed is tried again.
AppendRetries(w) ==
  /\ \/ /\ At(w, "write", "release")
        /\ lines' = [lines EXCEPT ![w] = @ + 1]
     \/ /\ pc[w] = "write" /\ lines[w] = 0
        /\ lines' = [lines EXCEPT ![w] = 1]
        /\ UNCHANGED pc
     \/ At(w, "write", "abandon") /\ UNCHANGED lines
  /\ UNCHANGED <<config, locking, late, temp, file>>

\* One write in append mode, then fsync; when this raises, the line may be
\* in the file all the same.
Append(w) ==
  /\ \/ At(w, "write", "release") /\ lines' = [lines EXCEPT ![w] = @ + 1]
     \/ At(w, "write", "abandon") /\ lines' = [lines EXCEPT ![w] = @ + 1]
     \/ At(w, "write", "abandon") /\ UNCHANGED lines
  /\ UNCHANGED <<config, locking, late, temp, file>>

\* The finally clause removes the directory, whoever made it.
Release(w) ==
  /\ At(w, "release", "saved") \/ At(w, "abandon", "failed")
  /\ lock' = Nobody
  /\ stale' = FALSE
  /\ UNCHANGED <<config, robbed, late, lines, temp, file>>

(***************************************************************************)
(* Artifacts                                                               *)
(***************************************************************************)

\* Mutant: an incomplete temporary file is published.
WriteTempUnchecked(w) ==
  /\ atomic
  /\ At(w, "open", "publish")
  /\ temp' \in [Writers -> {"none", "part", "whole"}]
  /\ \A v \in Writers \ {w} : temp'[v] = temp[v]
  /\ temp'[w] # "none"
  /\ UNCHANGED <<config, locking, late, lines, file>>

WriteTemp(w) ==
  /\ atomic
  /\ \/ At(w, "open", "publish") /\ temp' = [temp EXCEPT ![w] = "whole"]
     \/ At(w, "open", "cleanup") /\ temp' = [temp EXCEPT ![w] = "part"]
     \/ At(w, "open", "cleanup") /\ UNCHANGED temp
  /\ UNCHANGED <<config, locking, late, lines, file>>

MayCreate(w) == op[w] = "replace" \/ file.by = Nobody

\* link refuses an existing artifact, replace does not; both may fail.
Publish(w) ==
  /\ \/ /\ MayCreate(w)
        /\ At(w, "publish", IF op[w] = "create" THEN "unlink" ELSE "saved")
        /\ file' = [by |-> w, whole |-> temp[w] = "whole"]
        /\ temp' = IF op[w] = "create" THEN temp ELSE [temp EXCEPT ![w] = "none"]
     \/ At(w, "publish", "cleanup") /\ UNCHANGED <<file, temp>>
  /\ UNCHANGED <<config, locking, late, lines>>

Unlink(w) ==
  /\ \/ At(w, "unlink", "saved") /\ temp' = [temp EXCEPT ![w] = "none"]
     \/ At(w, "unlink", "cleanup") /\ UNCHANGED temp
  /\ UNCHANGED <<config, locking, late, lines, file>>

\* The finally clause on the way of an exception; unlinking may fail again.
Cleanup(w) ==
  /\ At(w, "cleanup", "failed")
  /\ temp' \in {temp, [temp EXCEPT ![w] = "none"]}
  /\ UNCHANGED <<config, locking, late, lines, file>>

\* Without atomic writes the artifact itself is opened, and then filled.
OpenDirectly(w) ==
  /\ ~ atomic
  /\ \/ /\ MayCreate(w)
        /\ At(w, "open", "fill")
        /\ file' = [by |-> w, whole |-> FALSE]
     \/ At(w, "open", "failed") /\ UNCHANGED file
  /\ UNCHANGED <<config, locking, late, lines, temp>>

FillDirectly(w) ==
  /\ \/ At(w, "fill", "saved") /\ file' = [file EXCEPT !.whole = TRUE]
     \/ At(w, "fill", "failed") /\ UNCHANGED file
  /\ UNCHANGED <<config, locking, late, lines, temp>>

(***************************************************************************)
(* The environment                                                         *)
(***************************************************************************)

\* The process dies: the lock directory and temporary files stay.
Crash(p) ==
  /\ \E w \in Writers : ProcessOf[w] = p /\ pc[w] \notin Ended
  /\ pc' = [w \in Writers |->
              IF ProcessOf[w] = p /\ pc[w] \notin Ended THEN "dead" ELSE pc[w]]
  /\ UNCHANGED <<config, locking, late, lines, temp, file>>

DeadlinePasses(w) ==
  /\ pc[w] \in {"queue"} \cup Waiting
  /\ w \notin late
  /\ late' = late \cup {w}
  /\ UNCHANGED <<config, pc, locking, lines, temp, file>>

LockAges ==
  /\ lock # Nobody
  /\ ~ stale
  /\ stale' = TRUE
  /\ UNCHANGED <<config, pc, lock, robbed, late, lines, temp, file>>

Step(w) ==
  \/ TakeThreadLock(w) \/ Mkdir(w) \/ Stat(w) \/ Break(w) \/ Append(w)
  \/ Release(w) \/ WriteTemp(w) \/ Publish(w) \/ Unlink(w) \/ Cleanup(w)
  \/ OpenDirectly(w) \/ FillDirectly(w)

Next ==
  \/ \E w \in Writers : Call(w) \/ Step(w) \/ DeadlinePasses(w)
  \/ \E p \in Processes : Crash(p)
  \/ LockAges

\* Threads run, file system calls return and time passes.
Fairness == \A w \in Writers : WF_vars(Step(w)) /\ WF_vars(DeadlinePasses(w))

Spec     == Init /\ [][Next]_vars
FairSpec == Spec /\ Fairness

(***************************************************************************)
(* Properties                                                              *)
(***************************************************************************)

TypeOK ==
  /\ op \in [Writers -> Operations]
  /\ atomic \in BOOLEAN
  /\ pc \in [Writers -> Places]
  /\ lock \in Writers \cup {Nobody}
  /\ stale \in BOOLEAN
  /\ late \subseteq Writers
  /\ robbed \in BOOLEAN
  /\ lines \in [Writers -> Nat]
  /\ temp \in [Writers -> {"none", "part", "whole"}]
  /\ file \in [by : Writers \cup {Nobody}, whole : BOOLEAN]

\* Two calls are never inside the lock together, unless they are of different
\* processes and a waiter has removed the lock directory of a live call; until
\* then the directory is that of the call inside, and on no path - failed
\* writes, timeouts, broken locks of dead processes - is it left behind by a
\* call that lives.
Exclusion ==
  /\ \A w, v \in Writers :
       w # v /\ pc[w] \in Inside /\ pc[v] \in Inside =>
         robbed /\ ProcessOf[w] # ProcessOf[v]
  /\ ~ robbed =>
       /\ \A w \in Writers : pc[w] \in Inside => lock = w
       /\ lock # Nobody => pc[lock] \in Inside \cup {"dead"}

\* With atomic writes nobody ever reads half an artifact, also after a failed
\* write or a crash; and an artifact that was reported as saved is there until
\* a call that may replace it does.
ArtifactIntact ==
  /\ atomic => file.whole
  /\ \A w \in Writers :
       op[w] # "append" /\ pc[w] = "saved" =>
         /\ file.by # Nobody
         /\ file.by = w \/ op[file.by] = "replace"

\* Every call returns or raises, although the lock it waits for may belong to
\* a process that died.
EveryCallEnds == \A w \in Writers : pc[w] # "idle" ~> pc[w] \in Ended

\* What the caller knows of a call at this place, and whether it has taken effect.
StatusAt(place) ==
  CASE place \in {"idle"} \cup Ended             -> place
    [] place \in {"release", "unlink", "fill"} -> "effective"
    [] place \in {"abandon", "cleanup"}        -> "failing"
    [] OTHER                                   -> "open"

\* Half an artifact is no artifact, where writes are to be atomic.
Readable == IF atomic => file.whole THEN file.by ELSE Nobody

Store == INSTANCE ArtifactStore
  WITH status <- [w \in Writers |-> StatusAt(pc[w])], log <- lines, artifact <- Readable

\* Whatever fails, dies or is removed meanwhile, and however the steps of the
\* calls interleave, a call takes effect at most once, in one instant between
\* its start and its answer; it is reported as saved only if it did; and none
\* but a replacing call writes over an artifact that is there.
ImplementsStore == Store!Spec
=============================================================================
