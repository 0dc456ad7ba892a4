----------------------- MODULE ArtifactStorageProofs -----------------------
(***************************************************************************)
(* Proofs for ArtifactStorage: the lock excludes until a live call is       *)
(* robbed of it, events are logged once, and artifacts stay intact.         *)
(***************************************************************************)
EXTENDS ArtifactStorage, TLAPS

USE NobodyAssumption, ProcessAssumption, WorkloadAssumption

LEMMA TypingInductive == TypeOK /\ [Next]_vars => TypeOK'
<1> SUFFICES ASSUME TypeOK, [Next]_vars PROVE TypeOK'
  OBVIOUS
<1> USE DEF TypeOK, Places, Inside, Waiting, Ended, Operations, config, locking, At, Go
<1>1. ASSUME NEW w \in Writers, Call(w) PROVE TypeOK'
  BY <1>1 DEF Call
<1>2. ASSUME NEW w \in Writers, TakeThreadLock(w) \/ Stat(w) PROVE TypeOK'
  BY <1>2 DEF TakeThreadLock, Stat
<1>3. ASSUME NEW w \in Writers, Mkdir(w) \/ Break(w) \/ Release(w) PROVE TypeOK'
  <2>1. pc' \in [Writers -> Places] /\ lock' \in Writers \cup {Nobody}
    BY <1>3 DEF Mkdir, Break, Release
  <2>2. stale' \in BOOLEAN
    BY <1>3 DEF Mkdir, Break, Release
  <2>3. robbed' \in BOOLEAN
    BY <1>3, Zenon DEF Mkdir, Break, Release
  <2> QED
    BY <1>3, <2>1, <2>2, <2>3 DEF Mkdir, Break, Release
<1>4. ASSUME NEW w \in Writers, Append(w) PROVE TypeOK'
  BY <1>4 DEF Append
<1>5. ASSUME NEW w \in Writers, WriteTemp(w) PROVE TypeOK'
  BY <1>5 DEF WriteTemp
<1>6. ASSUME NEW w \in Writers, Publish(w) PROVE TypeOK'
  <2>1. pc' \in [Writers -> Places] /\ temp' \in [Writers -> {"none", "part", "whole"}]
    BY <1>6 DEF Publish
  <2>2. file' \in [by : Writers \cup {Nobody}, whole : BOOLEAN]
    <3>1. [by |-> w, whole |-> temp[w] = "whole"]
             \in [by : Writers \cup {Nobody}, whole : BOOLEAN]
      BY Zenon
    <3> QED
      BY <1>6, <3>1, Zenon DEF Publish
  <2> QED
    BY <1>6, <2>1, <2>2 DEF Publish
<1>7. ASSUME NEW w \in Writers, Unlink(w) PROVE TypeOK'
  BY <1>7 DEF Unlink
<1>8. ASSUME NEW w \in Writers, Cleanup(w) PROVE TypeOK'
  BY <1>8 DEF Cleanup
<1>9. ASSUME NEW w \in Writers, OpenDirectly(w) PROVE TypeOK'
  <2>1. file' \in [by : Writers \cup {Nobody}, whole : BOOLEAN]
    <3>1. file' = file \/ file' = [by |-> w, whole |-> FALSE]
      BY <1>9 DEF OpenDirectly
    <3>2. [by |-> w, whole |-> FALSE] \in [by : Writers \cup {Nobody}, whole : BOOLEAN]
      BY Zenon
    <3> QED
      BY <3>1, <3>2, Zenon
  <2> QED
    BY <1>9, <2>1 DEF OpenDirectly
<1>10. ASSUME NEW w \in Writers, FillDirectly(w) PROVE TypeOK'
  BY <1>10 DEF FillDirectly
<1>11. ASSUME NEW p \in Processes, Crash(p) PROVE TypeOK'
  BY <1>11 DEF Crash
<1>12. ASSUME NEW w \in Writers, DeadlinePasses(w) PROVE TypeOK'
  BY <1>12 DEF DeadlinePasses
<1>13. ASSUME LockAges PROVE TypeOK'
  BY <1>13 DEF LockAges
<1>14. ASSUME UNCHANGED vars PROVE TypeOK'
  BY <1>14 DEF vars
<1> QED
  BY <1>1, <1>2, <1>3, <1>4, <1>5, <1>6, <1>7, <1>8, <1>9, <1>10, <1>11, <1>12, <1>13,
     <1>14 DEF Next, Step

\* Every variable keeps its type, for any set of calls and processes.
THEOREM Typing == Spec => []TypeOK
<1>1. Init => TypeOK
  <2> SUFFICES ASSUME Init PROVE TypeOK
    OBVIOUS
  <2>1. file \in [by : Writers \cup {Nobody}, whole : BOOLEAN]
    BY Zenon DEF Init
  <2>2. op \in [Writers -> Operations]
    BY DEF Init
  <2> QED
    BY <2>1, <2>2 DEF Init, TypeOK, Places
<1> QED
  BY <1>1, TypingInductive, PTL DEF Spec

(***************************************************************************)
(* The lock                                                                *)
(***************************************************************************)

\* The thread lock: one call of a process waits or is inside.
ThreadsApart ==
  \A w, v \in Writers :
    w # v /\ ProcessOf[w] = ProcessOf[v] /\ pc[w] \in Waiting \cup Inside =>
      pc[v] \notin Waiting \cup Inside

\* Until a live call is robbed the directory is that of the call inside, or of
\* a dead one.
DirectoryHeld ==
  ~ robbed =>
    /\ \A w \in Writers : pc[w] \in Inside => lock = w
    /\ lock # Nobody => pc[lock] \in Inside \cup {"dead"}

\* Steps outside the lock move calls among the other places.
OutsideMove ==
  /\ UNCHANGED <<lock, robbed>>
  /\ \A w \in Writers :
       /\ pc'[w] \in Waiting \cup Inside => pc[w] \in Waiting \cup Inside
       /\ pc'[w] \in Inside => pc[w] \in Inside
       /\ pc[w] \in Inside => pc'[w] \in Inside \cup {"dead"}
       /\ pc[w] = "dead" => pc'[w] = "dead"

LEMMA OutsideMoves ==
  ASSUME TypeOK, ThreadsApart, DirectoryHeld, OutsideMove
  PROVE  ThreadsApart' /\ DirectoryHeld'
<1>1. ThreadsApart'
  BY DEF ThreadsApart, OutsideMove
<1>2. DirectoryHeld'
  BY DEF TypeOK, DirectoryHeld, OutsideMove
<1> QED
  BY <1>1, <1>2

LEMMA SnapshotMoves ==
  ASSUME TypeOK, NEW w \in Writers,
         \/ Call(w) \/ WriteTemp(w) \/ Publish(w) \/ Unlink(w) \/ Cleanup(w)
         \/ OpenDirectly(w) \/ FillDirectly(w)
  PROVE  OutsideMove
<1> USE DEF TypeOK, OutsideMove, Inside, Waiting, At, Go, locking
<1>1. CASE Call(w)
  BY <1>1 DEF Call
<1>2. CASE WriteTemp(w) \/ Unlink(w) \/ Cleanup(w)
  BY <1>2 DEF WriteTemp, Unlink, Cleanup
<1>3. CASE Publish(w)
  BY <1>3 DEF Publish
<1>4. CASE OpenDirectly(w) \/ FillDirectly(w)
  BY <1>4 DEF OpenDirectly, FillDirectly
<1> QED
  BY <1>1, <1>2, <1>3, <1>4

LEMMA LockInductive ==
  TypeOK /\ ThreadsApart /\ DirectoryHeld /\ [Next]_vars => ThreadsApart' /\ DirectoryHeld'
<1> SUFFICES ASSUME TypeOK, ThreadsApart, DirectoryHeld, [Next]_vars
             PROVE  ThreadsApart' /\ DirectoryHeld'
  OBVIOUS
<1> USE DEF Inside, Waiting, At, Go
<1>1. ASSUME NEW w \in Writers, TakeThreadLock(w) PROVE ThreadsApart' /\ DirectoryHeld'
  <2>1. ThreadsApart'
    BY <1>1 DEF TakeThreadLock, ThreadLockFree, ThreadsApart, TypeOK
  <2>2. DirectoryHeld'
    BY <1>1 DEF TakeThreadLock, DirectoryHeld, TypeOK, locking
  <2> QED
    BY <2>1, <2>2
<1>2. ASSUME NEW w \in Writers, Mkdir(w) PROVE ThreadsApart' /\ DirectoryHeld'
  <2>1. ThreadsApart'
    BY <1>2 DEF Mkdir, ThreadsApart, TypeOK
  <2>2. DirectoryHeld'
    BY <1>2 DEF Mkdir, DirectoryHeld, TypeOK
  <2> QED
    BY <2>1, <2>2
<1>3. ASSUME NEW w \in Writers, Stat(w) PROVE ThreadsApart' /\ DirectoryHeld'
  <2>1. OutsideMove
    BY <1>3 DEF Stat, OutsideMove, TypeOK, locking
  <2> QED
    BY <2>1, OutsideMoves
<1>4. ASSUME NEW w \in Writers, Break(w) PROVE ThreadsApart' /\ DirectoryHeld'
  <2>1. ThreadsApart'
    BY <1>4 DEF Break, ThreadsApart, TypeOK
  <2>2. DirectoryHeld'
    BY <1>4 DEF Break, DirectoryHeld, TypeOK
  <2> QED
    BY <2>1, <2>2
<1>5. ASSUME NEW w \in Writers, Append(w) PROVE ThreadsApart' /\ DirectoryHeld'
  <2>1. OutsideMove
    BY <1>5 DEF Append, OutsideMove, TypeOK, locking
  <2> QED
    BY <2>1, OutsideMoves
<1>6. ASSUME NEW w \in Writers, Release(w) PROVE ThreadsApart' /\ DirectoryHeld'
  <2>1. ThreadsApart'
    BY <1>6 DEF Release, ThreadsApart, TypeOK
  <2>2. DirectoryHeld'
    BY <1>6 DEF Release, DirectoryHeld, TypeOK
  <2> QED
    BY <2>1, <2>2
<1>7. ASSUME NEW p \in Processes, Crash(p) PROVE ThreadsApart' /\ DirectoryHeld'
  <2>1. OutsideMove
    BY <1>7 DEF Crash, OutsideMove, TypeOK, locking, Ended
  <2> QED
    BY <2>1, OutsideMoves
<1>8. ASSUME \/ \E w \in Writers : DeadlinePasses(w)
             \/ LockAges
             \/ UNCHANGED vars
      PROVE  ThreadsApart' /\ DirectoryHeld'
  <2>1. OutsideMove
    BY <1>8 DEF DeadlinePasses, LockAges, vars, OutsideMove, locking
  <2> QED
    BY <2>1, OutsideMoves
<1> QED
  BY <1>1, <1>2, <1>3, <1>4, <1>5, <1>6, <1>7, <1>8, SnapshotMoves, OutsideMoves
  DEF Next, Step

LEMMA LockExcludes == ThreadsApart /\ DirectoryHeld => Exclusion
BY DEF ThreadsApart, DirectoryHeld, Exclusion, Inside

\* Two calls are inside the lock together only after a waiter removed the
\* directory of a live call, and never two threads of one process.
THEOREM LockHeld == Spec => []Exclusion
<1>1. Init => ThreadsApart /\ DirectoryHeld
  BY DEF Init, ThreadsApart, DirectoryHeld, Inside, Waiting
<1> QED
  BY <1>1, LockInductive, LockExcludes, Typing, PTL DEF Spec

(***************************************************************************)
(* The event log                                                           *)
(***************************************************************************)

LogPlaces      == {"idle", "queue"} \cup Waiting \cup Inside \cup Ended
ArtifactPlaces == {"idle", "open", "publish", "unlink", "cleanup", "fill"} \cup Ended

\* A call is where its operation can be.
PlacesFit ==
  \A w \in Writers :
    pc[w] \in IF op[w] = "append" THEN LogPlaces ELSE ArtifactPlaces

\* Whether a call has written its line is known from where it is.
LinesFit ==
  \A w \in Writers :
    /\ lines[w] <= 1
    /\ pc[w] \in {"idle", "queue", "write"} \cup Waiting => lines[w] = 0
    /\ pc[w] = "release" => lines[w] = 1
    /\ op[w] = "append" /\ pc[w] = "saved" => lines[w] = 1

LEMMA LogInductive ==
  TypeOK /\ PlacesFit /\ LinesFit /\ [Next]_vars => PlacesFit' /\ LinesFit'
<1> SUFFICES ASSUME TypeOK, PlacesFit, LinesFit, [Next]_vars
             PROVE  PlacesFit' /\ LinesFit'
  OBVIOUS
<1> USE DEF TypeOK, LogPlaces, ArtifactPlaces, Inside, Waiting, Ended, Operations,
            config, locking, At, Go
<1>1. ASSUME NEW w \in Writers, Call(w) \/ TakeThreadLock(w) \/ Mkdir(w) \/ Stat(w)
      PROVE  PlacesFit' /\ LinesFit'
  <2>1. PlacesFit'
    BY <1>1 DEF Call, TakeThreadLock, Mkdir, Stat, PlacesFit
  <2>2. LinesFit'
    BY <1>1 DEF Call, TakeThreadLock, Mkdir, Stat, LinesFit
  <2> QED
    BY <2>1, <2>2
<1>2. ASSUME NEW w \in Writers, Append(w) PROVE PlacesFit' /\ LinesFit'
  <2>1. PlacesFit'
    BY <1>2 DEF Append, PlacesFit
  <2>2. lines[w] = 0
    BY <1>2 DEF Append, LinesFit
  <2>3. LinesFit'
    BY <1>2, <2>2 DEF Append, LinesFit
  <2> QED
    BY <2>1, <2>3
<1>3. ASSUME NEW w \in Writers, Break(w) \/ Release(w) PROVE PlacesFit' /\ LinesFit'
  <2>1. PlacesFit'
    BY <1>3 DEF Break, Release, PlacesFit
  <2>2. LinesFit'
    BY <1>3 DEF Break, Release, LinesFit
  <2> QED
    BY <2>1, <2>2
<1>4. ASSUME NEW w \in Writers,
             \/ WriteTemp(w) \/ Publish(w) \/ Unlink(w) \/ Cleanup(w)
             \/ OpenDirectly(w) \/ FillDirectly(w)
      PROVE  PlacesFit' /\ LinesFit'
  <2>1. op[w] # "append"
    BY <1>4 DEF WriteTemp, Publish, Unlink, Cleanup, OpenDirectly, FillDirectly, PlacesFit
  <2>2. /\ UNCHANGED <<op, lines>>
        /\ pc' = [pc EXCEPT ![w] = pc'[w]]
        /\ pc'[w] \in ArtifactPlaces \ {"idle"}
    <3>1. CASE WriteTemp(w) \/ Unlink(w) \/ Cleanup(w)
      BY <3>1 DEF WriteTemp, Unlink, Cleanup
    <3>2. CASE Publish(w)
      BY <3>2 DEF Publish
    <3>3. CASE OpenDirectly(w) \/ FillDirectly(w)
      BY <3>3 DEF OpenDirectly, FillDirectly
    <3> QED
      BY <1>4, <3>1, <3>2, <3>3
  <2>3. PlacesFit'
    BY <2>1, <2>2 DEF PlacesFit
  <2>4. LinesFit'
    BY <2>1, <2>2 DEF LinesFit
  <2> QED
    BY <2>3, <2>4
<1>5. ASSUME NEW p \in Processes, Crash(p) PROVE PlacesFit' /\ LinesFit'
  <2>1. PlacesFit'
    BY <1>5 DEF Crash, PlacesFit
  <2>2. LinesFit'
    BY <1>5 DEF Crash, LinesFit
  <2> QED
    BY <2>1, <2>2
<1>6. ASSUME \/ \E w \in Writers : DeadlinePasses(w)
             \/ LockAges
             \/ UNCHANGED vars
      PROVE  PlacesFit' /\ LinesFit'
  BY <1>6 DEF DeadlinePasses, LockAges, vars, PlacesFit, LinesFit
<1> QED
  BY <1>1, <1>2, <1>3, <1>4, <1>5, <1>6 DEF Next, Step

LEMMA LogFits == Spec => [](PlacesFit /\ LinesFit)
<1>1. Init => PlacesFit /\ LinesFit
  BY DEF Init, PlacesFit, LinesFit, LogPlaces, ArtifactPlaces, Inside, Waiting, Ended
<1> QED
  BY <1>1, LogInductive, Typing, PTL DEF Spec

\* An event is in the log once when its call says so, and never twice,
\* whatever fails, dies or is removed meanwhile.
SavedOnce ==
  \A w \in Writers :
    /\ lines[w] <= 1
    /\ op[w] = "append" /\ pc[w] = "saved" => lines[w] = 1

\* However writes fail, processes die and locks are broken, no event is logged
\* twice, and one whose call returned is in the log.
THEOREM EventsSavedOnce == Spec => []SavedOnce
<1>1. LinesFit => SavedOnce
  BY DEF LinesFit, SavedOnce
<1> QED
  BY <1>1, LogFits, PTL

(***************************************************************************)
(* The artifact                                                            *)
(***************************************************************************)

\* What a call is about to publish is complete, and the artifact it has
\* published is its own or that of a call that may replace it.
FileFits ==
  /\ atomic => file.whole
  /\ \A w \in Writers :
       /\ pc[w] = "publish" => atomic /\ temp[w] = "whole"
       /\ pc[w] = "fill" => ~ atomic
       /\ op[w] # "append" /\ pc[w] \in {"saved", "unlink", "fill"} =>
            /\ file.by # Nobody
            /\ file.by = w \/ op[file.by] = "replace"

LEMMA FileInductive ==
  TypeOK /\ PlacesFit /\ FileFits /\ [Next]_vars => FileFits'
<1> SUFFICES ASSUME TypeOK, PlacesFit, FileFits, [Next]_vars PROVE FileFits'
  OBVIOUS
<1> USE DEF TypeOK, Operations, config, locking, At, Go
<1>1. ASSUME NEW w \in Writers, WriteTemp(w) PROVE FileFits'
  BY <1>1 DEF WriteTemp, FileFits
<1>2. ASSUME NEW w \in Writers, Publish(w) PROVE FileFits'
  <2>1. CASE UNCHANGED <<file, temp>> /\ pc' = [pc EXCEPT ![w] = "cleanup"]
    BY <1>2, <2>1 DEF Publish, FileFits
  <2>2. CASE /\ MayCreate(w)
             /\ file' = [by |-> w, whole |-> temp[w] = "whole"]
             /\ pc' = [pc EXCEPT ![w] = IF op[w] = "create" THEN "unlink" ELSE "saved"]
             /\ temp' = IF op[w] = "create" THEN temp ELSE [temp EXCEPT ![w] = "none"]
    <3>1. temp[w] = "whole" /\ pc[w] = "publish"
      BY <1>2 DEF Publish, FileFits
    <3>2. file'.by = w /\ file'.whole
      BY <2>2, <3>1
    <3>3. op' = op /\ atomic' = atomic
      BY <1>2 DEF Publish
    <3>4. ASSUME NEW v \in Writers
          PROVE  /\ pc'[v] = "publish" => atomic /\ temp'[v] = "whole"
                 /\ pc'[v] = "fill" => ~ atomic
      BY <2>2, <3>1 DEF FileFits
    <3>5. ASSUME NEW v \in Writers, op[v] # "append", pc'[v] \in {"saved", "unlink", "fill"}
          PROVE  v = w \/ op[w] = "replace"
      BY <2>2, <3>5 DEF FileFits, MayCreate
    <3> QED
      BY <3>2, <3>3, <3>4, <3>5 DEF FileFits
  <2> QED
    BY <1>2, <2>1, <2>2 DEF Publish
<1>3. ASSUME NEW w \in Writers, Unlink(w) \/ Cleanup(w) PROVE FileFits'
  BY <1>3 DEF Unlink, Cleanup, FileFits
<1>4. ASSUME NEW w \in Writers, OpenDirectly(w) PROVE FileFits'
  <2>1. CASE UNCHANGED file /\ pc' = [pc EXCEPT ![w] = "failed"]
    BY <1>4, <2>1 DEF OpenDirectly, FileFits
  <2>2. CASE /\ MayCreate(w)
             /\ file' = [by |-> w, whole |-> FALSE]
             /\ pc' = [pc EXCEPT ![w] = "fill"]
    <3>1. UNCHANGED <<op, atomic, temp>> /\ ~ atomic
      BY <1>4 DEF OpenDirectly
    <3>2. ASSUME NEW v \in Writers, op[v] # "append", pc'[v] \in {"saved", "unlink", "fill"}
          PROVE  v = w \/ op[w] = "replace"
      BY <2>2, <3>2 DEF FileFits, MayCreate
    <3>3. file'.by = w
      BY <2>2
    <3>4. ASSUME NEW v \in Writers
          PROVE  pc'[v] = "publish" => atomic /\ temp'[v] = "whole"
      BY <2>2, <3>1 DEF FileFits
    <3> QED
      BY <3>1, <3>2, <3>3, <3>4 DEF FileFits
  <2> QED
    BY <1>4, <2>1, <2>2 DEF OpenDirectly
<1>5. ASSUME NEW w \in Writers, FillDirectly(w) PROVE FileFits'
  <2>1. ~ atomic /\ UNCHANGED <<op, atomic, temp>> /\ file'.by = file.by
    BY <1>5 DEF FillDirectly, FileFits
  <2> QED
    BY <1>5, <2>1 DEF FillDirectly, FileFits
<1>6. ASSUME NEW w \in Writers,
             \/ Call(w) \/ TakeThreadLock(w) \/ Mkdir(w) \/ Stat(w)
             \/ Break(w) \/ Append(w) \/ Release(w)
      PROVE  FileFits'
  <2>1. UNCHANGED <<op, atomic, temp, file>>
    BY <1>6 DEF Call, TakeThreadLock, Mkdir, Stat, Break, Append, Release
  <2>2. /\ pc' = [pc EXCEPT ![w] = pc'[w]]
        /\ pc'[w] \notin {"publish", "fill", "unlink"}
        /\ pc'[w] = "saved" => op[w] = "append"
    <3>1. CASE Call(w) \/ TakeThreadLock(w) \/ Mkdir(w) \/ Stat(w) \/ Break(w)
      BY <3>1 DEF Call, TakeThreadLock, Mkdir, Stat, Break
    <3>2. CASE Append(w)
      BY <3>2 DEF Append
    <3>3. CASE Release(w)
      BY <3>3 DEF Release, PlacesFit, ArtifactPlaces, Ended
    <3> QED
      BY <1>6, <3>1, <3>2, <3>3
  <2> QED
    BY <2>1, <2>2 DEF FileFits
<1>7. ASSUME NEW p \in Processes, Crash(p) PROVE FileFits'
  BY <1>7 DEF Crash, FileFits, Ended
<1>8. ASSUME \/ \E w \in Writers : DeadlinePasses(w)
             \/ LockAges
             \/ UNCHANGED vars
      PROVE  FileFits'
  BY <1>8 DEF DeadlinePasses, LockAges, vars, FileFits
<1> QED
  BY <1>1, <1>2, <1>3, <1>4, <1>5, <1>6, <1>7, <1>8 DEF Next, Step

LEMMA FilesFit == Spec => []FileFits
<1>1. Init /\ TypeOK => FileFits
  BY DEF Init, FileFits, TypeOK
<1> QED
  BY <1>1, FileInductive, LogFits, Typing, PTL DEF Spec

\* With atomic writes the artifact is never half written, and without them too
\* what was saved is there until a call that may replace it writes.
THEOREM ArtifactsIntact == Spec => []ArtifactIntact
<1>1. FileFits => ArtifactIntact
  BY DEF FileFits, ArtifactIntact
<1> QED
  BY <1>1, FilesFit, PTL

(***************************************************************************)
(* The store that callers see                                              *)
(***************************************************************************)

LEMMA Statuses ==
  /\ \A place \in {"idle", "saved", "failed", "dead"} : StatusAt(place) = place
  /\ \A place \in {"queue", "mkdir", "stat", "break", "write", "open", "publish"} :
       StatusAt(place) = "open"
  /\ \A place \in {"release", "unlink", "fill"} : StatusAt(place) = "effective"
  /\ \A place \in {"abandon", "cleanup"} : StatusAt(place) = "failing"
BY DEF StatusAt, Ended

\* A move of one call is a move of its status.
LEMMA MoveTurns ==
  ASSUME TypeOK, UNCHANGED op, NEW w \in Writers, NEW from, NEW to, At(w, from, to),
         NEW F, NEW T, StatusAt(from) \in F, StatusAt(to) \in T
  PROVE  Store!Turns(w, F, T)
<1>1. [v \in Writers |-> StatusAt(pc[v])][w] \in F
  BY DEF At
<1>2. [v \in Writers |-> StatusAt(pc'[v])]
        = [[v \in Writers |-> StatusAt(pc[v])] EXCEPT ![w] = StatusAt(to)]
  BY DEF At, Go, TypeOK
<1> QED
  BY <1>1, <1>2 DEF Store!Turns

\* A move between places of the same status is none.
LEMMA MoveStays ==
  ASSUME TypeOK, NEW w \in Writers, NEW from, NEW to, At(w, from, to),
         StatusAt(from) = StatusAt(to)
  PROVE  [v \in Writers |-> StatusAt(pc'[v])] = [v \in Writers |-> StatusAt(pc[v])]
BY DEF At, Go, TypeOK

LEMMA LogServes ==
  ASSUME TypeOK, PlacesFit, NEW w \in Writers,
         TakeThreadLock(w) \/ Mkdir(w) \/ Stat(w) \/ Break(w) \/ Append(w) \/ Release(w)
  PROVE  Store!TakeEffect(w) \/ Store!Answer(w) \/ UNCHANGED Store!storeVars
<1>1. UNCHANGED <<op, atomic, file>> /\ UNCHANGED Readable
  BY DEF TakeThreadLock, Mkdir, Stat, Break, Append, Release, config, Readable
<1>2. CASE TakeThreadLock(w) \/ Break(w)
  <2>1. UNCHANGED lines /\ (At(w, "queue", "mkdir") \/ At(w, "break", "mkdir"))
    BY <1>2 DEF TakeThreadLock, Break
  <2> QED
    BY <1>1, <2>1, MoveStays, Statuses DEF Store!storeVars
<1>3. CASE Mkdir(w) \/ Stat(w)
  <2>1. /\ UNCHANGED lines
        /\ \/ At(w, "mkdir", "write") \/ At(w, "mkdir", "stat")
           \/ At(w, "stat", "mkdir") \/ At(w, "stat", "break")
           \/ At(w, "mkdir", "failed") \/ At(w, "stat", "failed")
    BY <1>3 DEF Mkdir, Stat
  <2>2. CASE \/ At(w, "mkdir", "write") \/ At(w, "mkdir", "stat")
             \/ At(w, "stat", "mkdir") \/ At(w, "stat", "break")
    BY <1>1, <2>1, <2>2, MoveStays, Statuses DEF Store!storeVars
  <2>3. CASE At(w, "mkdir", "failed") \/ At(w, "stat", "failed")
    <3>1. Store!Turns(w, {"open", "effective"}, {"failing", "failed"})
      BY <1>1, <2>3, MoveTurns, Statuses
    <3> QED
      BY <1>1, <2>1, <3>1 DEF Store!Answer
  <2> QED
    BY <2>1, <2>2, <2>3
<1>4. CASE Append(w)
  <2>1. CASE /\ At(w, "write", "release") \/ At(w, "write", "abandon")
             /\ lines' = [lines EXCEPT ![w] = @ + 1]
    <3>1. Store!Turns(w, {"open"}, {"effective", "saved", "failing"})
      BY <1>1, <2>1, MoveTurns, Statuses
    <3>2. op[w] = "append"
      BY <2>1 DEF PlacesFit, ArtifactPlaces, Ended, At
    <3> QED
      BY <1>1, <2>1, <3>1, <3>2 DEF Store!TakeEffect
  <2>2. CASE At(w, "write", "abandon") /\ UNCHANGED lines
    <3>1. Store!Turns(w, {"open", "effective"}, {"failing", "failed"})
      BY <1>1, <2>2, MoveTurns, Statuses
    <3> QED
      BY <1>1, <2>2, <3>1 DEF Store!Answer
  <2> QED
    BY <1>4, <2>1, <2>2 DEF Append
<1>5. CASE Release(w)
  <2>1. UNCHANGED lines /\ (At(w, "release", "saved") \/ At(w, "abandon", "failed"))
    BY <1>5 DEF Release
  <2>2. \/ Store!Turns(w, {"effective"}, {"saved"})
        \/ Store!Turns(w, {"failing"}, {"failed"})
    BY <1>1, <2>1, MoveTurns, Statuses
  <2> QED
    BY <1>1, <2>1, <2>2 DEF Store!Answer
<1> QED
  BY <1>2, <1>3, <1>4, <1>5

\* Writing over the artifact is the instant of the effect.
LEMMA WriteServes ==
  ASSUME TypeOK, FileFits, UNCHANGED <<op, atomic, lines>>, NEW w \in Writers, MayCreate(w),
         op[w] # "append", NEW from, NEW to, At(w, from, to),
         StatusAt(from) = "open", StatusAt(to) \in {"effective", "saved"},
         file'.by = w, atomic => file'.whole
  PROVE  Store!TakeEffect(w)
<1>1. Store!Turns(w, {"open"}, {"effective", "saved", "failing"})
  BY MoveTurns
<1>2. Readable' = w /\ Readable = file.by
  BY DEF Readable, FileFits
<1>3. op[w] = "replace" \/ Readable = Nobody
  BY <1>2 DEF MayCreate
<1> QED
  BY <1>1, <1>2, <1>3 DEF Store!TakeEffect

LEMMA ArtifactServes ==
  ASSUME TypeOK, PlacesFit, FileFits, NEW w \in Writers,
         \/ WriteTemp(w) \/ Publish(w) \/ Unlink(w) \/ Cleanup(w)
         \/ OpenDirectly(w) \/ FillDirectly(w)
  PROVE  Store!TakeEffect(w) \/ Store!Answer(w) \/ UNCHANGED Store!storeVars
<1>1. UNCHANGED <<op, atomic, lines>>
  BY DEF WriteTemp, Publish, Unlink, Cleanup, OpenDirectly, FillDirectly, config
<1>2. CASE WriteTemp(w)
  <2>1. UNCHANGED Readable /\ (At(w, "open", "publish") \/ At(w, "open", "cleanup"))
    BY <1>1, <1>2 DEF WriteTemp, Readable
  <2>2. CASE At(w, "open", "publish")
    BY <1>1, <2>1, <2>2, MoveStays, Statuses DEF Store!storeVars
  <2>3. CASE At(w, "open", "cleanup")
    <3>1. Store!Turns(w, {"open", "effective"}, {"failing", "failed"})
      BY <1>1, <2>3, MoveTurns, Statuses
    <3> QED
      BY <1>1, <2>1, <3>1 DEF Store!Answer
  <2> QED
    BY <2>1, <2>2, <2>3
<1>3. CASE Publish(w)
  <2>1. CASE /\ MayCreate(w)
             /\ At(w, "publish", IF op[w] = "create" THEN "unlink" ELSE "saved")
             /\ file' = [by |-> w, whole |-> temp[w] = "whole"]
    <3>1. op[w] # "append" /\ temp[w] = "whole"
      BY <2>1 DEF At, PlacesFit, LogPlaces, Inside, Waiting, Ended, FileFits
    <3>2. file'.by = w /\ file'.whole
      BY <2>1, <3>1
    <3>3. /\ StatusAt("publish") = "open"
          /\ StatusAt(IF op[w] = "create" THEN "unlink" ELSE "saved") \in {"effective", "saved"}
      BY Statuses
    <3> QED
      BY <1>1, <2>1, <3>1, <3>2, <3>3, WriteServes
  <2>2. CASE At(w, "publish", "cleanup") /\ UNCHANGED file
    <3>1. Store!Turns(w, {"open", "effective"}, {"failing", "failed"})
      BY <1>1, <2>2, MoveTurns, Statuses
    <3> QED
      BY <1>1, <2>2, <3>1 DEF Store!Answer, Readable
  <2> QED
    BY <1>3, <2>1, <2>2 DEF Publish
<1>4. CASE Unlink(w) \/ Cleanup(w)
  <2>1. /\ UNCHANGED file
        /\ \/ At(w, "unlink", "saved") \/ At(w, "unlink", "cleanup")
           \/ At(w, "cleanup", "failed")
    BY <1>4 DEF Unlink, Cleanup
  <2>2. \/ Store!Turns(w, {"effective"}, {"saved"})
        \/ Store!Turns(w, {"open", "effective"}, {"failing", "failed"})
        \/ Store!Turns(w, {"failing"}, {"failed"})
    BY <1>1, <2>1, MoveTurns, Statuses
  <2> QED
    BY <1>1, <2>1, <2>2 DEF Store!Answer, Readable
<1>5. CASE OpenDirectly(w)
  <2>1. CASE /\ MayCreate(w)
             /\ At(w, "open", "fill")
             /\ file' = [by |-> w, whole |-> FALSE]
    <3>1. op[w] # "append"
      BY <2>1 DEF At, PlacesFit, LogPlaces, Inside, Waiting, Ended
    <3>2. file'.by = w /\ ~ atomic
      BY <1>5, <2>1 DEF OpenDirectly
    <3>3. StatusAt("open") = "open" /\ StatusAt("fill") \in {"effective", "saved"}
      BY Statuses
    <3> QED
      BY <1>1, <2>1, <3>1, <3>2, <3>3, WriteServes
  <2>2. CASE At(w, "open", "failed") /\ UNCHANGED file
    <3>1. Store!Turns(w, {"open", "effective"}, {"failing", "failed"})
      BY <1>1, <2>2, MoveTurns, Statuses
    <3> QED
      BY <1>1, <2>2, <3>1 DEF Store!Answer, Readable
  <2> QED
    BY <1>5, <2>1, <2>2 DEF OpenDirectly
<1>6. CASE FillDirectly(w)
  <2>1. At(w, "fill", "saved") \/ At(w, "fill", "failed")
    BY <1>6 DEF FillDirectly
  <2>2. ~ atomic /\ file'.by = file.by
    BY <1>6, <2>1 DEF FillDirectly, FileFits, TypeOK, At
  <2>3. \/ Store!Turns(w, {"effective"}, {"saved"})
        \/ Store!Turns(w, {"open", "effective"}, {"failing", "failed"})
    BY <1>1, <2>1, MoveTurns, Statuses
  <2> QED
    BY <1>1, <2>2, <2>3 DEF Store!Answer, Readable
<1> QED
  BY <1>2, <1>3, <1>4, <1>5, <1>6

LEMMA StoreStep ==
  TypeOK /\ PlacesFit /\ FileFits /\ [Next]_vars => [Store!Next]_(Store!storeVars)
<1> SUFFICES ASSUME TypeOK, PlacesFit, FileFits, [Next]_vars
             PROVE  Store!Next \/ UNCHANGED Store!storeVars
  OBVIOUS
<1>1. ASSUME NEW w \in Writers, Call(w) PROVE Store!Next
  <2>1. /\ UNCHANGED <<op, lines, Readable>>
        /\ \/ At(w, "idle", "queue") \/ At(w, "idle", "open")
           \/ At(w, "idle", "failed")
    BY <1>1 DEF Call, config, Readable
  <2>2. Store!Turns(w, {"idle"}, {"open", "failed"})
    BY <2>1, MoveTurns, Statuses
  <2> QED
    BY <2>1, <2>2 DEF Store!Begin, Store!Next
<1>2. ASSUME NEW w \in Writers, Step(w) PROVE Store!Next \/ UNCHANGED Store!storeVars
  <2>1. Store!TakeEffect(w) \/ Store!Answer(w) \/ UNCHANGED Store!storeVars
    BY <1>2, LogServes, ArtifactServes DEF Step
  <2> QED
    BY <2>1 DEF Store!Next
<1>3. ASSUME NEW p \in Processes, Crash(p) PROVE Store!Next
  <2> DEFINE W == {w \in Writers : ProcessOf[w] = p /\ pc[w] \notin Ended}
  <2>1. UNCHANGED <<op, lines, Readable>>
    BY <1>3 DEF Crash, config, Readable
  <2>2. \A w \in W : [v \in Writers |-> StatusAt(pc[v])][w] \notin {"saved", "failed", "dead"}
    BY DEF StatusAt, Ended
  <2>3. [v \in Writers |-> StatusAt(pc'[v])]
          = [v \in Writers |-> IF v \in W THEN "dead"
                               ELSE [u \in Writers |-> StatusAt(pc[u])][v]]
    <3>1. \A v \in Writers : pc'[v] = IF v \in W THEN "dead" ELSE pc[v]
      BY <1>3 DEF Crash
    <3> QED
      BY <3>1, Statuses
  <2>4. Store!Die(W)
    BY <2>1, <2>2, <2>3 DEF Store!Die
  <2> QED
    BY <2>4 DEF Store!Next
<1>4. ASSUME (\E w \in Writers : DeadlinePasses(w)) \/ LockAges \/ UNCHANGED vars
      PROVE  UNCHANGED Store!storeVars
  BY <1>4 DEF DeadlinePasses, LockAges, vars, config, Store!storeVars, Readable
<1> QED
  BY <1>1, <1>2, <1>3, <1>4 DEF Next

\* Callers see an atomic store: however steps interleave, writes fail,
\* processes die and locks are broken, a call takes effect at most once, in one
\* instant between its start and its answer, and is saved only if it did.
THEOREM StoreImplemented == Spec => ImplementsStore
<1>1. Init => Store!Init
  <2> SUFFICES ASSUME Init PROVE Store!Init
    OBVIOUS
  <2>1. [w \in Writers |-> StatusAt(pc[w])] = [w \in Writers |-> "idle"]
    BY Statuses DEF Init
  <2>2. Readable = Nobody
    BY DEF Init, Readable
  <2>3. op \in [Writers -> {"append", "create", "replace"}]
    BY DEF Init, Operations
  <2> QED
    BY <2>1, <2>2, <2>3 DEF Init, Store!Init
<1> QED
  BY <1>1, StoreStep, LogFits, FilesFit, Typing, PTL DEF Spec, ImplementsStore, Store!Spec
=============================================================================
