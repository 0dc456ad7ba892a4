--------------------------- MODULE JobJournalProofs ---------------------------
(***************************************************************************)
(* Proofs about JobJournal: what the files of a job show after any number   *)
(* of failed writes, crashes and restarts.                                  *)
(***************************************************************************)
EXTENDS JobJournal, SequenceTheorems, TLAPS

Ops == [op : {"append", "result", "log", "snapshot", "task"},
        kind : States \cup {"progress", "none"}]
Lines == [sequence : Nat, kind : States \cup {"progress"}, life : 1 .. MaxLives]

\* What may be left to write by code that brought the record into state s.
Left(s) ==
  CASE s = "queued" -> {<<AppendOf(s), WriteSnapshot, StartTask>>,
                        <<WriteSnapshot, StartTask>>, <<StartTask>>}
    [] s \in Running -> {<<AppendOf(s), WriteSnapshot>>, <<WriteSnapshot>>,
                         <<AppendOf("progress")>>}
    [] s = "completed" -> {<<AppendOf(s), WriteResult, WriteSnapshot>>,
                           <<WriteResult, WriteSnapshot>>, <<WriteSnapshot>>}
    [] s \in Terminal \ {"completed"} ->
         {<<AppendOf(s), WriteResult, LogError, WriteSnapshot>>,
          <<WriteResult, LogError, WriteSnapshot>>,
          <<LogError, WriteSnapshot>>, <<WriteSnapshot>>}
    [] OTHER -> {}

\* The files left to write are those of the record's state.
TodoShaped == todo = <<>> \/ todo \in Left(state)

\* A process that is down writes nothing.
DownIsIdle == ~ up => todo = <<>>

\* What a snapshot is about to say is the last line of the journal.
LineBeforeSnapshot ==
  todo # <<>> /\ Head(todo).op \in {"result", "log", "snapshot"} =>
    /\ journal # <<>>
    /\ journal[Len(journal)].kind = state
    /\ journal[Len(journal)].sequence = sequence

\* The result file is written before the snapshot of a job that is over.
ResultBeforeSnapshot ==
  todo # <<>> /\ Head(todo).op \in {"log", "snapshot"} /\ state \in Terminal =>
    written = state

\* A job with the snapshot of a job that is over is left alone.
OverIsIdle ==
  snapshot.state \in Terminal =>
    todo = <<>> /\ (up => state \in {snapshot.state, "absent"})

\* The sequence of the record is not below those it gave out in this life.
SequenceIsLast ==
  \A i \in 1 .. Len(journal) :
    /\ journal[i].life <= life
    /\ journal[i].life = life => journal[i].sequence <= sequence

\* In one life of the server sequence numbers grow from line to line, also when
\* writes fail in between, and start above the snapshot it was restored from.
SequencesGrowInLife ==
  \A i, k \in 1 .. Len(journal) :
    i < k /\ journal[i].life = journal[k].life =>
      journal[i].sequence < journal[k].sequence

IInv ==
  /\ TypeOK
  /\ TodoShaped /\ DownIsIdle
  /\ LineBeforeSnapshot /\ ResultBeforeSnapshot /\ OverIsIdle
  /\ SnapshotHasEvent /\ SnapshotHasResult
  /\ SequenceIsLast /\ SequencesGrowInLife

USE BoundsAssumption

\* Heads and tails of the short lists of file steps.
LEMMA ShortLists ==
  \A a, b, c, d :
    /\ Head(<<a>>) = a /\ Tail(<<a>>) = <<>>
    /\ Head(<<a, b>>) = a /\ Tail(<<a, b>>) = <<b>>
    /\ Head(<<a, b, c>>) = a /\ Tail(<<a, b, c>>) = <<b, c>>
    /\ Head(<<a, b, c, d>>) = a /\ Tail(<<a, b, c, d>>) = <<b, c, d>>
    /\ <<a>> # <<>> /\ <<a, b>> # <<>> /\ <<a, b, c>> # <<>> /\ <<a, b, c, d>> # <<>>
OBVIOUS

\* The file steps and their kinds.
LEMMA OpFacts ==
  /\ \A s \in States \cup {"progress"} :
       AppendOf(s) \in Ops /\ AppendOf(s).op = "append" /\ AppendOf(s).kind = s
  /\ WriteResult \in Ops /\ WriteResult.op = "result"
  /\ LogError \in Ops /\ LogError.op = "log"
  /\ WriteSnapshot \in Ops /\ WriteSnapshot.op = "snapshot"
  /\ StartTask \in Ops /\ StartTask.op = "task"
BY DEF Ops, AppendOf, WriteResult, LogError, WriteSnapshot, StartTask

\* Lists of file steps are sequences of them.
LEMMA OpLists ==
  \A a, b, c, d \in Ops :
    /\ <<a>> \in Seq(Ops) /\ <<a, b>> \in Seq(Ops) /\ <<a, b, c>> \in Seq(Ops)
    /\ <<a, b, c, d>> \in Seq(Ops)
OBVIOUS

\* Of the steps left in state s: what the next one is, and what follows it.
LEMMA LeftFacts ==
  ASSUME NEW s \in States, NEW t \in Left(s)
  PROVE  /\ t \in Seq(Ops) /\ t # <<>>
         /\ Head(t) \in Ops
         /\ Tail(t) = <<>> \/ Tail(t) \in Left(s)
         /\ Head(t).op = "append" =>
              \/ Head(t).kind = "progress" /\ Tail(t) = <<>>
              \/ /\ Head(t).kind = s
                 /\ Tail(t) # <<>>
                 /\ s \in Terminal => Head(Tail(t)).op = "result"
         /\ Head(t).op = "result" => s \in Terminal
         /\ Head(t).op = "snapshot" =>
              \/ Tail(t) = <<>>
              \/ s = "queued" /\ Tail(t) = <<StartTask>>
         /\ Head(t).op = "task" => Tail(t) = <<>>
<1> USE ShortLists, OpFacts, OpLists
<1>1. CASE s = "queued"
  <2>1. Left(s) = {<<AppendOf(s), WriteSnapshot, StartTask>>,
                   <<WriteSnapshot, StartTask>>, <<StartTask>>}
    BY <1>1 DEF Left, Terminal, Running
  <2>2. CASE t = <<AppendOf(s), WriteSnapshot, StartTask>>
    BY <1>1, <2>1, <2>2 DEF States, Terminal, Running
  <2>3. CASE t = <<WriteSnapshot, StartTask>>
    BY <1>1, <2>1, <2>3 DEF States, Terminal, Running
  <2>4. CASE t = <<StartTask>>
    BY <1>1, <2>1, <2>4 DEF States, Terminal, Running
  <2> QED BY <2>1, <2>2, <2>3, <2>4
<1>2. CASE s \in Running
  <2>1. Left(s) = {<<AppendOf(s), WriteSnapshot>>, <<WriteSnapshot>>, <<AppendOf("progress")>>}
    BY <1>2 DEF Left, Terminal, Running
  <2>2. CASE t = <<AppendOf(s), WriteSnapshot>>
    BY <1>2, <2>1, <2>2 DEF States, Terminal, Running
  <2>3. CASE t = <<WriteSnapshot>>
    BY <1>2, <2>1, <2>3 DEF States, Terminal, Running
  <2>4. CASE t = <<AppendOf("progress")>>
    BY <1>2, <2>1, <2>4 DEF States, Terminal, Running
  <2> QED BY <2>1, <2>2, <2>3, <2>4
<1>3. CASE s = "completed"
  <2>1. Left(s) = {<<AppendOf(s), WriteResult, WriteSnapshot>>,
                   <<WriteResult, WriteSnapshot>>, <<WriteSnapshot>>}
    BY <1>3 DEF Left, Terminal, Running
  <2>2. CASE t = <<AppendOf(s), WriteResult, WriteSnapshot>>
    BY <1>3, <2>1, <2>2 DEF States, Terminal, Running
  <2>3. CASE t = <<WriteResult, WriteSnapshot>>
    BY <1>3, <2>1, <2>3 DEF States, Terminal, Running
  <2>4. CASE t = <<WriteSnapshot>>
    BY <1>3, <2>1, <2>4 DEF States, Terminal, Running
  <2> QED BY <2>1, <2>2, <2>3, <2>4
<1>4. CASE s \in Terminal \ {"completed"}
  <2>1. Left(s) = {<<AppendOf(s), WriteResult, LogError, WriteSnapshot>>,
                   <<WriteResult, LogError, WriteSnapshot>>,
                   <<LogError, WriteSnapshot>>, <<WriteSnapshot>>}
    BY <1>4 DEF Left, Terminal, Running
  <2>2. CASE t = <<AppendOf(s), WriteResult, LogError, WriteSnapshot>>
    BY <1>4, <2>1, <2>2 DEF States, Terminal, Running
  <2>3. CASE t = <<WriteResult, LogError, WriteSnapshot>>
    BY <1>4, <2>1, <2>3 DEF States, Terminal, Running
  <2>4. CASE t = <<LogError, WriteSnapshot>>
    BY <1>4, <2>1, <2>4 DEF States, Terminal, Running
  <2>5. CASE t = <<WriteSnapshot>>
    BY <1>4, <2>1, <2>5 DEF States, Terminal, Running
  <2> QED BY <2>1, <2>2, <2>3, <2>4, <2>5
<1>5. CASE s = "absent"
  BY <1>5 DEF Left, Terminal, Running
<1> QED BY <1>1, <1>2, <1>3, <1>4, <1>5 DEF States, Terminal, Running

\* A list has one event to append, and that of a job that is over is its end.
LEMMA AppendOnce ==
  ASSUME NEW s \in States, NEW t \in Left(s)
  PROVE  /\ Tail(t) = <<>> \/ Head(Tail(t)).op # "append"
         /\ s \in Terminal /\ Head(t).op = "append" => Head(t).kind = s
<1> USE ShortLists, OpFacts
<1>1. CASE s = "queued"
  <2>1. Left(s) = {<<AppendOf(s), WriteSnapshot, StartTask>>,
                   <<WriteSnapshot, StartTask>>, <<StartTask>>}
    BY <1>1 DEF Left, Terminal, Running
  <2>2. s \notin Terminal BY <1>1 DEF Terminal
  <2>3. CASE t = <<AppendOf(s), WriteSnapshot, StartTask>> BY <2>2, <2>3
  <2>4. CASE t = <<WriteSnapshot, StartTask>> BY <2>2, <2>4
  <2>5. CASE t = <<StartTask>> BY <2>2, <2>5
  <2> QED BY <2>1, <2>3, <2>4, <2>5
<1>2. CASE s \in Running
  <2>1. Left(s) = {<<AppendOf(s), WriteSnapshot>>, <<WriteSnapshot>>, <<AppendOf("progress")>>}
    BY <1>2 DEF Left, Terminal, Running
  <2>2. s \notin Terminal BY <1>2 DEF Terminal, Running
  <2>3. CASE t = <<AppendOf(s), WriteSnapshot>> BY <2>2, <2>3
  <2>4. CASE t = <<WriteSnapshot>> BY <2>2, <2>4
  <2>5. CASE t = <<AppendOf("progress")>> BY <2>2, <2>5
  <2> QED BY <2>1, <2>3, <2>4, <2>5
<1>3. CASE s = "completed"
  <2>1. Left(s) = {<<AppendOf(s), WriteResult, WriteSnapshot>>,
                   <<WriteResult, WriteSnapshot>>, <<WriteSnapshot>>}
    BY <1>3 DEF Left, Terminal, Running
  <2>2. CASE t = <<AppendOf(s), WriteResult, WriteSnapshot>> BY <2>2
  <2>3. CASE t = <<WriteResult, WriteSnapshot>> BY <2>3
  <2>4. CASE t = <<WriteSnapshot>> BY <2>4
  <2> QED BY <2>1, <2>2, <2>3, <2>4
<1>4. CASE s \in Terminal \ {"completed"}
  <2>1. Left(s) = {<<AppendOf(s), WriteResult, LogError, WriteSnapshot>>,
                   <<WriteResult, LogError, WriteSnapshot>>,
                   <<LogError, WriteSnapshot>>, <<WriteSnapshot>>}
    BY <1>4 DEF Left, Terminal, Running
  <2>2. CASE t = <<AppendOf(s), WriteResult, LogError, WriteSnapshot>> BY <2>2
  <2>3. CASE t = <<WriteResult, LogError, WriteSnapshot>> BY <2>3
  <2>4. CASE t = <<LogError, WriteSnapshot>> BY <2>4
  <2>5. CASE t = <<WriteSnapshot>> BY <2>5
  <2> QED BY <2>1, <2>2, <2>3, <2>4, <2>5
<1> QED BY <1>1, <1>2, <1>3, <1>4 DEF Left, States, Terminal, Running

\* The lists handlers and tasks begin with: the event comes first.
LEMMA FirstFacts ==
  /\ <<AppendOf("queued"), WriteSnapshot, StartTask>> \in Left("queued")
  /\ Head(<<AppendOf("queued"), WriteSnapshot, StartTask>>).op = "append"
  /\ \A s \in Running : /\ Transition(s) \in Left(s)
                        /\ Head(Transition(s)).op = "append"
                        /\ <<AppendOf("progress")>> \in Left(s)
                        /\ Head(<<AppendOf("progress")>>).op = "append"
  /\ \A s \in Terminal : /\ Settlement(s) \in Left(s)
                         /\ Head(Settlement(s)).op = "append"
<1> USE ShortLists, OpFacts
<1>1. ASSUME NEW s \in States, s = "queued"
      PROVE  /\ <<AppendOf(s), WriteSnapshot, StartTask>> \in Left(s)
             /\ Head(<<AppendOf(s), WriteSnapshot, StartTask>>).op = "append"
  <2>1. Left(s) = {<<AppendOf(s), WriteSnapshot, StartTask>>,
                   <<WriteSnapshot, StartTask>>, <<StartTask>>}
    BY <1>1 DEF Left, Terminal, Running
  <2> QED BY <2>1
<1>2. ASSUME NEW s \in Running
      PROVE  /\ Transition(s) \in Left(s)
             /\ Head(Transition(s)).op = "append"
             /\ <<AppendOf("progress")>> \in Left(s)
             /\ Head(<<AppendOf("progress")>>).op = "append"
  <2>1. Transition(s) = <<AppendOf(s), WriteSnapshot>>
    BY DEF Transition
  <2>2. s \in States /\ s # "queued"
    BY DEF Running, States
  <2>3. Left(s) = {<<AppendOf(s), WriteSnapshot>>, <<WriteSnapshot>>,
                   <<AppendOf("progress")>>}
    BY DEF Left, Terminal, Running
  <2> QED BY <2>1, <2>2, <2>3
<1>3. ASSUME NEW s \in Terminal
      PROVE  /\ Settlement(s) \in Left(s)
             /\ Head(Settlement(s)).op = "append"
  <2>1. CASE s = "completed"
    <3>1. Settlement(s) = <<AppendOf(s), WriteResult, WriteSnapshot>>
      BY <2>1, Zenon DEF Settlement
    <3> QED BY <2>1, <3>1 DEF Left, Terminal, States, Running
  <2>2. CASE s # "completed"
    <3>1. Settlement(s) = <<AppendOf(s), WriteResult, LogError, WriteSnapshot>>
      BY <2>2, Zenon DEF Settlement
    <3> QED BY <2>2, <3>1 DEF Left, Terminal, States, Running
  <2> QED BY <2>1, <2>2
<1>4. "queued" \in States
  BY DEF States
<1> QED BY <1>1, <1>2, <1>3, <1>4

\* The initial state satisfies the invariant.
LEMMA Initially == Init => IInv
<1> SUFFICES ASSUME Init PROVE IInv
  OBVIOUS
<1>1. TypeOK
  BY DEF Init, TypeOK, States
<1>2. TodoShaped /\ DownIsIdle /\ LineBeforeSnapshot /\ ResultBeforeSnapshot
  BY DEF Init, TodoShaped, DownIsIdle, LineBeforeSnapshot, ResultBeforeSnapshot
<1>3. OverIsIdle /\ SnapshotHasEvent /\ SnapshotHasResult
  BY DEF Init, OverIsIdle, SnapshotHasEvent, SnapshotHasResult, Terminal
<1>4. SequenceIsLast /\ SequencesGrowInLife
  BY DEF Init, SequenceIsLast, SequencesGrowInLife
<1> QED BY <1>1, <1>2, <1>3, <1>4 DEF IInv

\* A handler or task that changes the record and has its files to write.
LEMMA HandlerKeeps ==
  ASSUME IInv, Idle, state \notin Terminal, state = "absent" => journal = <<>>,
         state' \in States, todo' \in Left(state'), Head(todo').op = "append",
         owner' \in {"handler", "task", "start"}, events' \in 0 .. MaxEvents,
         UNCHANGED <<life, up, sequence, task, disk, failures, seen>>
  PROVE  IInv'
<1> USE DEF IInv
<1>1. TypeOK'
  <2>1. todo' \in Seq(Ops)
    BY LeftFacts
  <2> QED BY <2>1 DEF TypeOK, disk, Ops
<1>2. todo' # <<>> /\ TodoShaped' /\ DownIsIdle'
  BY LeftFacts DEF TodoShaped, DownIsIdle, Idle
<1>3. LineBeforeSnapshot' /\ ResultBeforeSnapshot'
  BY DEF LineBeforeSnapshot, ResultBeforeSnapshot
<1>4. OverIsIdle'
  <2>1. ASSUME snapshot.state \in Terminal PROVE FALSE
    <3>1. state = "absent" /\ snapshot.state # "absent"
      BY <2>1 DEF OverIsIdle, Idle, Terminal
    <3>2. Len(journal) = 0
      BY <3>1
    <3> QED
      BY <3>1, <3>2 DEF SnapshotHasEvent
  <2> QED
    BY <2>1 DEF OverIsIdle, disk
<1>5. SnapshotHasEvent' /\ SnapshotHasResult'
  BY DEF SnapshotHasEvent, SnapshotHasResult, disk
<1>6. SequenceIsLast' /\ SequencesGrowInLife'
  BY DEF SequenceIsLast, SequencesGrowInLife, disk
<1> QED BY <1>1, <1>2, <1>3, <1>4, <1>5, <1>6

\* A line with the next sequence, whether the write reports success or not.
LEMMA LineKeeps ==
  ASSUME IInv, Doing("append"), sequence' = sequence + 1,
         journal' \in {journal, Append(journal, NewLine)},
         UNCHANGED <<life, snapshot, written>>
  PROVE  /\ sequence' \in Nat
         /\ journal' \in Seq(Lines)
         /\ SnapshotHasEvent' /\ SnapshotHasResult'
         /\ SequenceIsLast' /\ SequencesGrowInLife'
<1> USE DEF IInv
<1>1. NewLine \in Lines /\ NewLine.life = life /\ NewLine.sequence = sequence + 1
  <2>1. todo \in Left(state) /\ state \in States
    BY DEF Doing, TodoShaped, TypeOK
  <2>2. Head(todo).kind \in States \cup {"progress"}
    BY <2>1, LeftFacts DEF Doing
  <2> QED BY <2>2 DEF NewLine, Lines, TypeOK
<1>2. journal \in Seq(Lines) /\ sequence \in Nat /\ life \in Nat
  BY DEF TypeOK, Lines
<1>3. CASE journal' = journal
  <2>1. \A i \in 1 .. Len(journal) : journal[i] \in Lines
    BY <1>2, ElementOfSeq
  <2>2. SequenceIsLast'
    BY <1>2, <1>3, <2>1 DEF SequenceIsLast, Lines
  <2> QED
    BY <1>2, <1>3, <2>2 DEF SnapshotHasEvent, SnapshotHasResult, SequencesGrowInLife
<1>4. CASE journal' = Append(journal, NewLine)
  <2>1. /\ Len(journal') = Len(journal) + 1
        /\ \A i \in 1 .. Len(journal) : journal'[i] = journal[i]
        /\ journal'[Len(journal) + 1] = NewLine
        /\ Len(journal) \in Nat
    BY <1>1, <1>2, <1>4
  <2>2. \A i \in 1 .. Len(journal) : journal[i] \in Lines /\ journal[i].sequence \in Nat
    <3>1. \A i \in 1 .. Len(journal) : journal[i] \in Lines
      BY <1>2, ElementOfSeq
    <3> QED BY <3>1 DEF Lines
  <2>3. SnapshotHasEvent' /\ SnapshotHasResult'
    BY <2>1 DEF SnapshotHasEvent, SnapshotHasResult
  <2>4. SequenceIsLast'
    BY <1>1, <1>2, <2>1, <2>2 DEF SequenceIsLast
  <2>5. SequencesGrowInLife'
    <3> SUFFICES ASSUME NEW i \in 1 .. Len(journal'), NEW k \in 1 .. Len(journal'),
                        i < k, journal'[i].life = journal'[k].life
                 PROVE  journal'[i].sequence < journal'[k].sequence
      BY DEF SequencesGrowInLife
    <3>1. i \in 1 .. Len(journal)
      BY <2>1
    <3>2. CASE k \in 1 .. Len(journal)
      BY <2>1, <3>1, <3>2 DEF SequencesGrowInLife
    <3>3. CASE k = Len(journal) + 1
      BY <1>1, <1>2, <2>1, <2>2, <3>1, <3>3 DEF SequenceIsLast
    <3> QED BY <2>1, <3>2, <3>3
  <2> QED BY <1>1, <1>2, <1>4, <2>3, <2>4, <2>5
<1> QED BY <1>3, <1>4

\* Every step preserves the invariant.
LEMMA Inductive == IInv /\ [Next]_vars => IInv'
<1> SUFFICES ASSUME IInv, [Next]_vars PROVE IInv'
  OBVIOUS
<1>1. CASE Create
  BY <1>1, HandlerKeeps, FirstFacts DEF Create, Run, IInv, TypeOK, States, Terminal
<1>2. CASE Dispatch
  BY <1>2, HandlerKeeps, FirstFacts DEF Dispatch, Run, IInv, TypeOK, States, Terminal, Running
<1>3. CASE WorkerEvent
  <2>1. events' \in 0 .. MaxEvents
    BY <1>3 DEF WorkerEvent, IInv, TypeOK
  <2> QED
    BY <1>3, <2>1, HandlerKeeps, FirstFacts
      DEF WorkerEvent, Run, IInv, TypeOK, States, Terminal, Running
<1>4. CASE CancelQueued
  BY <1>4, HandlerKeeps, FirstFacts DEF CancelQueued, Run, IInv, TypeOK, States, Terminal
<1>5. CASE CancelRunning
  BY <1>5, HandlerKeeps, FirstFacts
    DEF CancelRunning, Run, IInv, TypeOK, States, Terminal, Running
<1>6. ASSUME NEW s \in Terminal, Settle(s) PROVE IInv'
  BY <1>6, HandlerKeeps, FirstFacts DEF Settle, Run, IInv, TypeOK, States, Terminal, Running
<1>7. CASE Read
  BY <1>7 DEF Read, memory, disk, IInv, TypeOK, TodoShaped, DownIsIdle,
    LineBeforeSnapshot, ResultBeforeSnapshot, OverIsIdle, SnapshotHasEvent,
    SnapshotHasResult, SequenceIsLast, SequencesGrowInLife
<1>13. CASE StartFails
  <2>1. failures' \in 0 .. MaxFailures /\ snapshot.state \notin Terminal
    BY <1>13 DEF StartFails, Idle, IInv, TypeOK, OverIsIdle, Terminal
  <2> QED
    BY <1>13, <2>1 DEF StartFails, Idle, disk, IInv, TypeOK, States, Running,
      TodoShaped, DownIsIdle, LineBeforeSnapshot, ResultBeforeSnapshot, OverIsIdle,
      SnapshotHasEvent, SnapshotHasResult, SequenceIsLast, SequencesGrowInLife
<1>12. CASE Expire
  BY <1>12 DEF Expire, Idle, disk, IInv, TypeOK, States, TodoShaped, DownIsIdle,
    LineBeforeSnapshot, ResultBeforeSnapshot, OverIsIdle, SnapshotHasEvent,
    SnapshotHasResult, SequenceIsLast, SequencesGrowInLife
<1>8. CASE DoAppend \/ DoResult \/ DoLog \/ DoSnapshot \/ DoTask \/ WriteFails
  <2> todo # <<>>
    BY <1>8 DEF DoAppend, DoResult, DoLog, DoSnapshot, DoTask, WriteFails, Doing
  <2>1. todo \in Left(state) /\ state \in States /\ snapshot.state \notin Terminal
    BY DEF IInv, TodoShaped, TypeOK, OverIsIdle
  <2>2. /\ Tail(todo) \in Seq(Ops)
        /\ Tail(todo) = <<>> \/ Tail(todo) \in Left(state)
    BY <2>1, LeftFacts, EmptySeq
  <2>3. CASE DoAppend
    <3>1. /\ sequence' \in Nat /\ journal' \in Seq(Lines)
          /\ SnapshotHasEvent' /\ SnapshotHasResult'
          /\ SequenceIsLast' /\ SequencesGrowInLife'
      BY <2>3, LineKeeps DEF DoAppend
    <3>2. TypeOK' /\ TodoShaped' /\ DownIsIdle'
      BY <2>2, <2>3, <3>1 DEF DoAppend, Doing, IInv, TypeOK, TodoShaped, DownIsIdle, Ops, Lines
    <3>3. LineBeforeSnapshot'
      <4>1. CASE Head(todo).kind = "progress" /\ Tail(todo) = <<>>
        BY <2>3, <4>1 DEF DoAppend, LineBeforeSnapshot
      <4>2. CASE Head(todo).kind = state
        <5>1. journal \in Seq(Lines)
          BY DEF IInv, TypeOK, Lines
        <5>2. /\ journal' # <<>> /\ journal'[Len(journal')] = NewLine
          BY <2>3, <5>1 DEF DoAppend
        <5> QED BY <2>3, <4>2, <5>2 DEF DoAppend, LineBeforeSnapshot, NewLine
      <4> QED BY <2>1, <2>3, <4>1, <4>2, LeftFacts DEF DoAppend, Doing
    <3>4. ResultBeforeSnapshot'
      BY <2>1, <2>3, LeftFacts DEF DoAppend, Doing, ResultBeforeSnapshot
    <3>5. OverIsIdle'
      BY <2>1, <2>3 DEF DoAppend, OverIsIdle
    <3> QED BY <3>1, <3>2, <3>3, <3>4, <3>5 DEF IInv
  <2>4. CASE DoResult
    <3>1. state \in Terminal
      BY <2>1, <2>4, LeftFacts DEF DoResult, Doing
    <3>2. TypeOK' /\ TodoShaped' /\ DownIsIdle'
      BY <2>2, <2>4, <3>1 DEF DoResult, Doing, memory, IInv, TypeOK, TodoShaped, DownIsIdle, Ops
    <3>3. LineBeforeSnapshot' /\ ResultBeforeSnapshot'
      BY <2>4 DEF DoResult, Doing, memory, IInv, LineBeforeSnapshot, ResultBeforeSnapshot
    <3>4. OverIsIdle' /\ SnapshotHasEvent' /\ SnapshotHasResult'
      BY <2>1, <2>4 DEF DoResult, memory, IInv, OverIsIdle, SnapshotHasEvent, SnapshotHasResult
    <3>5. SequenceIsLast' /\ SequencesGrowInLife'
      BY <2>4 DEF DoResult, memory, IInv, SequenceIsLast, SequencesGrowInLife
    <3> QED BY <3>2, <3>3, <3>4, <3>5 DEF IInv
  <2>5. CASE DoLog
    <3>1. TypeOK' /\ TodoShaped' /\ DownIsIdle'
      BY <2>2, <2>5 DEF DoLog, Doing, memory, disk, IInv, TypeOK, TodoShaped, DownIsIdle, Ops
    <3>2. LineBeforeSnapshot' /\ ResultBeforeSnapshot'
      BY <2>5 DEF DoLog, Doing, memory, disk, IInv, LineBeforeSnapshot, ResultBeforeSnapshot
    <3>3. OverIsIdle' /\ SnapshotHasEvent' /\ SnapshotHasResult'
      BY <2>1, <2>5 DEF DoLog, memory, disk, IInv, OverIsIdle, SnapshotHasEvent, SnapshotHasResult
    <3>4. SequenceIsLast' /\ SequencesGrowInLife'
      BY <2>5 DEF DoLog, memory, disk, IInv, SequenceIsLast, SequencesGrowInLife
    <3> QED BY <3>1, <3>2, <3>3, <3>4 DEF IInv
  <2>6. CASE DoSnapshot
    <3>1. /\ snapshot' = [state |-> state, sequence |-> sequence]
          /\ snapshot'.state = state /\ snapshot'.sequence = sequence
      BY <2>6 DEF DoSnapshot
    <3>2. \/ Tail(todo) = <<>>
          \/ state = "queued" /\ Tail(todo) = <<StartTask>>
      BY <2>1, <2>6, LeftFacts DEF DoSnapshot, Doing
    <3>3. TypeOK' /\ TodoShaped' /\ DownIsIdle'
      BY <2>1, <2>2, <2>6 DEF DoSnapshot, Doing, memory, IInv, TypeOK, TodoShaped,
        DownIsIdle, Ops
    <3>4. LineBeforeSnapshot' /\ ResultBeforeSnapshot'
      BY <2>6, <3>2, ShortLists, OpFacts
        DEF DoSnapshot, memory, LineBeforeSnapshot, ResultBeforeSnapshot
    <3>5. OverIsIdle'
      BY <2>6, <3>1, <3>2 DEF DoSnapshot, memory, OverIsIdle, Terminal
    <3>6. SnapshotHasEvent'
      <4>1. /\ Len(journal) \in 1 .. Len(journal)
            /\ journal[Len(journal)].kind = state
            /\ journal[Len(journal)].sequence = sequence
        <5>1. /\ journal # <<>> /\ journal[Len(journal)].kind = state
              /\ journal[Len(journal)].sequence = sequence
          BY <2>6 DEF DoSnapshot, Doing, IInv, LineBeforeSnapshot
        <5>2. journal \in Seq(Lines)
          BY DEF IInv, TypeOK, Lines
        <5> QED BY <5>1, <5>2
      <4> QED BY <2>6, <3>1, <4>1 DEF DoSnapshot, SnapshotHasEvent
    <3>7. SnapshotHasResult'
      BY <2>6, <3>1 DEF DoSnapshot, Doing, IInv, ResultBeforeSnapshot, SnapshotHasResult
    <3>8. SequenceIsLast' /\ SequencesGrowInLife'
      BY <2>6 DEF DoSnapshot, memory, IInv, SequenceIsLast, SequencesGrowInLife
    <3> QED BY <3>3, <3>4, <3>5, <3>6, <3>7, <3>8 DEF IInv
  <2>7. CASE DoTask
    <3>1. Tail(todo) = <<>>
      BY <2>1, <2>7, LeftFacts DEF DoTask, Doing
    <3>2. TypeOK' /\ TodoShaped' /\ DownIsIdle'
      BY <2>2, <2>7, <3>1 DEF DoTask, Doing, disk, IInv, TypeOK, TodoShaped, DownIsIdle, Ops
    <3>3. LineBeforeSnapshot' /\ ResultBeforeSnapshot'
      BY <2>7, <3>1 DEF DoTask, LineBeforeSnapshot, ResultBeforeSnapshot
    <3>4. OverIsIdle' /\ SnapshotHasEvent' /\ SnapshotHasResult'
      BY <2>1, <2>7 DEF DoTask, disk, IInv, OverIsIdle, SnapshotHasEvent, SnapshotHasResult
    <3>5. SequenceIsLast' /\ SequencesGrowInLife'
      BY <2>7 DEF DoTask, disk, IInv, SequenceIsLast, SequencesGrowInLife
    <3> QED BY <3>2, <3>3, <3>4, <3>5 DEF IInv
  <2>8. CASE WriteFails
    <3>1. /\ sequence' \in Nat /\ journal' \in Seq(Lines)
          /\ SnapshotHasEvent' /\ SnapshotHasResult'
          /\ SequenceIsLast' /\ SequencesGrowInLife'
      <4>1. CASE Doing("append")
        BY <2>8, <4>1, LineKeeps DEF WriteFails
      <4>2. CASE ~ Doing("append")
        BY <2>8, <4>2 DEF WriteFails, IInv, TypeOK, Lines, SnapshotHasEvent,
          SnapshotHasResult, SequenceIsLast, SequencesGrowInLife
      <4> QED BY <4>1, <4>2
    <3>2. failures' \in 0 .. MaxFailures
      BY <2>8 DEF WriteFails, IInv, TypeOK
    <3>3. TypeOK'
      BY <2>8, <3>1, <3>2, EmptySeq DEF WriteFails, IInv, TypeOK, Lines
    <3>4. TodoShaped' /\ DownIsIdle' /\ LineBeforeSnapshot' /\ ResultBeforeSnapshot'
      BY <2>8 DEF WriteFails, TodoShaped, DownIsIdle, LineBeforeSnapshot, ResultBeforeSnapshot
    <3>5. OverIsIdle'
      BY <2>1, <2>8 DEF WriteFails, OverIsIdle
    <3> QED BY <3>1, <3>3, <3>4, <3>5 DEF IInv
  <2> QED BY <1>8, <2>3, <2>4, <2>5, <2>6, <2>7, <2>8
<1>9. CASE Crash
  <2>1. TypeOK' /\ TodoShaped' /\ DownIsIdle'
    BY <1>9, EmptySeq DEF Crash, memory, disk, IInv, TypeOK, TodoShaped, DownIsIdle
  <2>2. LineBeforeSnapshot' /\ ResultBeforeSnapshot'
    BY <1>9 DEF Crash, LineBeforeSnapshot, ResultBeforeSnapshot
  <2>3. OverIsIdle' /\ SnapshotHasEvent' /\ SnapshotHasResult'
    BY <1>9 DEF Crash, memory, disk, IInv, OverIsIdle, SnapshotHasEvent, SnapshotHasResult
  <2>4. SequenceIsLast' /\ SequencesGrowInLife'
    BY <1>9 DEF Crash, memory, disk, IInv, SequenceIsLast, SequencesGrowInLife
  <2> QED BY <2>1, <2>2, <2>3, <2>4 DEF IInv
<1>10. CASE Restore
  <2>1. /\ snapshot.state \in States /\ snapshot.sequence \in Nat
        /\ life \in 1 .. MaxLives /\ life < MaxLives /\ todo = <<>>
    BY <1>10 DEF Restore, IInv, TypeOK, DownIsIdle
  <2>2. /\ state' \in States
        /\ owner' \in {"handler", "task", "start"}
        /\ \/ todo' = <<>> /\ state' \in {snapshot.state, "absent"}
           \/ /\ snapshot.state \notin Terminal
              /\ todo' \in Left(state')
              /\ Head(todo').op = "append"
    <3>1. CASE snapshot.state \in Terminal \cup {"absent"}
      BY <1>10, <2>1, <3>1 DEF Restore, IInv, TypeOK, States
    <3>2. CASE snapshot.state \notin Terminal \cup {"absent"}
      BY <1>10, <3>2, FirstFacts DEF Restore, Run, States, Terminal
    <3> QED BY <3>1, <3>2
  <2>3. todo' \in Seq(Ops)
    <3>1. <<>> \in Seq(Ops)
      BY EmptySeq
    <3> QED BY <2>2, <3>1, LeftFacts
  <2>4. life' \in 1 .. MaxLives /\ events' \in 0 .. MaxEvents
    BY <1>10, <2>1 DEF Restore
  <2>5. TypeOK'
    BY <1>10, <2>1, <2>2, <2>3, <2>4 DEF Restore, disk, IInv, TypeOK, Ops
  <2>6. TodoShaped' /\ DownIsIdle' /\ LineBeforeSnapshot' /\ ResultBeforeSnapshot'
    BY <1>10, <2>2
      DEF Restore, TodoShaped, DownIsIdle, LineBeforeSnapshot, ResultBeforeSnapshot
  <2>7. OverIsIdle' /\ SnapshotHasEvent' /\ SnapshotHasResult'
    BY <1>10, <2>2
      DEF Restore, disk, IInv, OverIsIdle, SnapshotHasEvent, SnapshotHasResult
  <2>8. \A i \in 1 .. Len(journal) : journal[i].life <= life /\ journal[i].life \in Nat
    <3>1. \A i \in 1 .. Len(journal) : journal[i] \in Lines
      <4>1. journal \in Seq(Lines)
        BY DEF IInv, TypeOK, Lines
      <4> QED BY <4>1, ElementOfSeq
    <3>2. \A i \in 1 .. Len(journal) : journal[i].life \in Nat
      BY <3>1 DEF Lines
    <3> QED BY <3>2 DEF IInv, SequenceIsLast
  <2>9. SequenceIsLast' /\ SequencesGrowInLife'
    BY <1>10, <2>1, <2>8 DEF Restore, disk, IInv, SequenceIsLast, SequencesGrowInLife
  <2> QED BY <2>5, <2>6, <2>7, <2>9 DEF IInv
<1>11. CASE UNCHANGED vars
  BY <1>11 DEF vars, memory, disk, IInv, TypeOK, TodoShaped, DownIsIdle,
    LineBeforeSnapshot, ResultBeforeSnapshot, OverIsIdle, SnapshotHasEvent,
    SnapshotHasResult, SequenceIsLast, SequencesGrowInLife
<1> QED
  BY <1>1, <1>2, <1>3, <1>4, <1>5, <1>6, <1>7, <1>8, <1>9, <1>10, <1>11, <1>12,
     <1>13 DEF Next

\* The invariant holds in every state, whatever fails.
THEOREM Invariance == Spec => []IInv
BY Initially, Inductive, PTL DEF Spec

\* Record, files and file steps have the types the code gives them.
THEOREM Typing == Spec => []TypeOK
BY Invariance, PTL DEF IInv

\* A snapshot never shows a state whose event the journal does not hold.
THEOREM SnapshotBacked == Spec => []SnapshotHasEvent
BY Invariance, PTL DEF IInv

\* A snapshot never shows a job as over before its result file does.
THEOREM ResultWritten == Spec => []SnapshotHasResult
BY Invariance, PTL DEF IInv

\* Sequence numbers grow within each life of the server.
THEOREM SequencesGrow == Spec => []SequencesGrowInLife
BY Invariance, PTL DEF IInv

-----------------------------------------------------------------------------
(* Lives in which nothing fails *)

\* The steps left when no snapshot is among them.
Saving == {<<>>, <<AppendOf("progress")>>, <<StartTask>>}

\* While nothing fails the snapshot shows the state of the record, unless
\* it is still to be written or the record has expired.
SnapshotFollows ==
  failures = 0 /\ up /\ todo \in Saving =>
    \/ snapshot.state = state
    \/ snapshot.state \in Terminal /\ state = "absent"

\* What a client has seen over is over in the snapshot.
SeenKept == failures = 0 /\ seen \in Terminal => snapshot.state = seen

\* A restarted server has no job that is not over.
SettledAfterRestart == up /\ life > 1 => state \in Terminal \cup {"absent"}

Kept == SnapshotFollows /\ SeenKept /\ SettledAfterRestart

\* Only the snapshot itself shortens the list to one without it.
LEMMA SavingFacts ==
  ASSUME NEW s \in States, NEW t \in Left(s), Tail(t) \in Saving,
         Head(t).op # "snapshot"
  PROVE  t \in Saving
<1> USE ShortLists, OpFacts DEF Saving
<1>1. CASE s = "queued"
  <2>1. Left(s) = {<<AppendOf(s), WriteSnapshot, StartTask>>,
                   <<WriteSnapshot, StartTask>>, <<StartTask>>}
    BY <1>1 DEF Left, Terminal, Running
  <2>2. CASE t = <<AppendOf(s), WriteSnapshot, StartTask>>
    BY <2>2
  <2> QED BY <2>1, <2>2
<1>2. CASE s \in Running
  <2>1. Left(s) = {<<AppendOf(s), WriteSnapshot>>, <<WriteSnapshot>>, <<AppendOf("progress")>>}
    BY <1>2 DEF Left, Terminal, Running
  <2>2. CASE t = <<AppendOf(s), WriteSnapshot>>
    BY <2>2
  <2> QED BY <2>1, <2>2
<1>3. CASE s = "completed"
  <2>1. Left(s) = {<<AppendOf(s), WriteResult, WriteSnapshot>>,
                   <<WriteResult, WriteSnapshot>>, <<WriteSnapshot>>}
    BY <1>3 DEF Left, Terminal, Running
  <2>2. CASE t = <<AppendOf(s), WriteResult, WriteSnapshot>>
    BY <2>2
  <2>3. CASE t = <<WriteResult, WriteSnapshot>>
    BY <2>3
  <2> QED BY <2>1, <2>2, <2>3
<1>4. CASE s \in Terminal \ {"completed"}
  <2>1. Left(s) = {<<AppendOf(s), WriteResult, LogError, WriteSnapshot>>,
                   <<WriteResult, LogError, WriteSnapshot>>,
                   <<LogError, WriteSnapshot>>, <<WriteSnapshot>>}
    BY <1>4 DEF Left, Terminal, Running
  <2>2. CASE t = <<AppendOf(s), WriteResult, LogError, WriteSnapshot>>
    BY <2>2
  <2>3. CASE t = <<WriteResult, LogError, WriteSnapshot>>
    BY <2>3
  <2>4. CASE t = <<LogError, WriteSnapshot>>
    BY <2>4
  <2> QED BY <2>1, <2>2, <2>3, <2>4
<1> QED BY <1>1, <1>2, <1>3, <1>4 DEF Left, States, Terminal, Running

\* A list a handler or task begins with contains the snapshot, unless it is
\* that of a worker event.
LEMMA FirstNotSaving ==
  /\ <<AppendOf("queued"), WriteSnapshot, StartTask>> \notin Saving
  /\ \A s \in Running : Transition(s) \notin Saving
  /\ \A s \in Terminal : Settlement(s) \notin Saving
<1>1. \A s : /\ <<AppendOf(s), WriteSnapshot, StartTask>> \notin Saving
             /\ <<AppendOf(s), WriteSnapshot>> \notin Saving
             /\ <<AppendOf(s), WriteResult, WriteSnapshot>> \notin Saving
             /\ <<AppendOf(s), WriteResult, LogError, WriteSnapshot>> \notin Saving
  BY DEF Saving
<1>2. \A s \in Running : Transition(s) \notin Saving
  BY <1>1 DEF Transition
<1>3. ASSUME NEW s \in Terminal
      PROVE  Settlement(s) \notin Saving
  <2>1. CASE s = "completed" BY Zenon, <1>1, <2>1 DEF Settlement
  <2>2. CASE s # "completed" BY Zenon, <1>1, <2>2 DEF Settlement
  <2> QED BY <2>1, <2>2
<1> QED BY <1>1, <1>2, <1>3

\* Every step keeps memory and snapshot in agreement while nothing fails.
LEMMA KeptStep == IInv /\ Kept /\ [Next]_vars => Kept'
<1> SUFFICES ASSUME IInv, Kept, [Next]_vars PROVE Kept'
  OBVIOUS
<1> USE DEF Kept, SnapshotFollows, SeenKept, SettledAfterRestart
<1>0. state \in States /\ failures \in Nat /\ life \in Nat
  BY DEF IInv, TypeOK
<1>1. CASE Create \/ Dispatch \/ CancelQueued \/ CancelRunning
           \/ \E s \in Terminal : Settle(s)
  <2>1. /\ todo' \notin Saving /\ up /\ life \in {1, life}
        /\ UNCHANGED <<life, up, snapshot, failures, seen>>
    BY <1>1, FirstNotSaving DEF Create, Dispatch, CancelQueued, CancelRunning,
       Settle, Run, disk, Idle, Running, Terminal
  <2>2. life > 1 => state \in Terminal \cup {"absent"}
    BY <2>1
  <2>3. state = "absent" => life = 1
    BY <1>1 DEF Create, Dispatch, CancelQueued, CancelRunning, Settle, Running
  <2>4. state \notin Terminal
    BY <1>1 DEF Create, Dispatch, CancelQueued, CancelRunning, Settle, Running, Terminal
  <2> QED BY <1>0, <2>1, <2>2, <2>3, <2>4
<1>2. CASE WorkerEvent
  BY <1>2 DEF WorkerEvent, Idle, disk, Saving
<1>3. CASE Read
  BY <1>3 DEF Read, Idle, disk, memory, Saving
<1>10. CASE Expire
  BY <1>10 DEF Expire, Idle, disk, Saving, Terminal
<1>11. CASE StartFails
  BY <1>0, <1>11 DEF StartFails, Idle, disk, Terminal
<1>4. CASE DoAppend \/ DoResult \/ DoLog \/ DoTask
  <2>1. /\ todo # <<>> /\ todo' = Tail(todo) /\ Head(todo).op # "snapshot"
        /\ UNCHANGED <<life, up, state, snapshot, failures, seen>>
    BY <1>4 DEF DoAppend, DoResult, DoLog, DoTask, Doing, memory, disk
  <2>2. todo \in Left(state)
    BY <2>1 DEF IInv, TodoShaped
  <2>3. todo' \in Saving => todo \in Saving
    BY <1>0, <2>1, <2>2, SavingFacts
  <2> QED BY <2>1, <2>3
<1>5. CASE DoSnapshot
  <2>1. todo # <<>> /\ snapshot'.state = state
    BY <1>5 DEF DoSnapshot, Doing
  <2>2. snapshot.state \notin Terminal
    BY <2>1 DEF IInv, OverIsIdle
  <2> QED BY <1>5, <2>1, <2>2 DEF DoSnapshot, memory
<1>6. CASE WriteFails
  <2>1. failures' # 0
    BY <1>0, <1>6 DEF WriteFails
  <2>2. up' => up /\ life' = life /\ state' = state
    BY <1>6 DEF WriteFails
  <2> QED BY <2>1, <2>2
<1>7. CASE Crash
  BY <1>7 DEF Crash, disk, memory
<1>8. CASE Restore
  <2>1. /\ snapshot' = snapshot /\ failures' = failures /\ seen' = seen
        /\ state' \in Terminal \cup {"absent"}
    BY <1>8 DEF Restore, disk, Terminal
  <2>2. todo' \in Saving => \/ state' = snapshot.state
                            \/ snapshot.state \in Terminal /\ state' = "absent"
    BY <1>8, FirstNotSaving DEF Restore, Run, Terminal
  <2> QED BY <2>1, <2>2
<1>9. CASE UNCHANGED vars
  BY <1>9 DEF vars, memory, disk
<1> QED
  BY <1>1, <1>2, <1>3, <1>4, <1>5, <1>6, <1>7, <1>8, <1>9, <1>10, <1>11 DEF Next

LEMMA AlwaysKept == Spec => []Kept
<1>1. Init => Kept
  BY DEF Init, Kept, SnapshotFollows, SeenKept, SettledAfterRestart, Terminal
<1> QED BY <1>1, KeptStep, Invariance, PTL DEF Spec

\* While nothing fails, a job that a client has seen over stays over in the
\* same way through any number of crashes and restarts: its snapshot says so,
\* and its record until it expires.
THEOREM SurvivesRestarts == Spec => []FinishedSurvives
<1>1. Kept => FinishedSurvives
  BY DEF Kept, SnapshotFollows, SeenKept, FinishedSurvives, Idle, Saving
<1> QED BY <1>1, AlwaysKept, PTL

\* A restarted server that is ready has no job left active without a task.
THEOREM SettlesAtRestart == Spec => []RestartSettles
<1>1. Kept => RestartSettles
  BY DEF Kept, SettledAfterRestart, RestartSettles, Idle
<1> QED BY <1>1, AlwaysKept, PTL

-----------------------------------------------------------------------------
(* The files as their readers know them *)

\* Lines are numbered from 1.
Numbered == \A i \in 1 .. Len(journal) : journal[i].sequence > 0

\* The snapshot of the first life does not run ahead of the journal.
SnapshotBehind == life = 1 => snapshot.sequence <= Final.sequence

\* In the first life a job whose journal has ended is over and appends no more.
EndedIsOver ==
  life = 1 /\ Final.kind \in Terminal =>
    /\ state \in Terminal \cup {"absent"}
    /\ todo # <<>> => Head(todo).op # "append"

\* A restarted server numbers the one event it appends from the snapshot, of a
\* job that the snapshot does not show over.
SettlesFromSnapshot ==
  life > 1 /\ todo # <<>> /\ Head(todo).op = "append" =>
    /\ sequence = snapshot.sequence
    /\ snapshot.state \notin Terminal \cup {"absent"}

\* A journal has ended beyond a snapshot that does not show it.
EndedAbove ==
  Final.kind \in Terminal /\ snapshot.state \notin Terminal =>
    snapshot.sequence < Final.sequence

FileInv ==
  /\ Numbered /\ SnapshotBehind /\ EndedIsOver /\ SettlesFromSnapshot /\ EndedAbove

\* The last line, or the one before all.
LEMMA FinalFacts ==
  ASSUME IInv
  PROVE  /\ Final.sequence \in Nat
         /\ Final.kind \in Terminal => journal # <<>>
         /\ life = 1 => Final.sequence <= sequence
         /\ journal # <<>> => /\ Final = journal[Len(journal)]
                              /\ Len(journal) \in 1 .. Len(journal)
                              /\ Final \in Lines
PROOF
<1>1. journal \in Seq(Lines) /\ sequence \in Nat /\ life \in 1 .. MaxLives
  BY DEF IInv, TypeOK, Lines
<1>2. CASE journal = <<>>
  BY <1>1, <1>2 DEF Final, Terminal
<1>3. CASE journal # <<>>
  <2>1. /\ Final = journal[Len(journal)] /\ Len(journal) \in 1 .. Len(journal)
        /\ Final \in Lines
    BY <1>1, <1>3 DEF Final
  <2>2. Final.life <= life /\ (Final.life = life => Final.sequence <= sequence)
    BY <2>1 DEF IInv, SequenceIsLast
  <2>3. Final.life \in 1 .. MaxLives /\ Final.sequence \in Nat
    BY <2>1 DEF Lines
  <2> QED BY <1>1, <1>3, <2>1, <2>2, <2>3
<1> QED BY <1>2, <1>3

\* A line appended is the last line.
LEMMA FinalAppended ==
  ASSUME IInv, Doing("append"), journal' = Append(journal, NewLine)
  PROVE  /\ Final' = NewLine
         /\ NewLine.sequence = sequence + 1
         /\ NewLine.kind = Head(todo).kind
         /\ Len(journal') = Len(journal) + 1
         /\ \A i \in 1 .. Len(journal) : journal'[i] = journal[i]
         /\ journal'[Len(journal) + 1] = NewLine
         /\ NewLine \in Lines
PROOF
<1>1. journal \in Seq(Lines) /\ sequence \in Nat /\ life \in 1 .. MaxLives
      /\ state \in States
  BY DEF IInv, TypeOK, Lines
<1>2. Head(todo) \in Ops /\ Head(todo).op = "append" /\ todo \in Left(state)
  BY <1>1, LeftFacts DEF Doing, IInv, TodoShaped
<1>3. Head(todo).kind \in States \cup {"progress"}
  BY <1>1, <1>2, LeftFacts
<1>4. NewLine \in Lines BY <1>1, <1>3 DEF NewLine, Lines
<1>5. /\ Len(journal') = Len(journal) + 1
      /\ \A i \in 1 .. Len(journal) : journal'[i] = journal[i]
      /\ journal'[Len(journal) + 1] = NewLine
      /\ journal' # <<>>
  BY <1>1, <1>4
<1>6. Final' = NewLine BY <1>5 DEF Final
<1> QED BY <1>4, <1>5, <1>6 DEF NewLine

\* Of an event about to be appended: in the first life the journal has not
\* ended, and later the event is that of a job settled from the snapshot.
LEMMA AppendFacts ==
  ASSUME IInv, Kept, FileInv, Doing("append")
  PROVE  /\ sequence \in Nat /\ todo \in Left(state)
         /\ life = 1 => /\ Final.kind \notin Terminal
                        /\ Final.sequence <= sequence
                        /\ snapshot.sequence <= sequence
                        /\ Head(todo).kind \in Terminal => state \in Terminal
         /\ life # 1 => /\ sequence = snapshot.sequence
                        /\ snapshot.state \notin Terminal \cup {"absent"}
                        /\ Head(todo).kind \in Terminal
                        /\ state \in Terminal
         /\ Tail(todo) = <<>> \/ Head(Tail(todo)).op # "append"
PROOF
<1>1. /\ state \in States /\ life \in 1 .. MaxLives /\ sequence \in Nat
      /\ todo # <<>> /\ todo \in Left(state) /\ up /\ Head(todo).op = "append"
      /\ snapshot.sequence \in Nat
  BY DEF Doing, IInv, TypeOK, TodoShaped
<1>2. \/ Head(todo).kind = "progress" /\ Tail(todo) = <<>>
      \/ Head(todo).kind = state
  BY <1>1, LeftFacts
<1>3. /\ Final.sequence \in Nat
      /\ life = 1 => Final.sequence <= sequence /\ snapshot.sequence <= Final.sequence
  BY FinalFacts DEF FileInv, SnapshotBehind
<1>4. life = 1 => Final.kind \notin Terminal
  BY <1>1 DEF FileInv, EndedIsOver
<1>5. life # 1 => /\ sequence = snapshot.sequence
                  /\ snapshot.state \notin Terminal \cup {"absent"}
                  /\ state \in Terminal \cup {"absent"}
  BY <1>1 DEF FileInv, SettlesFromSnapshot, Kept, SettledAfterRestart
<1>6. state # "absent" BY <1>1 DEF Left, Terminal, Running
<1>7. Tail(todo) = <<>> \/ Head(Tail(todo)).op # "append"
  BY <1>1, AppendOnce
<1>8. state \in Terminal => Head(todo).kind = state
  BY <1>1, AppendOnce
<1>9. "progress" \notin Terminal BY DEF Terminal
<1> QED BY <1>1, <1>2, <1>3, <1>4, <1>5, <1>6, <1>7, <1>8, <1>9

\* A line appended keeps what readers rely on, whether the code that appended it
\* goes on or fails.
LEMMA FileKeptByAppend ==
  ASSUME IInv, Kept, FileInv, Doing("append"), life' = life, state' = state,
         snapshot' = snapshot, sequence' = sequence + 1,
         journal' = Append(journal, NewLine), todo' \in {<<>>, Tail(todo)}
  PROVE  FileInv'
PROOF
<1>1. /\ Final' = NewLine /\ NewLine.sequence = sequence + 1
      /\ NewLine.kind = Head(todo).kind
      /\ Len(journal') = Len(journal) + 1
      /\ \A i \in 1 .. Len(journal) : journal'[i] = journal[i]
      /\ journal'[Len(journal) + 1] = NewLine
  BY FinalAppended
<1>2. journal \in Seq(Lines) /\ Len(journal) \in Nat /\ sequence \in Nat
      /\ snapshot.sequence \in Nat /\ life \in 1 .. MaxLives
  BY DEF IInv, TypeOK, Lines
<1>3. Numbered'
  <2>1. ASSUME NEW i \in 1 .. Len(journal') PROVE journal'[i].sequence > 0
    <3>1. CASE i \in 1 .. Len(journal) BY <1>1, <3>1 DEF FileInv, Numbered
    <3>2. CASE i = Len(journal) + 1 BY <1>1, <1>2, <3>2
    <3> QED BY <1>1, <1>2, <3>1, <3>2
  <2> QED BY <2>1 DEF Numbered
<1>4. SnapshotBehind'
  BY <1>1, <1>2, AppendFacts DEF SnapshotBehind
<1>5. todo' # <<>> => Head(todo').op # "append"
  BY AppendFacts
<1>6. EndedIsOver' BY <1>1, <1>5, AppendFacts DEF EndedIsOver
<1>7. SettlesFromSnapshot' BY <1>5 DEF SettlesFromSnapshot
<1>8. EndedAbove'
  BY <1>1, <1>2, AppendFacts DEF EndedAbove
<1> QED BY <1>3, <1>4, <1>6, <1>7, <1>8 DEF FileInv

\* Steps that leave journal and snapshot alone in the same life.
LEMMA FileKeptOtherwise ==
  ASSUME FileInv, UNCHANGED <<life, journal, snapshot>>,
         \/ UNCHANGED <<state, sequence, todo>>
         \/ /\ UNCHANGED state
            /\ todo' = <<>> \/ Head(todo').op # "append"
         \/ life = 1 /\ Final.kind \notin Terminal
         \/ UNCHANGED <<sequence, todo>> /\ state' = "absent"
  PROVE  FileInv'
PROOF
<1>1. Final' = Final BY DEF Final
<1>2. Numbered' /\ SnapshotBehind' /\ EndedAbove'
  BY <1>1 DEF FileInv, Numbered, SnapshotBehind, EndedAbove
<1>3. EndedIsOver' BY <1>1 DEF FileInv, EndedIsOver
<1>4. SettlesFromSnapshot' BY DEF FileInv, SettlesFromSnapshot
<1> QED BY <1>2, <1>3, <1>4 DEF FileInv

LEMMA FileInvStep ==
  ASSUME IInv, Kept, FileInv, [Next]_vars
  PROVE  FileInv'
PROOF
<1>0. /\ state \in States /\ life \in 1 .. MaxLives /\ sequence \in Nat
      /\ snapshot.sequence \in Nat
  BY DEF IInv, TypeOK
<1>1. CASE Create
  <2>1. life = 1 /\ Final.kind \notin Terminal
    BY <1>1 DEF Create, Final, Terminal
  <2> QED BY <1>1, <2>1, FileKeptOtherwise DEF Create, disk
<1>2. CASE Dispatch \/ StartFails \/ WorkerEvent \/ CancelQueued \/ CancelRunning
           \/ \E s \in Terminal : Settle(s)
  <2>1. /\ state \notin Terminal \cup {"absent"} /\ up
        /\ UNCHANGED <<life, journal, snapshot>>
    BY <1>2 DEF Dispatch, StartFails, WorkerEvent, CancelQueued, CancelRunning, Settle, Idle,
                Running, Terminal, disk
  <2>2. life = 1 BY <1>0, <2>1 DEF Kept, SettledAfterRestart
  <2>3. Final.kind \notin Terminal BY <2>1, <2>2 DEF FileInv, EndedIsOver
  <2> QED BY <2>1, <2>2, <2>3, FileKeptOtherwise
<1>3. CASE Read \/ UNCHANGED vars
  BY <1>3, FileKeptOtherwise DEF Read, vars, disk, memory
<1>10. CASE Expire
  BY <1>10, FileKeptOtherwise DEF Expire, disk
<1>4. CASE DoAppend
  BY <1>4, FileKeptByAppend DEF DoAppend
<1>5. CASE DoResult \/ DoLog \/ DoTask
  <2>1. /\ todo # <<>> /\ todo' = Tail(todo)
        /\ UNCHANGED <<life, state, journal, snapshot>>
    BY <1>5 DEF DoResult, DoLog, DoTask, Doing, disk, memory
  <2>2. todo \in Left(state) BY <2>1 DEF IInv, TodoShaped
  <2>3. todo' = <<>> \/ Head(todo').op # "append"
    BY <1>0, <2>1, <2>2, AppendOnce
  <2> QED BY <2>1, <2>3, FileKeptOtherwise
<1>6. CASE DoSnapshot
  <2>1. /\ todo # <<>> /\ todo' = Tail(todo) /\ Head(todo).op = "snapshot"
        /\ snapshot'.state = state /\ snapshot'.sequence = sequence
        /\ UNCHANGED <<life, state, sequence, journal>>
    BY <1>6 DEF DoSnapshot, Doing, memory
  <2>2. todo' = <<>> \/ Head(todo').op # "append"
    BY <1>0, <2>1, AppendOnce DEF IInv, TodoShaped
  <2>3. Final.kind = state /\ Final.sequence = sequence
    BY <2>1 DEF IInv, LineBeforeSnapshot, Final
  <2>4. Final' = Final BY <2>1 DEF Final
  <2>5. Numbered' BY <2>1 DEF FileInv, Numbered
  <2>6. SnapshotBehind' /\ EndedAbove'
    BY <1>0, <2>1, <2>3, <2>4 DEF SnapshotBehind, EndedAbove
  <2>7. EndedIsOver' /\ SettlesFromSnapshot'
    BY <2>1, <2>2, <2>3, <2>4 DEF EndedIsOver, SettlesFromSnapshot
  <2> QED BY <2>5, <2>6, <2>7 DEF FileInv
<1>7. CASE WriteFails
  <2>1. todo' = <<>> /\ UNCHANGED <<life, state, snapshot>>
    BY <1>7 DEF WriteFails
  <2>2. CASE journal' = journal BY <2>1, <2>2, FileKeptOtherwise
  <2>3. CASE journal' # journal
    BY <1>7, <2>1, <2>3, FileKeptByAppend DEF WriteFails
  <2> QED BY <2>2, <2>3
<1>8. CASE Crash
  BY <1>8, FileKeptOtherwise DEF Crash, memory, disk
<1>9. CASE Restore
  <2>1. /\ life' = life + 1 /\ sequence' = snapshot.sequence
        /\ UNCHANGED <<journal, snapshot>>
        /\ \/ todo' = todo /\ ~ up
           \/ snapshot.state \notin Terminal \cup {"absent"}
    BY <1>9 DEF Restore, disk
  <2>2. Final' = Final BY <2>1 DEF Final
  <2>3. Numbered' /\ EndedAbove'
    BY <2>1, <2>2 DEF FileInv, Numbered, EndedAbove
  <2>4. life' # 1 BY <1>0, <2>1
  <2>5. SnapshotBehind' /\ EndedIsOver' BY <2>4 DEF SnapshotBehind, EndedIsOver
  <2>6. todo' # <<>> => snapshot.state \notin Terminal \cup {"absent"}
    BY <2>1 DEF IInv, DownIsIdle
  <2>7. SettlesFromSnapshot' BY <2>1, <2>6 DEF SettlesFromSnapshot
  <2> QED BY <2>3, <2>5, <2>7 DEF FileInv
<1> QED
  BY <1>1, <1>2, <1>3, <1>4, <1>5, <1>6, <1>7, <1>8, <1>9, <1>10 DEF Next

\* A line appended is, to readers, a further event or the event of a restart.
LEMMA FileAppend ==
  ASSUME IInv, Kept, FileInv, Doing("append"), snapshot' = snapshot,
         journal' = Append(journal, NewLine)
  PROVE  File!Next
PROOF
<1>1. /\ Final' = NewLine /\ NewLine.sequence = sequence + 1
      /\ NewLine.kind = Head(todo).kind
      /\ Len(journal') = Len(journal) + 1
      /\ \A i \in 1 .. Len(journal) : journal'[i] = journal[i]
      /\ journal'[Len(journal) + 1] = NewLine
  BY FinalAppended
<1>2. /\ journal \in Seq(Lines) /\ Len(journal) \in Nat /\ sequence \in Nat
      /\ snapshot.sequence \in Nat /\ snapshot.state \in States
      /\ life \in 1 .. MaxLives /\ Final.sequence \in Nat
  BY FinalFacts DEF IInv, TypeOK, Lines
<1> DEFINE Shown(j) == [i \in 1 .. Len(j) |->
                          [sequence |-> j[i].sequence,
                           terminal |-> j[i].kind \in Terminal]]
           t == Final'.kind \in Terminal
           n == Final'.sequence
<1>3. Shown(journal') = Append(Shown(journal), File!Line(n, t))
  <2> DEFINE S == [sequence : Nat, terminal : BOOLEAN]
             l == File!Line(n, t)
             c == Shown(journal)
             d == Shown(journal')
  <2>1. \A i \in 1 .. Len(journal) : c[i] \in S
    <3>1. \A i \in 1 .. Len(journal) : journal[i] \in Lines BY <1>2
    <3>2. \A i \in 1 .. Len(journal) : journal[i].sequence \in Nat
      BY <3>1 DEF Lines
    <3> QED BY <3>2
  <2>2. c \in Seq(S) /\ Len(c) = Len(journal) BY <1>2, <2>1, IsASeq
  <2>3. l \in S BY <1>1, <1>2 DEF File!Line
  <2>4. \A i \in 1 .. Len(journal) : d[i] = c[i] BY <1>1, <1>2
  <2>5. d[Len(journal) + 1] = l BY <1>1, <1>2 DEF File!Line
  <2>6. d = [i \in 1 .. Len(journal) + 1 |-> d[i]] BY <1>1, <1>2
  <2> HIDE DEF S, l, c, d
  <2>7. \A i \in 1 .. Len(journal) + 1 : d[i] \in S
    BY <1>2, <2>2, <2>3, <2>4, <2>5
  <2>8. d \in Seq(S) /\ Len(d) = Len(journal) + 1
    BY <1>2, <2>6, <2>7, IsASeq
  <2>9. /\ Append(c, l) \in Seq(S) /\ Len(Append(c, l)) = Len(journal) + 1
        /\ \A i \in 1 .. Len(journal) : Append(c, l)[i] = c[i]
        /\ Append(c, l)[Len(journal) + 1] = l
    BY <2>2, <2>3
  <2>10. d = Append(c, l)
    BY <1>2, <2>4, <2>5, <2>8, <2>9, SeqEqual
  <2> QED BY <2>10 DEF c, d, l
<1>4. File!Put(n, t)
  BY <1>3 DEF File!Put
<1>5. CASE life = 1
  <2>1. ~ (Final.kind \in Terminal) /\ n > Final.sequence
    BY <1>1, <1>2, <1>5, AppendFacts
  <2>2. File!Write(n, t) BY <1>4, <2>1 DEF File!Write
  <2>3. t \in BOOLEAN OBVIOUS
  <2>4. \E u \in BOOLEAN : File!Write(n, u) BY Zenon, <2>2, <2>3
  <2> QED BY <2>4 DEF File!Next
<1>6. CASE life # 1
  <2>1. t = TRUE /\ n = snapshot.sequence + 1
        /\ snapshot.state \notin Terminal \cup {"absent"}
    BY <1>1, <1>6, AppendFacts
  <2>2. snapshot.sequence > 0
    BY <1>2, <2>1 DEF IInv, SnapshotHasEvent, FileInv, Numbered
  <2>3. ~ File!Settled
    BY <1>2, <2>1 DEF File!Settled, FileInv, EndedAbove
  <2>4. File!Put(snapshot.sequence + 1, TRUE)
    <3>1. File!Line(n, t) = File!Line(snapshot.sequence + 1, TRUE)
      BY <2>1 DEF File!Line
    <3>2. Shown(journal') = Append(Shown(journal), File!Line(snapshot.sequence + 1, TRUE))
      <4> HIDE DEF Shown, n, t
      <4> QED BY Zenon, <1>3, <3>1
    <3>3. n = snapshot.sequence + 1 /\ t = TRUE BY <2>1
    <3> QED BY <3>2, <3>3 DEF File!Put
  <2>5. File!Settle BY <2>2, <2>3, <2>4 DEF File!Settle
  <2> QED BY <2>5 DEF File!Next
<1> QED BY <1>5, <1>6

\* Every step of the code is a step of the files, or one readers do not see.
LEMMA FileStep ==
  ASSUME IInv, Kept, FileInv, [Next]_vars
  PROVE  [File!Next]_(File!fileVars)
PROOF
<1>1. CASE journal' = journal /\ snapshot'.sequence = snapshot.sequence
  <2>1. Final' = Final BY <1>1 DEF Final
  <2> QED BY <1>1, <2>1 DEF File!fileVars
<1>2. CASE DoSnapshot
  <2>1. /\ todo # <<>> /\ Head(todo).op = "snapshot" /\ journal' = journal
        /\ snapshot'.sequence = sequence
    BY <1>2 DEF DoSnapshot, Doing
  <2>2. Final.sequence = sequence
    BY <2>1 DEF IInv, LineBeforeSnapshot, Final
  <2>3. Final' = Final BY <2>1 DEF Final
  <2>4. File!Save BY <2>1, <2>2, <2>3 DEF File!Save
  <2> QED BY <2>4 DEF File!Next
<1>3. CASE DoAppend
  BY <1>3, FileAppend DEF DoAppend
<1>4. CASE WriteFails
  <2>1. snapshot' = snapshot BY <1>4 DEF WriteFails
  <2>2. CASE journal' # journal
    BY <1>4, <2>1, <2>2, FileAppend DEF WriteFails
  <2> QED BY <1>1, <2>1, <2>2
<1>5. CASE ~ (DoSnapshot \/ DoAppend \/ WriteFails)
  <2>1. UNCHANGED <<journal, snapshot>>
    BY <1>5 DEF Next, Create, Dispatch, StartFails, WorkerEvent, CancelQueued, CancelRunning,
       Settle, Read, Expire, DoResult, DoLog, DoTask, Crash, Restore, vars, disk
  <2> QED BY <1>1, <2>1
<1> QED BY <1>2, <1>3, <1>4, <1>5

\* Whatever fails and wherever the process dies, readers of the files see the
\* journal and the snapshot that EventFile promises.
THEOREM FilesImplemented == Spec => ImplementsEventFile
PROOF
<1>1. Init => FileInv
  BY DEF Init, FileInv, Numbered, SnapshotBehind, EndedIsOver, SettlesFromSnapshot,
         EndedAbove, Final, Terminal
<1>2. Init => File!Init
  BY DEF Init, File!Init, Final, Terminal
<1>3. IInv /\ Kept /\ FileInv /\ [Next]_vars => FileInv'
  BY FileInvStep
<1>4. IInv /\ Kept /\ FileInv /\ [Next]_vars => [File!Next]_(File!fileVars)
  BY FileStep
<1> QED
  BY <1>1, <1>2, <1>3, <1>4, Invariance, AlwaysKept, PTL
     DEF Spec, ImplementsEventFile, File!Spec

\* Once its snapshot shows a job over, none of its files ever changes again, in
\* no life of the server and whatever fails.
FilesFinal == [][snapshot.state \in Terminal => UNCHANGED disk]_vars

\* A job whose snapshot shows it over is never settled, journaled or saved again.
THEOREM OverForGood == Spec => FilesFinal
PROOF
<1>1. ASSUME IInv, [Next]_vars, snapshot.state \in Terminal
      PROVE  UNCHANGED disk
  <2>1. todo = <<>> BY <1>1 DEF IInv, OverIsIdle
  <2>2. CASE DoAppend \/ DoResult \/ DoSnapshot \/ WriteFails
    BY <2>1, <2>2 DEF DoAppend, DoResult, DoSnapshot, WriteFails, Doing
  <2>3. CASE ~ (DoAppend \/ DoResult \/ DoSnapshot \/ WriteFails)
    BY <1>1, <2>3 DEF Next, Create, Dispatch, StartFails, WorkerEvent, CancelQueued,
       CancelRunning, Settle, Read, Expire, DoLog, DoTask, Crash, Restore, vars
  <2> QED BY <2>2, <2>3
<1>2. IInv /\ [Next]_vars => [snapshot.state \in Terminal => UNCHANGED disk]_vars
  BY <1>1
<1> QED BY <1>2, Invariance, PTL DEF Spec, FilesFinal
=============================================================================
