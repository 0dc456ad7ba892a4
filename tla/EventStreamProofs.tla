-------------------------- MODULE EventStreamProofs --------------------------
(***************************************************************************)
(* Proofs about EventStream: nobody sleeps through the end of the job, and  *)
(* until the server restarts each client receives the journal.              *)
(***************************************************************************)
EXTENDS EventStream, SequenceTheorems, TLAPS

\* The record's sequence is that of the last line, and a worker event is
\* journaled only while there is room for the terminal one.
JobBounds ==
  /\ saved <= sequence
  /\ sequence <= Len(journal)
  /\ journal[Len(journal)].sequence = sequence
  /\ ~ terminal => Len(journal) <= MaxEvents

Started == {"yielding", "registering", "waiting", "beating", "closed"}

\* A suspended generator that has handed out a line stands at that line, and
\* before a generator has started no frame is on its way.
StreamShaped ==
  \A s \in Subscribers :
    /\ pc[s] = "yielding" => next[s] <= MaxEvents + 1
    /\ pc[s] \notin Started => flight[s] = <<>>

\* In the first life the sequence of a line is its number, and the terminal
\* line is the last.
Numbered ==
  /\ sequence = Len(journal)
  /\ \A i \in 1 .. Len(journal) : journal[i].sequence = i
  /\ terminal => journal[Len(journal)].terminal

Sent(s) == Len(received[s]) + Len(flight[s])

\* What a client has received and what is on its way to it are the first lines
\* of the journal, and the generator continues right after them.
Tracks(s) ==
  /\ Sent(s) <= Len(journal)
  /\ \A i \in 1 .. Len(received[s]) : received[s][i] = journal[i]
  /\ \A i \in 1 .. Len(flight[s]) : flight[s][i] = journal[Len(received[s]) + i]
  /\ pc[s] \in {"opening", "registering", "waiting", "beating", "closed"} =>
       next[s] = Sent(s) + 1
  /\ pc[s] = "yielding" => next[s] = Sent(s)
  /\ pc[s] = "closed" => terminal /\ Sent(s) = Len(journal)

Delivered == restarts = 0 => Numbered /\ \A s \in Subscribers : Tracks(s)

\* A generator that waits, or is about to, misses no line but by another's clear;
\* once the job is over the event stays set for it.
Attentive(s) ==
  /\ pc[s] = "waiting" /\ woken[s] = FALSE =>
       terminal = FALSE /\ (Unread(next[s]) = {} \/ s \in erased)
  /\ pc[s] = "registering" /\ updated = FALSE =>
       terminal = FALSE /\ (Unread(next[s]) = {} \/ s \in erased)

AllAttentive == \A s \in Subscribers : Attentive(s)

IInv == TypeOK /\ JobBounds /\ StreamShaped /\ AllAttentive /\ Delivered

LEMMA Initially == Init => IInv
PROOF
<1> SUFFICES ASSUME Init PROVE IInv OBVIOUS
<1> USE BoundsAssumption
<1>1. TypeOK
  <2>1. File!Line(1, FALSE) \in Lines BY DEF File!Line, Lines
  <2>2. ASSUME NEW l \in Lines PROVE <<l>> \in Seq(Lines) OBVIOUS
  <2>3. journal \in Seq(Lines) BY <2>1, <2>2 DEF Init
  <2>4. <<>> \in Seq(Lines) OBVIOUS
  <2>5. /\ sequence \in 1 .. MaxEvents + 1
        /\ saved \in 1 .. MaxEvents + 1
        /\ restarts \in 0 .. MaxRestarts
    BY DEF Init
  <2>6. /\ terminal \in BOOLEAN /\ retained \in BOOLEAN /\ updated \in BOOLEAN
        /\ pc \in [Subscribers -> Places]
        /\ woken \in [Subscribers -> BOOLEAN]
        /\ erased \subseteq Subscribers
    BY DEF Init, Places
  <2>7. /\ next \in [Subscribers -> 1 .. MaxEvents + 2]
        /\ drops \in [Subscribers -> 0 .. MaxDrops]
    BY DEF Init
  <2>8. /\ flight \in [Subscribers -> Seq(Lines)]
        /\ received \in [Subscribers -> Seq(Lines)]
    BY <2>4 DEF Init
  <2> QED BY <2>3, <2>5, <2>6, <2>7, <2>8 DEF TypeOK
<1>2. JobBounds BY DEF Init, JobBounds, File!Line
<1>3. StreamShaped BY DEF Init, StreamShaped, Started
<1>4. AllAttentive BY DEF Init, AllAttentive, Attentive
<1>5. Numbered BY DEF Init, Numbered, File!Line
<1>6. ASSUME NEW s \in Subscribers PROVE Tracks(s)
  BY DEF Init, Tracks, Sent
<1> QED BY <1>1, <1>2, <1>3, <1>4, <1>5, <1>6 DEF IInv, Delivered

-----------------------------------------------------------------------------
(* What the steps of a generator have in common *)

\* Where the generator goes on reading.
From(s) == IF pc[s] = "yielding" THEN next[s] + 1 ELSE next[s]

Breaks(s) ==
  /\ pc[s] = "opening"
  /\ pc' = [pc EXCEPT ![s] = "broken"]
  /\ UNCHANGED <<eventVars, woken, next, flight>>

Registers(s) ==
  /\ pc[s] = "registering"
  /\ pc' = [pc EXCEPT ![s] = "waiting"]
  /\ woken' = [woken EXCEPT ![s] = updated]
  /\ UNCHANGED <<eventVars, next, flight>>

\* A generator breaks, has its wait registered, or passes over the journal once.
LEMMA GeneratorPasses ==
  ASSUME TypeOK, StreamShaped, NEW s \in Subscribers, GeneratorStep(s)
  PROVE  /\ UNCHANGED <<jobVars, clientVars>>
         /\ From(s) \in 1 .. MaxEvents + 2
         /\ \/ Breaks(s)
            \/ Registers(s)
            \/ /\ pc[s] \in {"opening", "yielding", "waiting", "beating"}
               /\ Pass(s, From(s))
PROOF
<1>1. next[s] \in 1 .. MaxEvents + 2 BY DEF TypeOK
<1>2. pc[s] = "yielding" => next[s] <= MaxEvents + 1 BY DEF StreamShaped
<1>3. From(s) \in 1 .. MaxEvents + 2 BY <1>1, <1>2, BoundsAssumption DEF From
<1> QED BY <1>3 DEF GeneratorStep, Begin, Resume, Register, Wake, AfterHeartbeat,
                    Breaks, Registers, Goto, From

\* A pass hands out a line of the journal, or leaves the generator closed or
\* about to wait with nothing left to hand out.
LEMMA PassCases ==
  ASSUME TypeOK, NEW s \in Subscribers, NEW n \in 1 .. MaxEvents + 2, Pass(s, n)
  PROVE  \/ \E i \in First(Unread(n)) :
              /\ pc' = [pc EXCEPT ![s] = "yielding"]
              /\ next' = [next EXCEPT ![s] = journal[i].sequence]
              /\ flight' = [flight EXCEPT ![s] = Append(@, journal[i])]
              /\ woken' = [woken EXCEPT ![s] = FALSE]
              /\ Keep(s)
         \/ /\ Unread(n) = {} /\ terminal /\ n > sequence
            /\ pc' = [pc EXCEPT ![s] = "closed"]
            /\ next' = [next EXCEPT ![s] = n]
            /\ flight' = flight
            /\ woken' = [woken EXCEPT ![s] = FALSE]
            /\ Keep(s)
         \/ /\ Unread(n) = {} /\ ~ (terminal /\ n > sequence)
            /\ pc' = [pc EXCEPT ![s] = "registering"]
            /\ next' = [next EXCEPT ![s] = n]
            /\ flight' = flight
            /\ woken' = [woken EXCEPT ![s] = FALSE]
            /\ Clear(s)
PROOF BY DEF Pass, Yield, Leave, Goto

\* A line that can be handed out is one of the journal.
LEMMA LineTyped ==
  ASSUME TypeOK, NEW n, NEW i \in First(Unread(n))
  PROVE  /\ i \in 1 .. Len(journal)
         /\ journal[i] \in Lines
         /\ journal[i].sequence \in 1 .. MaxEvents + 1
PROOF
<1>1. i \in 1 .. Len(journal) BY DEF First, Unread
<1>2. journal[i] \in Lines BY <1>1 DEF TypeOK
<1> QED BY <1>1, <1>2 DEF Lines

\* The types of what a pass changes.
StreamTyped ==
  /\ updated \in BOOLEAN
  /\ erased \subseteq Subscribers
  /\ pc \in [Subscribers -> Places]
  /\ woken \in [Subscribers -> BOOLEAN]
  /\ next \in [Subscribers -> 1 .. MaxEvents + 2]
  /\ flight \in [Subscribers -> Seq(Lines)]

LEMMA PassTyped ==
  ASSUME TypeOK, StreamShaped,
         NEW s \in Subscribers, NEW n \in 1 .. MaxEvents + 2, Pass(s, n)
  PROVE  StreamTyped' /\ StreamShaped'
PROOF
<1> USE BoundsAssumption
<1>1. ASSUME NEW i \in First(Unread(n)),
             pc' = [pc EXCEPT ![s] = "yielding"],
             next' = [next EXCEPT ![s] = journal[i].sequence],
             flight' = [flight EXCEPT ![s] = Append(@, journal[i])],
             woken' = [woken EXCEPT ![s] = FALSE],
             Keep(s)
      PROVE  StreamTyped' /\ StreamShaped'
  <2>1. journal[i] \in Lines /\ journal[i].sequence \in 1 .. MaxEvents + 1
    BY LineTyped
  <2>2. Append(flight[s], journal[i]) \in Seq(Lines) BY <2>1 DEF TypeOK
  <2>3. journal[i].sequence \in 1 .. MaxEvents + 2 BY <2>1
  <2>4. StreamTyped' BY <1>1, <2>2, <2>3 DEF StreamTyped, TypeOK, Places, Connected, Keep
  <2>5. StreamShaped'
    BY <1>1, <2>1 DEF StreamShaped, TypeOK, Started
  <2> QED BY <2>4, <2>5
<1>2. ASSUME NEW p \in {"closed", "registering"},
             pc' = [pc EXCEPT ![s] = p],
             next' = [next EXCEPT ![s] = n],
             flight' = flight,
             woken' = [woken EXCEPT ![s] = FALSE],
             updated' \in BOOLEAN, erased' \subseteq Subscribers
      PROVE  StreamTyped' /\ StreamShaped'
  <2>1. StreamTyped' BY <1>2 DEF StreamTyped, TypeOK, Places, Connected
  <2>2. StreamShaped' BY <1>2 DEF StreamShaped, TypeOK, Started
  <2> QED BY <2>1, <2>2
<1>3. Keep(s) \/ Clear(s) => updated' \in BOOLEAN /\ erased' \subseteq Subscribers
  BY DEF TypeOK, Keep, Clear
<1> QED BY <1>1, <1>2, <1>3, PassCases

-----------------------------------------------------------------------------
(* Types, bounds and the shape of connections *)

Shape == TypeOK /\ JobBounds /\ StreamShaped

\* The types of what the job keeps.
JobTyped ==
  /\ journal \in Seq(Lines)
  /\ sequence \in 1 .. MaxEvents + 1
  /\ saved \in 1 .. MaxEvents + 1
  /\ terminal \in BOOLEAN /\ retained \in BOOLEAN
  /\ restarts \in 0 .. MaxRestarts

\* The types of what clients keep.
ClientTyped ==
  /\ received \in [Subscribers -> Seq(Lines)]
  /\ drops \in [Subscribers -> 0 .. MaxDrops]

LEMMA TypeParts == TypeOK <=> JobTyped /\ StreamTyped /\ ClientTyped
PROOF BY DEF TypeOK, JobTyped, StreamTyped, ClientTyped

LEMMA TypePartsNext == TypeOK' <=> JobTyped' /\ StreamTyped' /\ ClientTyped'
PROOF BY DEF TypeOK, JobTyped, StreamTyped, ClientTyped

LEMMA JobUnchanged ==
  ASSUME JobTyped, JobBounds, UNCHANGED jobVars
  PROVE  JobTyped' /\ JobBounds'
PROOF BY DEF JobTyped, JobBounds, jobVars, fileVars

\* A line is appended within the bounds of the journal.
LEMMA PutTyped ==
  ASSUME JobTyped, JobBounds, NEW t \in BOOLEAN, NEW q \in {saved, sequence},
         q <= MaxEvents, ~ t => Len(journal) < MaxEvents, File!Put(q + 1, t),
         retained' = retained, restarts' \in 0 .. MaxRestarts
  PROVE  JobTyped' /\ JobBounds'
PROOF
<1> USE BoundsAssumption
<1>1. /\ q \in Nat /\ q <= Len(journal) /\ Len(journal) \in Nat
      /\ saved \in Nat /\ saved <= q
      /\ journal \in Seq(Lines)
  BY DEF JobTyped, JobBounds
<1>2. /\ journal' = Append(journal, File!Line(q + 1, t))
      /\ sequence' = q + 1 /\ terminal' = t /\ saved' = saved
  BY DEF File!Put
<1>3. q + 1 \in 1 .. MaxEvents + 1 BY <1>1
<1>4. File!Line(q + 1, t) \in Lines BY <1>3 DEF File!Line, Lines
<1>5. journal' \in Seq(Lines) /\ Len(journal') = Len(journal) + 1
  BY <1>1, <1>2, <1>4
<1>6. JobTyped' BY <1>2, <1>3, <1>5 DEF JobTyped
<1>8. journal'[Len(journal')].sequence = q + 1
  <2>1. journal'[Len(journal) + 1] = File!Line(q + 1, t) BY <1>1, <1>2, <1>4
  <2> QED BY <1>5, <2>1 DEF File!Line
<1>7. JobBounds' BY <1>1, <1>2, <1>5, <1>8 DEF JobBounds
<1> QED BY <1>6, <1>7

\* Signalling changes nothing else of a stream.
LEMMA SignalTyped ==
  ASSUME StreamTyped, StreamShaped, Signal, UNCHANGED <<pc, next, flight>>
  PROVE  StreamTyped' /\ StreamShaped'
PROOF BY DEF StreamTyped, StreamShaped, Signal

LEMMA ShapeStep ==
  ASSUME Shape, [Next]_vars
  PROVE  Shape'
PROOF
<1> USE BoundsAssumption
<1>0. /\ TypeOK /\ JobBounds /\ StreamShaped
      /\ JobTyped /\ StreamTyped /\ ClientTyped
  BY TypeParts DEF Shape
<1>a. SUFFICES /\ JobTyped' /\ JobBounds'
               /\ StreamTyped' /\ StreamShaped' /\ ClientTyped'
  BY TypePartsNext DEF Shape
<1>b. ASSUME UNCHANGED clientVars PROVE ClientTyped'
  BY <1>0, <1>b DEF ClientTyped, clientVars
<1>1. CASE UNCHANGED vars
  BY <1>0, <1>1, <1>b, JobUnchanged
     DEF vars, eventVars, streamVars, StreamTyped, StreamShaped
<1>2. CASE EventAppended \/ JobEnds
  <2>1. PICK t \in BOOLEAN : File!Write(sequence + 1, t) /\ (~ t => Len(journal) < MaxEvents)
    BY <1>2 DEF EventAppended, JobEnds
  <2>2. Signal /\ UNCHANGED <<retained, restarts, pc, next, flight, clientVars>>
    BY <1>2 DEF EventAppended, JobEnds
  <2>3. File!Put(sequence + 1, t) /\ ~ terminal BY <2>1 DEF File!Write
  <2>4. sequence <= MaxEvents /\ restarts' \in 0 .. MaxRestarts
    BY <1>0, <2>2, <2>3 DEF JobTyped, JobBounds
  <2>5. JobTyped' /\ JobBounds' BY <1>0, <2>1, <2>2, <2>3, <2>4, PutTyped
  <2> QED BY <1>0, <1>b, <2>2, <2>5, SignalTyped
<1>3. CASE Save
  <2>1. /\ saved' = sequence
        /\ UNCHANGED <<journal, sequence, terminal, retained, restarts, eventVars,
                       streamVars, clientVars>>
    BY <1>3 DEF Save, File!Save
  <2>2. JobTyped' /\ JobBounds' BY <1>0, <2>1 DEF JobTyped, JobBounds
  <2> QED BY <1>0, <1>b, <2>1, <2>2 DEF eventVars, streamVars, StreamTyped, StreamShaped
<1>4. CASE Expire
  BY <1>0, <1>4, <1>b DEF Expire, fileVars, JobTyped, JobBounds, eventVars, streamVars, StreamTyped,
                          StreamShaped
<1>5. CASE Restart
  <2>1. JobTyped' /\ JobBounds'
    <3>1. retained' = retained /\ restarts' \in 0 .. MaxRestarts
      BY <1>0, <1>5 DEF Restart, JobTyped
    <3>2. CASE UNCHANGED fileVars
      BY <1>0, <3>1, <3>2 DEF fileVars, JobTyped, JobBounds
    <3>3. CASE File!Settle
      <4>1. File!Put(saved + 1, TRUE) /\ ~ (terminal /\ saved = sequence)
        BY <3>3 DEF File!Settle, File!Settled
      <4>2. saved <= MaxEvents
        BY <1>0, <4>1 DEF JobTyped, JobBounds
      <4> QED BY <1>0, <3>1, <4>1, <4>2, PutTyped
    <3> QED BY <1>5, <3>2, <3>3 DEF Restart
  <2>2. StreamTyped'
    <3>1. updated' \in BOOLEAN /\ erased' \subseteq Subscribers
      BY <1>5 DEF Restart, File!Settled
    <3>2. pc' \in [Subscribers -> Places]
      BY <1>0, <1>5 DEF Restart, StreamTyped, Places, Connected
    <3>3. /\ woken' \in [Subscribers -> BOOLEAN]
          /\ flight' \in [Subscribers -> Seq(Lines)]
          /\ next' = next
      BY <1>5 DEF Restart
    <3> QED BY <1>0, <3>1, <3>2, <3>3 DEF StreamTyped
  <2>3. StreamShaped'
    BY <1>0, <1>5 DEF Restart, StreamShaped, StreamTyped, Started, Connected
  <2> QED BY <1>5, <1>b, <2>1, <2>2, <2>3 DEF Restart
<1>6. ASSUME NEW s \in Subscribers, GeneratorStep(s)
      PROVE  JobTyped' /\ JobBounds' /\ StreamTyped' /\ StreamShaped' /\ ClientTyped'
  <2>1. UNCHANGED jobVars /\ UNCHANGED clientVars
    BY <1>0, <1>6, GeneratorPasses
  <2>2. CASE Breaks(s)
    <3>1. /\ pc' = [pc EXCEPT ![s] = "broken"]
          /\ pc[s] = "opening"
          /\ UNCHANGED <<eventVars, woken, next, flight>>
      BY <2>2 DEF Breaks
    <3>2. StreamTyped' BY <1>0, <3>1 DEF StreamTyped, Places, Connected, eventVars
    <3>3. flight[s] = <<>> BY <1>0, <3>1 DEF StreamShaped, Started
    <3>4. StreamShaped'
      BY <1>0, <3>1, <3>3 DEF StreamShaped, StreamTyped, Started, Connected
    <3> QED BY <1>0, <2>1, <3>2, <3>4, <1>b, JobUnchanged
  <2>3. CASE Pass(s, From(s))
    <3>1. From(s) \in 1 .. MaxEvents + 2 BY <1>0, <1>6, GeneratorPasses
    <3> QED BY <1>0, <2>1, <2>3, <3>1, <1>b, JobUnchanged, PassTyped
  <2>4. CASE Registers(s)
    <3>1. /\ pc' = [pc EXCEPT ![s] = "waiting"]
          /\ pc[s] = "registering"
          /\ woken' = [woken EXCEPT ![s] = updated]
          /\ UNCHANGED <<updated, erased, next, flight>>
      BY <2>4 DEF Registers, eventVars
    <3>2. StreamTyped' BY <1>0, <3>1 DEF StreamTyped, Places, Connected
    <3>3. StreamShaped' BY <1>0, <3>1 DEF StreamShaped, StreamTyped, Started
    <3> QED BY <1>0, <2>1, <3>2, <3>3, <1>b, JobUnchanged
  <2> QED BY <1>0, <1>6, <2>2, <2>3, <2>4, GeneratorPasses
<1>7. ASSUME NEW s \in Subscribers, Connect(s)
      PROVE  JobTyped' /\ JobBounds' /\ StreamTyped' /\ StreamShaped' /\ ClientTyped'
  <2>1. LastId(s) + 1 \in 1 .. MaxEvents + 2
    <3>1. CASE received[s] = <<>> BY <3>1 DEF LastId
    <3>2. CASE received[s] # <<>>
      <4>1. received[s] \in Seq(Lines) BY <1>0 DEF ClientTyped
      <4>2. Len(received[s]) \in 1 .. Len(received[s]) BY <3>2, <4>1
      <4>3. received[s][Len(received[s])] \in Lines BY <4>1, <4>2
      <4> QED BY <3>2, <4>3 DEF LastId, Lines
    <3> QED BY <3>1, <3>2
  <2>2. /\ UNCHANGED jobVars /\ UNCHANGED clientVars
        /\ UNCHANGED <<updated, erased, woken, flight>>
        /\ next' = [next EXCEPT ![s] = LastId(s) + 1]
    BY <1>7 DEF Connect, eventVars
  <2>3. pc[s] = "out" /\ \E p \in {"opening", "gone"} : pc' = [pc EXCEPT ![s] = p]
    BY <1>7 DEF Connect, Goto
  <2>4. StreamTyped' BY <1>0, <2>1, <2>2, <2>3 DEF StreamTyped, Places, Connected
  <2>5. StreamShaped'
    BY <1>0, <2>2, <2>3 DEF StreamShaped, StreamTyped, Started, Connected
  <2> QED BY <1>0, <2>2, <2>4, <2>5, <1>b, JobUnchanged
<1>8. ASSUME NEW s \in Subscribers, Receive(s)
      PROVE  JobTyped' /\ JobBounds' /\ StreamTyped' /\ StreamShaped' /\ ClientTyped'
  <2>1. flight[s] \in Seq(Lines) /\ flight[s] # <<>>
    BY <1>0, <1>8 DEF Receive, StreamTyped
  <2>2. Head(flight[s]) \in Lines /\ Tail(flight[s]) \in Seq(Lines) BY <2>1
  <2>3. ClientTyped'
    <3>1. Append(received[s], Head(flight[s])) \in Seq(Lines)
      BY <1>0, <2>2 DEF ClientTyped
    <3> QED BY <1>0, <1>8, <3>1 DEF Receive, ClientTyped
  <2>4. /\ UNCHANGED jobVars /\ UNCHANGED <<updated, erased, woken, next>>
        /\ pc[s] \in Connected
        /\ \/ /\ pc' = [pc EXCEPT ![s] = "done"]
              /\ flight' = [flight EXCEPT ![s] = <<>>]
           \/ /\ pc' = pc
              /\ flight' = [flight EXCEPT ![s] = Tail(@)]
    BY <1>8 DEF Receive, Goto, eventVars
  <2>5. <<>> \in Seq(Lines) OBVIOUS
  <2>6. StreamTyped' BY <1>0, <2>2, <2>4, <2>5 DEF StreamTyped, Places, Connected
  <2>7. pc[s] # "opening" BY <1>0, <2>1 DEF StreamShaped, Started
  <2>8. pc[s] \in Started BY <2>4, <2>7 DEF Connected, Started
  <2>9. ASSUME NEW k \in Subscribers
        PROVE  /\ pc'[k] = "yielding" => next'[k] <= MaxEvents + 1
               /\ pc'[k] \notin Started => flight'[k] = <<>>
    <3>1. CASE k = s
      BY <1>0, <2>4, <2>8, <3>1 DEF StreamShaped, StreamTyped, Started
    <3>2. CASE k # s BY <1>0, <2>4, <3>2 DEF StreamShaped, StreamTyped
    <3> QED BY <3>1, <3>2
  <2>10. StreamShaped' BY <2>9 DEF StreamShaped
  <2> QED BY <1>0, <2>3, <2>4, <2>6, <2>10, JobUnchanged
<1>9. ASSUME NEW s \in Subscribers, StreamEnds(s)
      PROVE  JobTyped' /\ JobBounds' /\ StreamTyped' /\ StreamShaped' /\ ClientTyped'
  <2>1. /\ UNCHANGED jobVars /\ UNCHANGED clientVars
        /\ UNCHANGED <<updated, erased, woken, next, flight>>
        /\ flight[s] = <<>>
        /\ pc' = [pc EXCEPT ![s] = "out"]
    BY <1>9 DEF StreamEnds, Goto, eventVars
  <2> QED BY <1>0, <2>1, <1>b, JobUnchanged
          DEF StreamTyped, StreamShaped, Places, Started, Connected
<1>10. ASSUME NEW s \in Subscribers, Heartbeat(s)
       PROVE  JobTyped' /\ JobBounds' /\ StreamTyped' /\ StreamShaped' /\ ClientTyped'
  <2>1. /\ UNCHANGED jobVars /\ UNCHANGED clientVars
        /\ UNCHANGED <<updated, erased, woken, next, flight>>
        /\ pc[s] = "waiting"
        /\ pc' = [pc EXCEPT ![s] = "beating"]
    BY <1>10 DEF Heartbeat, Goto, eventVars
  <2> QED BY <1>0, <2>1, <1>b, JobUnchanged
          DEF StreamTyped, StreamShaped, Places, Started, Connected
<1>11. ASSUME NEW s \in Subscribers, Drop(s)
       PROVE  JobTyped' /\ JobBounds' /\ StreamTyped' /\ StreamShaped' /\ ClientTyped'
  <2>1. /\ UNCHANGED jobVars /\ UNCHANGED <<updated, next, received>>
        /\ erased' = erased \ {s}
        /\ pc' = [pc EXCEPT ![s] = "out"]
        /\ flight' = [flight EXCEPT ![s] = <<>>]
        /\ woken' = [woken EXCEPT ![s] = FALSE]
    BY <1>11 DEF Drop, Goto, Keep
  <2>2. ClientTyped'
    BY <1>0, <1>11 DEF Drop, ClientTyped
  <2>3. <<>> \in Seq(Lines) OBVIOUS
  <2>4. StreamTyped' BY <1>0, <2>1, <2>3 DEF StreamTyped, Places, Connected
  <2>5. StreamShaped'
    BY <1>0, <2>1 DEF StreamShaped, StreamTyped, Started, Connected
  <2> QED BY <1>0, <2>1, <2>2, <2>4, <2>5, JobUnchanged
<1> QED BY <1>1, <1>2, <1>3, <1>4, <1>5, <1>6, <1>7, <1>8, <1>9, <1>10, <1>11
        DEF Next, ClientStep

-----------------------------------------------------------------------------
(* The event all subscribers share *)

\* A generator that clears the event has seen the job not over.
LEMMA ClearsOnlyBefore ==
  ASSUME Shape, NEW n \in Nat, Unread(n) = {}, ~ (terminal /\ n > sequence)
  PROVE  ~ terminal
PROOF
<1>1. /\ Len(journal) \in 1 .. Len(journal)
      /\ sequence \in Nat
      /\ journal[Len(journal)].sequence = sequence
  BY DEF Shape, TypeOK, JobBounds
<1>2. ~ (sequence >= n) BY <1>1 DEF Unread
<1> QED BY <1>1, <1>2

\* What a step leaves as it is for a generator that it does not move.
LEMMA AttentiveStays ==
  ASSUME NEW k \in Subscribers, Attentive(k), UNCHANGED <<journal, terminal>>,
         UNCHANGED <<pc[k], woken[k], next[k], updated>>,
         k \in erased => k \in erased'
  PROVE  Attentive(k)'
PROOF BY DEF Attentive, Unread

LEMMA AttentiveStep ==
  ASSUME Shape, AllAttentive, [Next]_vars
  PROVE  AllAttentive'
PROOF
<1>0. TypeOK /\ StreamShaped /\ \A s \in Subscribers : Attentive(s)
  BY DEF Shape, AllAttentive
<1>1. /\ pc \in [Subscribers -> Places] /\ woken \in [Subscribers -> BOOLEAN]
      /\ next \in [Subscribers -> 1 .. MaxEvents + 2]
      /\ updated \in BOOLEAN /\ terminal \in BOOLEAN
  BY <1>0 DEF TypeOK
<1> SUFFICES ASSUME NEW k \in Subscribers PROVE Attentive(k)'
  BY DEF AllAttentive
<1>2. Attentive(k) BY <1>0
<1>3. ASSUME pc'[k] \notin {"registering", "waiting"} PROVE Attentive(k)'
  BY <1>3 DEF Attentive
<1>4. CASE UNCHANGED vars \/ Save \/ Expire
  <2>1. UNCHANGED <<journal, terminal, pc, woken, next, updated, erased>>
    BY <1>4 DEF vars, jobVars, Save, File!Save, Expire, fileVars, eventVars, streamVars
  <2> QED BY <1>2, <2>1, AttentiveStays
<1>5. CASE EventAppended \/ JobEnds
  <2>1. Signal /\ pc' = pc BY <1>5 DEF EventAppended, JobEnds
  <2>2. updated' = TRUE /\ (pc'[k] = "waiting" => woken'[k] # FALSE)
    BY <1>1, <2>1 DEF Signal
  <2> QED BY <2>2 DEF Attentive
<1>6. CASE Restart
  BY <1>1, <1>3, <1>6 DEF Restart, Connected
<1>7. ASSUME NEW s \in Subscribers, GeneratorStep(s)
      PROVE  Attentive(k)'
  <2>1. UNCHANGED <<journal, terminal, sequence>> /\ From(s) \in 1 .. MaxEvents + 2
    BY <1>0, <1>7, GeneratorPasses DEF jobVars, fileVars
  <2>2. CASE Breaks(s)
    <3>1. CASE k = s BY <1>1, <1>3, <2>2, <3>1 DEF Breaks
    <3>2. CASE k # s
      BY <1>1, <1>2, <2>1, <2>2, <3>2, AttentiveStays DEF Breaks, eventVars
    <3> QED BY <3>1, <3>2
  <2>3. CASE Registers(s)
    <3>1. UNCHANGED <<updated, erased, next>> /\ pc[s] = "registering"
      BY <2>3 DEF Registers, eventVars
    <3>2. CASE k = s
      <4>1. pc'[k] = "waiting" /\ woken'[k] = updated
        BY <1>1, <2>3, <3>2 DEF Registers
      <4> QED BY <1>2, <2>1, <3>1, <3>2, <4>1 DEF Attentive, Unread
    <3>3. CASE k # s
      <4>1. UNCHANGED <<pc[k], woken[k]>> BY <1>1, <2>3, <3>3 DEF Registers
      <4> QED BY <1>2, <2>1, <3>1, <4>1, AttentiveStays
    <3> QED BY <3>2, <3>3
  <2>4. CASE Pass(s, From(s)) /\ k = s
    <3> DEFINE n == From(s)
    <3> HIDE DEF n
    <3>1. Pass(s, n) /\ n \in 1 .. MaxEvents + 2 BY <2>1, <2>4 DEF n
    <3>2. \/ pc'[k] \in {"yielding", "closed"}
          \/ /\ pc'[k] = "registering" /\ next'[k] = n
             /\ Unread(n) = {} /\ ~ (terminal /\ n > sequence)
      BY <1>0, <1>1, <2>4, <3>1, PassCases
    <3>3. n \in Nat BY <3>1, BoundsAssumption
    <3>4. CASE pc'[k] = "registering" /\ next'[k] = n
               /\ Unread(n) = {} /\ ~ (terminal /\ n > sequence)
      <4>1. ~ terminal BY <3>3, <3>4, ClearsOnlyBefore
      <4> QED BY <2>1, <3>4, <4>1 DEF Attentive, Unread
    <3> QED BY <1>3, <3>2, <3>4
  <2>5. CASE Pass(s, From(s)) /\ k # s
    <3> DEFINE n == From(s)
    <3> HIDE DEF n
    <3>1. Pass(s, n) /\ n \in 1 .. MaxEvents + 2 BY <2>1, <2>5 DEF n
    <3>2. UNCHANGED <<pc[k], woken[k], next[k]>>
      BY <1>1, <2>5, <3>1 DEF Pass, Yield, Leave, Goto
    <3>3. CASE Keep(s)
      BY <1>2, <2>1, <2>5, <3>2, <3>3, AttentiveStays DEF Keep
    <3>4. CASE Clear(s) /\ Unread(n) = {} /\ ~ (terminal /\ n > sequence)
      <4>1. n \in Nat BY <3>1, BoundsAssumption
      <4>2. terminal = FALSE /\ terminal' = FALSE
        BY <1>1, <2>1, <3>4, <4>1, ClearsOnlyBefore
      <4>3. k \in erased => k \in erased' BY <2>5, <3>4 DEF Clear
      <4>4. updated = TRUE /\ pc[k] = "registering" => k \in erased'
        BY <2>5, <3>4 DEF Clear
      <4> QED BY <1>1, <1>2, <2>1, <3>2, <4>2, <4>3, <4>4 DEF Attentive, Unread
    <3> QED BY <1>0, <3>1, <3>3, <3>4, PassCases
  <2> QED BY <1>0, <1>7, <2>2, <2>3, <2>4, <2>5, GeneratorPasses
<1>8. ASSUME NEW s \in Subscribers,
             Connect(s) \/ Receive(s) \/ StreamEnds(s) \/ Heartbeat(s) \/ Drop(s)
      PROVE  Attentive(k)'
  <2>1. /\ UNCHANGED <<journal, terminal, updated>>
        /\ erased \ {s} \subseteq erased'
        /\ \/ pc' = pc /\ UNCHANGED <<woken, next, erased>>
           \/ \E q \in Places \ {"registering", "waiting"} : pc' = [pc EXCEPT ![s] = q]
        /\ \A j \in Subscribers \ {s} : UNCHANGED <<woken[j], next[j]>>
    BY <1>1, <1>8 DEF Connect, Receive, StreamEnds, Heartbeat, Drop, Goto, Keep,
                      jobVars, fileVars, eventVars, Places, Connected
  <2>2. CASE k # s BY <1>1, <1>2, <2>1, <2>2, AttentiveStays
  <2>3. CASE k = s BY <1>1, <1>2, <1>3, <2>1, <2>3, AttentiveStays
  <2> QED BY <2>2, <2>3
<1> QED BY <1>4, <1>5, <1>6, <1>7, <1>8 DEF Next, ClientStep

-----------------------------------------------------------------------------
(* What reaches a client in the first life of the server *)

LEMMA DeliveredStep ==
  ASSUME Shape, Delivered, [Next]_vars
  PROVE  Delivered'
PROOF
<1>0. /\ TypeOK /\ StreamShaped
      /\ journal \in Seq(Lines) /\ Len(journal) \in Nat
      /\ received \in [Subscribers -> Seq(Lines)]
      /\ flight \in [Subscribers -> Seq(Lines)]
      /\ \A s \in Subscribers : /\ received[s] \in Seq(Lines)
                                /\ flight[s] \in Seq(Lines)
                                /\ Len(received[s]) \in Nat
                                /\ Len(flight[s]) \in Nat
  BY DEF Shape, TypeOK
<1>a. /\ pc \in [Subscribers -> Places]
      /\ next \in [Subscribers -> 1 .. MaxEvents + 2]
      /\ restarts \in Nat
      /\ terminal \in BOOLEAN
  BY <1>0 DEF TypeOK
<1> SUFFICES ASSUME restarts' = 0
             PROVE  Numbered' /\ \A k \in Subscribers : Tracks(k)'
  BY DEF Delivered
<1>b. CASE Restart
  BY <1>a, <1>b DEF Restart
<1>c. CASE restarts = 0
  <2>0. Numbered /\ \A k \in Subscribers : Tracks(k) BY <1>c DEF Delivered
  <2>s. \A k \in Subscribers :
          /\ Sent(k) = Len(received[k]) + Len(flight[k])
          /\ Sent(k) <= Len(journal)
          /\ Len(received[k]) <= Len(journal)
    <3>1. \A k \in Subscribers : Sent(k) <= Len(journal) BY <2>0 DEF Tracks
    <3> QED BY <1>0, <3>1 DEF Sent
  <2>a. ASSUME UNCHANGED <<journal, sequence, terminal>>
        PROVE  Numbered'
    BY <2>0, <2>a DEF Numbered
  <2>b. ASSUME NEW k \in Subscribers,
               UNCHANGED <<journal, terminal>>,
               UNCHANGED <<pc[k], next[k], flight[k], received[k]>>
        PROVE  Tracks(k)'
    BY <2>0, <2>b DEF Tracks, Sent
  <2>1. CASE UNCHANGED vars \/ Save \/ Expire
    BY <2>1, <2>a, <2>b DEF Save, File!Save, Expire, vars, jobVars, fileVars,
                            eventVars, streamVars, clientVars
  <2>2. CASE EventAppended \/ JobEnds
    <3>1. PICK t \in BOOLEAN : File!Write(sequence + 1, t)
      BY <2>2 DEF EventAppended, JobEnds
    <3>2. /\ ~ terminal /\ UNCHANGED <<pc, next, flight, received>>
          /\ journal' = Append(journal, File!Line(sequence + 1, t))
          /\ sequence' = sequence + 1
          /\ terminal' = t
      BY <2>2, <3>1 DEF EventAppended, JobEnds, clientVars, File!Write, File!Put
    <3>3. sequence = Len(journal) BY <2>0 DEF Numbered
    <3>4. /\ Len(journal') = Len(journal) + 1
          /\ \A i \in 1 .. Len(journal) : journal'[i] = journal[i]
          /\ journal'[Len(journal) + 1] = File!Line(Len(journal) + 1, t)
      BY <1>0, <3>2, <3>3
    <3>5. Numbered'
      <4>1. \A i \in 1 .. Len(journal') : journal'[i].sequence = i
        BY SMTT(20), <1>0, <2>0, <3>4 DEF Numbered, File!Line
      <4>2. terminal' => journal'[Len(journal')].terminal
        BY <3>2, <3>4 DEF File!Line
      <4> QED BY <3>2, <3>3, <3>4, <4>1, <4>2 DEF Numbered
    <3>6. ASSUME NEW k \in Subscribers PROVE Tracks(k)'
      <4>1. Sent(k)' = Sent(k) BY <3>2 DEF Sent
      <4>2. Sent(k)' <= Len(journal') BY <1>0, <2>s, <3>4, <4>1
      <4>3. \A i \in 1 .. Len(received'[k]) : received'[k][i] = journal'[i]
        BY <1>0, <2>0, <2>s, <3>2, <3>4 DEF Tracks
      <4>4. \A i \in 1 .. Len(flight'[k]) :
              flight'[k][i] = journal'[Len(received'[k]) + i]
        <5> SUFFICES ASSUME NEW i \in 1 .. Len(flight[k])
                     PROVE  flight[k][i] = journal'[Len(received[k]) + i]
          BY <3>2
        <5>1. Len(received[k]) + i \in 1 .. Len(journal) BY <1>0, <2>s
        <5>2. flight[k][i] = journal[Len(received[k]) + i] BY <2>0 DEF Tracks
        <5> QED BY <3>4, <5>1, <5>2
      <4>5. pc[k] # "closed" BY <2>0, <3>2 DEF Tracks
      <4> QED BY <2>0, <3>2, <4>1, <4>2, <4>3, <4>4, <4>5 DEF Tracks
    <3> QED BY <3>5, <3>6
  <2>3. ASSUME NEW s \in Subscribers, GeneratorStep(s)
        PROVE  Numbered' /\ \A k \in Subscribers : Tracks(k)'
    <3>1. UNCHANGED <<journal, sequence, terminal, received>>
      BY <1>0, <2>3, GeneratorPasses DEF jobVars, fileVars, clientVars
    <3>2. ASSUME NEW k \in Subscribers, k # s PROVE Tracks(k)'
      <4>1. CASE Breaks(s)
        BY <1>a, <2>b, <3>1, <3>2, <4>1 DEF Breaks
      <4>3. CASE Registers(s)
        BY <1>a, <2>b, <3>1, <3>2, <4>3 DEF Registers
      <4>2. CASE Pass(s, From(s))
        <5>1. UNCHANGED <<pc[k], next[k], flight[k]>>
          BY <1>0, <1>a, <3>2, <4>2 DEF Pass, Yield, Leave, Goto
        <5> QED BY <2>b, <3>1, <5>1
      <4> QED BY <1>0, <2>3, <4>1, <4>2, <4>3, GeneratorPasses
    <3>3. Tracks(s)'
      <4>1. CASE Breaks(s)
        <5>1. pc'[s] = "broken" /\ flight' = flight BY <1>a, <4>1 DEF Breaks
        <5> QED BY <2>0, <3>1, <5>1 DEF Tracks, Sent
      <4>3. CASE Registers(s)
        <5>1. /\ pc[s] = "registering" /\ pc'[s] = "waiting"
              /\ UNCHANGED <<next, flight>>
          BY <1>a, <4>3 DEF Registers
        <5> QED BY <2>0, <3>1, <5>1 DEF Tracks, Sent
      <4>2. CASE Pass(s, From(s)) /\ pc[s] \in {"opening", "yielding", "waiting", "beating"}
        <5> DEFINE n == From(s)
        <5>1. n = Sent(s) + 1 /\ Sent(s) \in Nat /\ Sent(s) <= Len(journal)
          BY <1>0, <2>0, <4>2 DEF From, Tracks, Sent
        <5>a. /\ \A q : pc' = [pc EXCEPT ![s] = q] => pc'[s] = q
              /\ \A q : next' = [next EXCEPT ![s] = q] => next'[s] = q
              /\ \A q : flight' = [flight EXCEPT ![s] = Append(@, q)] =>
                   flight'[s] = Append(flight[s], q)
          BY <1>0, <1>a
        <5>3. \/ \E i \in First(Unread(n)) :
                    /\ pc'[s] = "yielding"
                    /\ next'[s] = journal[i].sequence
                    /\ flight'[s] = Append(flight[s], journal[i])
              \/ /\ Unread(n) = {}
                 /\ pc'[s] \in {"closed", "registering"}
                 /\ pc'[s] = "closed" => terminal /\ n > sequence
                 /\ next'[s] = n
                 /\ flight'[s] = flight[s]
          <6> HIDE DEF n
          <6> QED BY <4>2, <5>a DEF n, Pass, Yield, Leave, Goto
        <5>4. ASSUME NEW i \in First(Unread(n)),
                     pc'[s] = "yielding",
                     next'[s] = journal[i].sequence,
                     flight'[s] = Append(flight[s], journal[i])
              PROVE  Tracks(s)'
          <6> HIDE DEF n
          <6>1. i \in 1 .. Len(journal) /\ journal[i].sequence = i /\ i >= n
            BY <1>0, <2>0, <5>4 DEF First, Unread, Numbered
          <6>2. n \in Unread(n)
            BY <1>0, <2>0, <5>1, <6>1 DEF Unread, Numbered
          <6>3. i = n BY <5>1, <6>1, <6>2 DEF First
          <6>4. /\ Len(flight'[s]) = Len(flight[s]) + 1
                /\ \A m \in 1 .. Len(flight[s]) : flight'[s][m] = flight[s][m]
                /\ flight'[s][Len(flight[s]) + 1] = journal[n]
            BY <1>0, <5>4, <6>1, <6>3
          <6>5. n = Len(received[s]) + Len(flight[s]) + 1 BY <5>1 DEF Sent
          <6>6. \A m \in 1 .. Len(flight'[s]) :
                  flight'[s][m] = journal[Len(received[s]) + m]
            <7> SUFFICES ASSUME NEW m \in 1 .. Len(flight'[s])
                         PROVE  flight'[s][m] = journal[Len(received[s]) + m]
              OBVIOUS
            <7>1. CASE m \in 1 .. Len(flight[s])
              BY <2>0, <6>4, <7>1 DEF Tracks
            <7>2. CASE m = Len(flight[s]) + 1
              <8>1. Len(received[s]) + m = n BY <1>0, <6>5, <7>2
              <8> QED BY <6>4, <7>2, <8>1
            <7> QED BY <1>0, <6>4, <7>1, <7>2
          <6>7. Sent(s)' = n /\ next'[s] = n /\ n <= Len(journal)
            BY <1>0, <3>1, <5>4, <6>1, <6>3, <6>4, <6>5 DEF Sent
          <6> QED BY <2>0, <3>1, <5>4, <6>6, <6>7 DEF Tracks
        <5>5. ASSUME pc'[s] \in {"closed", "registering"},
                     pc'[s] = "closed" => terminal /\ n > sequence,
                     next'[s] = n,
                     flight'[s] = flight[s]
              PROVE  Tracks(s)'
          <6> HIDE DEF n
          <6>1. Sent(s)' = Sent(s) BY <3>1, <5>5 DEF Sent
          <6>2. pc'[s] = "closed" => Sent(s) = Len(journal)
            BY <1>0, <2>0, <5>1, <5>5 DEF Numbered
          <6> QED BY <2>0, <3>1, <5>1, <5>5, <6>1, <6>2 DEF Tracks
        <5> QED BY <5>3, <5>4, <5>5
      <4> QED BY <1>0, <2>3, <4>1, <4>2, <4>3, GeneratorPasses
    <3> QED BY <2>a, <3>1, <3>2, <3>3
  <2>4. ASSUME NEW s \in Subscribers, Connect(s)
        PROVE  Numbered' /\ \A k \in Subscribers : Tracks(k)'
    <3>1. /\ UNCHANGED <<journal, sequence, terminal, received, flight>>
          /\ pc[s] = "out"
          /\ \E q \in {"opening", "gone"} : pc' = [pc EXCEPT ![s] = q]
          /\ next' = [next EXCEPT ![s] = LastId(s) + 1]
      BY <2>4 DEF Connect, Goto, jobVars, fileVars, clientVars
    <3>2. ASSUME NEW k \in Subscribers, k # s PROVE Tracks(k)'
      BY <1>a, <2>b, <3>1, <3>2
    <3>3. flight[s] = <<>> BY <1>0, <3>1 DEF StreamShaped, Started
    <3>4. LastId(s) = Len(received[s])
      <4>1. CASE received[s] = <<>> BY <4>1 DEF LastId
      <4>2. CASE received[s] # <<>>
        <5>1. Len(received[s]) \in 1 .. Len(received[s]) BY <1>0, <4>2
        <5>2. Len(received[s]) \in 1 .. Len(journal)
          BY <1>0, <2>0, <5>1 DEF Tracks, Sent
        <5>3. received[s][Len(received[s])] = journal[Len(received[s])]
          BY <2>0, <5>1 DEF Tracks
        <5>4. received[s][Len(received[s])].sequence = Len(received[s])
          BY <2>0, <5>2, <5>3 DEF Numbered
        <5> QED BY <4>2, <5>4 DEF LastId
      <4> QED BY <4>1, <4>2
    <3>5. Tracks(s)'
      <4>1. pc'[s] \in {"opening", "gone"} /\ next'[s] = Len(received[s]) + 1
        BY <1>a, <3>1, <3>4
      <4>2. Sent(s)' = Len(received[s]) /\ Sent(s) = Len(received[s])
        BY <1>0, <3>1, <3>3 DEF Sent
      <4> QED BY <2>0, <3>1, <4>1, <4>2 DEF Tracks
    <3> QED BY <2>a, <3>1, <3>2, <3>5
  <2>5. ASSUME NEW s \in Subscribers, Receive(s)
        PROVE  Numbered' /\ \A k \in Subscribers : Tracks(k)'
    <3>1. /\ UNCHANGED <<journal, sequence, terminal, next>>
          /\ flight[s] # <<>>
          /\ received' = [received EXCEPT ![s] = Append(@, Head(flight[s]))]
          /\ \/ /\ pc' = [pc EXCEPT ![s] = "done"]
                /\ flight' = [flight EXCEPT ![s] = <<>>]
             \/ /\ pc' = pc
                /\ flight' = [flight EXCEPT ![s] = Tail(@)]
      BY <2>5 DEF Receive, Goto, jobVars, fileVars
    <3>2. ASSUME NEW k \in Subscribers, k # s PROVE Tracks(k)'
      BY <1>0, <1>a, <2>b, <3>1, <3>2
    <3>3. /\ received'[s] = Append(received[s], Head(flight[s]))
          /\ \/ pc'[s] = "done" /\ flight'[s] = <<>>
             \/ pc'[s] = pc[s] /\ flight'[s] = Tail(flight[s])
          /\ next'[s] = next[s]
      BY <1>0, <1>a, <3>1
    <3>4. Len(flight[s]) >= 1 /\ Head(flight[s]) = flight[s][1]
          /\ flight[s][1] \in Lines
      BY <1>0, <3>1
    <3>5. Head(flight[s]) = journal[Len(received[s]) + 1]
      <4>1. 1 \in 1 .. Len(flight[s]) BY <1>0, <3>4
      <4>2. flight[s][1] = journal[Len(received[s]) + 1]
        BY <2>0, <4>1 DEF Tracks
      <4> QED BY <3>4, <4>2
    <3>6. /\ Len(received'[s]) = Len(received[s]) + 1
          /\ \A i \in 1 .. Len(received'[s]) : received'[s][i] = journal[i]
      <4>1. /\ Len(received'[s]) = Len(received[s]) + 1
            /\ \A i \in 1 .. Len(received[s]) : received'[s][i] = received[s][i]
            /\ received'[s][Len(received[s]) + 1] = Head(flight[s])
        BY <1>0, <3>3, <3>4
      <4>2. ASSUME NEW i \in 1 .. Len(received'[s])
            PROVE  received'[s][i] = journal[i]
        <5>1. CASE i \in 1 .. Len(received[s])
          BY <2>0, <4>1, <5>1 DEF Tracks
        <5>2. CASE i = Len(received[s]) + 1 BY <3>5, <4>1, <5>2
        <5> QED BY <1>0, <4>1, <5>1, <5>2
      <4> QED BY <4>1, <4>2
    <3>7. ASSUME pc'[s] = "done", flight'[s] = <<>>
          PROVE  Tracks(s)'
      <4>0. Len(flight'[s]) = 0 BY <3>7
      <4>1. Sent(s)' = Len(received[s]) + 1 BY <1>0, <3>6, <4>0 DEF Sent
      <4>2. Sent(s)' <= Len(journal) BY <1>0, <2>s, <3>4, <4>1
      <4>3. \A i \in 1 .. Len(flight'[s]) :
              flight'[s][i] = journal[Len(received'[s]) + i]
        BY <4>0
      <4> QED BY <3>1, <3>6, <3>7, <4>2, <4>3 DEF Tracks
    <3>8. ASSUME pc'[s] = pc[s], flight'[s] = Tail(flight[s])
          PROVE  Tracks(s)'
      <4>1. /\ Len(flight'[s]) = Len(flight[s]) - 1
            /\ \A i \in 1 .. Len(flight[s]) - 1 : flight'[s][i] = flight[s][i + 1]
        BY <1>0, <3>4, <3>8
      <4>2. Sent(s)' = Sent(s) BY <1>0, <3>6, <4>1 DEF Sent
      <4>3. \A i \in 1 .. Len(flight'[s]) :
              flight'[s][i] = journal[Len(received'[s]) + i]
        <5> SUFFICES ASSUME NEW i \in 1 .. Len(flight'[s])
                     PROVE  flight'[s][i] = journal[Len(received'[s]) + i]
          OBVIOUS
        <5>1. i + 1 \in 1 .. Len(flight[s]) /\ i \in 1 .. Len(flight[s]) - 1
          BY <1>0, <4>1
        <5>2. flight[s][i + 1] = journal[Len(received[s]) + (i + 1)]
          BY <2>0, <5>1 DEF Tracks
        <5>3. Len(received[s]) + (i + 1) = Len(received'[s]) + i
          BY <1>0, <3>6, <5>1
        <5> QED BY <4>1, <5>1, <5>2, <5>3
      <4>4. pc'[s] = pc[s] /\ next'[s] = next[s] BY <3>3, <3>8
      <4>5. journal' = journal /\ terminal' = terminal BY <3>1
      <4>6. Tracks(s) BY <2>0
      <4> QED BY <3>6, <4>2, <4>3, <4>4, <4>5, <4>6 DEF Tracks
    <3> QED BY <2>a, <3>1, <3>2, <3>3, <3>7, <3>8
  <2>6. ASSUME NEW s \in Subscribers, StreamEnds(s) \/ Heartbeat(s)
        PROVE  Numbered' /\ \A k \in Subscribers : Tracks(k)'
    <3>1. /\ UNCHANGED <<journal, sequence, terminal, received, flight, next>>
          /\ \/ pc' = [pc EXCEPT ![s] = "out"]
             \/ pc[s] = "waiting" /\ pc' = [pc EXCEPT ![s] = "beating"]
      BY <2>6 DEF StreamEnds, Heartbeat, Goto, jobVars, fileVars, clientVars
    <3>2. ASSUME NEW k \in Subscribers, k # s PROVE Tracks(k)'
      BY <1>a, <2>b, <3>1, <3>2
    <3>3. Tracks(s)'
      <4>1. \/ pc'[s] = "out"
            \/ pc[s] = "waiting" /\ pc'[s] = "beating"
        BY <1>a, <3>1
      <4> QED BY <2>0, <3>1, <4>1 DEF Tracks, Sent
    <3> QED BY <2>a, <3>1, <3>2, <3>3
  <2>7. ASSUME NEW s \in Subscribers, Drop(s)
        PROVE  Numbered' /\ \A k \in Subscribers : Tracks(k)'
    <3>1. /\ UNCHANGED <<journal, sequence, terminal, received, next>>
          /\ pc' = [pc EXCEPT ![s] = "out"]
          /\ flight' = [flight EXCEPT ![s] = <<>>]
      BY <2>7 DEF Drop, Goto, jobVars, fileVars
    <3>2. ASSUME NEW k \in Subscribers, k # s PROVE Tracks(k)'
      BY <1>0, <1>a, <2>b, <3>1, <3>2
    <3>3. Tracks(s)'
      <4>1. pc'[s] = "out" /\ flight'[s] = <<>> BY <1>0, <1>a, <3>1
      <4>2. Sent(s)' = Len(received[s]) /\ Len(received[s]) <= Len(journal)
        BY <1>0, <2>0, <3>1, <4>1 DEF Sent, Tracks
      <4> QED BY <2>0, <3>1, <4>1, <4>2 DEF Tracks
    <3> QED BY <2>a, <3>1, <3>2, <3>3
  <2> QED BY <1>b, <2>1, <2>2, <2>3, <2>4, <2>5, <2>6, <2>7 DEF Next, ClientStep
<1> QED
  <2>1. Restart \/ restarts' = restarts
    BY DEF Next, EventAppended, JobEnds, Save, Expire, GeneratorStep, ClientStep, Begin,
           Resume, Register, Wake, AfterHeartbeat, Connect, Receive, StreamEnds, Heartbeat,
           Drop, vars, jobVars, fileVars
  <2> QED BY <1>b, <1>c, <2>1

-----------------------------------------------------------------------------
(* What reaches a client in all lives of the server *)

\* The line with which the journal goes on above n.
Leads(n, l) == \E j \in First(Unread(n + 1)) : l = journal[j]

\* The sequence before that of the i-th frame on its way, and the last one sent.
Before(s, i) == IF i = 1 THEN LastId(s) ELSE flight[s][i - 1].sequence
SentId(s) ==
  IF flight[s] = <<>> THEN LastId(s) ELSE flight[s][Len(flight[s])].sequence

\* The frames on their way to a client follow what it has received, and the
\* generator goes on right above the last of them.
Follows(s) ==
  /\ \A i \in 1 .. Len(flight[s]) : Leads(Before(s, i), flight[s][i])
  /\ pc[s] \in {"opening", "yielding", "registering", "waiting", "beating"} =>
       From(s) = SentId(s) + 1

FeedInv == \A s \in Subscribers : Follows(s)

\* Lines are only ever appended to the journal, one at a time.
LEMMA JournalGrows ==
  ASSUME Shape, [Next]_vars
  PROVE  \/ journal' = journal
         \/ \E l \in Lines : journal' = Append(journal, l)
PROOF
<1>1. Shape' BY ShapeStep
<1>2. journal \in Seq(Lines) /\ journal' \in Seq(Lines)
  BY <1>1 DEF Shape, TypeOK
<1>3. \/ journal' = journal
      \/ \E l : journal' = Append(journal, l)
  <2>1. CASE UNCHANGED jobVars BY <2>1 DEF jobVars, fileVars
  <2>2. CASE EventAppended \/ JobEnds \/ Save \/ Expire \/ Restart
    BY <2>2 DEF EventAppended, JobEnds, Save, Expire, Restart, fileVars,
                File!Write, File!Save, File!Settle, File!Put
  <2>3. ASSUME NEW s \in Subscribers, GeneratorStep(s) PROVE UNCHANGED jobVars
    BY <2>3 DEF GeneratorStep, Begin, Resume, Register, Wake, AfterHeartbeat
  <2>4. ASSUME NEW s \in Subscribers,
               ClientStep(s) \/ Heartbeat(s) \/ Drop(s)
        PROVE  UNCHANGED jobVars
    BY <2>4 DEF ClientStep, Connect, Receive, StreamEnds, Heartbeat, Drop
  <2> QED BY <2>1, <2>2, <2>3, <2>4 DEF Next, vars
<1>4. ASSUME NEW l, journal' = Append(journal, l) PROVE l \in Lines
  <2>1. /\ Len(journal') = Len(journal) + 1
        /\ journal'[Len(journal) + 1] = l
        /\ Len(journal) \in Nat
    BY <1>2, <1>4
  <2> QED BY <1>2, <2>1
<1> QED BY <1>3, <1>4

\* The line above n is still the line above n when more have been appended.
LEMMA LeadsStay ==
  ASSUME Shape, [Next]_vars
  PROVE  \A n, l : Leads(n, l) => Leads(n, l)'
PROOF
<1>1. journal \in Seq(Lines) BY DEF Shape, TypeOK
<1>2. CASE journal' = journal BY <1>2 DEF Leads, First, Unread
<1>3. ASSUME NEW m \in Lines, journal' = Append(journal, m)
      PROVE  \A n, l : Leads(n, l) => Leads(n, l)'
  <2>1. /\ Len(journal') = Len(journal) + 1
        /\ \A i \in 1 .. Len(journal) : journal'[i] = journal[i]
        /\ Len(journal) \in Nat
    BY <1>1, <1>3
  <2> SUFFICES ASSUME NEW n, NEW j \in First(Unread(n + 1))
               PROVE  j \in First(Unread(n + 1))' /\ journal'[j] = journal[j]
    BY DEF Leads
  <2>2. /\ j \in 1 .. Len(journal) /\ journal[j].sequence >= n + 1
        /\ \A k \in 1 .. Len(journal) : journal[k].sequence >= n + 1 => j <= k
    BY DEF First, Unread
  <2>3. j \in Unread(n + 1)' BY <2>1, <2>2 DEF Unread
  <2>4. ASSUME NEW k \in Unread(n + 1)' PROVE j <= k
    BY <2>1, <2>2 DEF Unread
  <2> QED BY <2>1, <2>2, <2>3, <2>4 DEF First
<1> QED BY <1>2, <1>3, JournalGrows

\* The line above n is in the journal, above n, and the first such.
LEMMA LeadFacts ==
  ASSUME TypeOK, NEW n \in Nat, NEW l, Leads(n, l)
  PROVE  /\ l \in Lines
         /\ \E j \in 1 .. Len(journal) :
              /\ l = journal[j] /\ journal[j].sequence > n
              /\ \A k \in 1 .. j - 1 : journal[k].sequence <= n
PROOF
<1>1. journal \in Seq(Lines) /\ Len(journal) \in Nat BY DEF TypeOK
<1>2. PICK j \in First(Unread(n + 1)) : l = journal[j] BY DEF Leads
<1>3. /\ j \in 1 .. Len(journal) /\ journal[j].sequence >= n + 1
      /\ \A k \in 1 .. Len(journal) : journal[k].sequence >= n + 1 => j <= k
  BY DEF First, Unread
<1>4. ASSUME NEW k \in 1 .. Len(journal)
      PROVE  journal[k] \in Lines /\ journal[k].sequence \in Nat
  <2>1. journal[k] \in Lines BY <1>1
  <2> QED BY <2>1 DEF Lines
<1>5. ASSUME NEW k \in 1 .. j - 1 PROVE journal[k].sequence <= n
  <2>1. k \in 1 .. Len(journal) /\ ~ (j <= k) BY <1>1, <1>3
  <2> QED BY <1>3, <1>4, <2>1
<1> QED BY <1>2, <1>3, <1>4, <1>5

\* The last sequence received and the last one sent are numbers.
LEMMA IdTyped ==
  ASSUME TypeOK, NEW s \in Subscribers
  PROVE  /\ LastId(s) \in Nat /\ SentId(s) \in Nat
         /\ \A i \in 1 .. Len(flight[s]) : Before(s, i) \in Nat
PROOF
<1>1. received[s] \in Seq(Lines) /\ flight[s] \in Seq(Lines) BY DEF TypeOK
<1>2. ASSUME NEW q \in Seq(Lines), NEW i \in 1 .. Len(q)
      PROVE  q[i].sequence \in Nat
  <2>1. q[i] \in Lines OBVIOUS
  <2> QED BY <2>1 DEF Lines
<1>3. \A q \in Seq(Lines) : q # <<>> => Len(q) \in 1 .. Len(q) /\ Len(q) \in Nat
  OBVIOUS
<1>4. LastId(s) \in Nat BY <1>1, <1>2, <1>3 DEF LastId
<1>5. SentId(s) \in Nat BY <1>1, <1>2, <1>3, <1>4 DEF SentId
<1>6. ASSUME NEW i \in 1 .. Len(flight[s]) PROVE Before(s, i) \in Nat
  <2>1. CASE i = 1 BY <1>4, <2>1 DEF Before
  <2>2. CASE i # 1
    <3>1. i - 1 \in 1 .. Len(flight[s]) BY <1>1, <2>2
    <3> QED BY <1>1, <1>2, <2>2, <3>1 DEF Before
  <2> QED BY <2>1, <2>2
<1> QED BY <1>4, <1>5, <1>6

\* A line appended, and a line taken.
LEMMA Appended ==
  ASSUME NEW q \in Seq(Lines), NEW l \in Lines, NEW r, r = Append(q, l)
  PROVE  /\ Len(q) \in Nat /\ Len(r) = Len(q) + 1
         /\ \A m \in 1 .. Len(q) : r[m] = q[m]
         /\ r[Len(q) + 1] = l /\ r # <<>>
PROOF OBVIOUS

LEMMA Taken ==
  ASSUME NEW q \in Seq(Lines), q # <<>>, NEW r, r = Tail(q)
  PROVE  /\ Head(q) = q[1] /\ q[1] \in Lines
         /\ Len(q) \in Nat \ {0} /\ Len(r) = Len(q) - 1
         /\ \A i \in 1 .. Len(q) - 1 : r[i] = q[i + 1]
         /\ r = <<>> <=> Len(q) = 1
PROOF
<1>1. /\ Len(q) \in Nat \ {0} /\ Head(q) = q[1] /\ q[1] \in Lines OBVIOUS
<1>2. /\ r \in Seq(Lines) /\ Len(r) = Len(q) - 1
      /\ \A i \in 1 .. Len(q) - 1 : r[i] = q[i + 1]
  BY HeadTailProperties
<1>3. r = <<>> <=> Len(r) = 0 BY <1>2, EmptySeq
<1> QED BY <1>1, <1>2, <1>3

\* A generator that goes on reading: where From matters.
Reading == {"opening", "yielding", "registering", "waiting", "beating"}

LEMMA FollowStep ==
  ASSUME Shape, FeedInv, [Next]_vars
  PROVE  FeedInv'
PROOF
<1>0. /\ TypeOK /\ StreamShaped /\ TypeOK'
      /\ pc \in [Subscribers -> Places]
      /\ next \in [Subscribers -> 1 .. MaxEvents + 2]
      /\ received \in [Subscribers -> Seq(Lines)]
      /\ flight \in [Subscribers -> Seq(Lines)]
      /\ \A s \in Subscribers : /\ received[s] \in Seq(Lines)
                                /\ flight[s] \in Seq(Lines)
                                /\ Len(flight[s]) \in Nat
  <2>1. TypeOK /\ StreamShaped BY DEF Shape
  <2>2. TypeOK'
    <3>1. Shape' BY ShapeStep
    <3> QED BY <3>1 DEF Shape
  <2>3. /\ pc \in [Subscribers -> Places]
        /\ next \in [Subscribers -> 1 .. MaxEvents + 2]
        /\ received \in [Subscribers -> Seq(Lines)]
        /\ flight \in [Subscribers -> Seq(Lines)]
    BY <2>1 DEF TypeOK
  <2> QED BY <2>1, <2>2, <2>3
<1> SUFFICES ASSUME NEW k \in Subscribers PROVE Follows(k)'
  BY DEF FeedInv
<1>f. Follows(k) BY DEF FeedInv
<1>a. ASSUME UNCHANGED <<flight[k], received[k]>>,
             pc'[k] \in Reading => From(k)' = SentId(k) + 1
      PROVE  Follows(k)'
  <2>1. LastId(k)' = LastId(k) /\ SentId(k)' = SentId(k)
    BY <1>a DEF LastId, SentId
  <2>2. \A i : Before(k, i)' = Before(k, i) BY <1>a, <2>1 DEF Before
  <2>3. ASSUME NEW i \in 1 .. Len(flight[k])
        PROVE  Leads(Before(k, i), flight[k][i])'
    <3>1. Leads(Before(k, i), flight[k][i]) BY <1>f DEF Follows
    <3>2. \A x, y : Leads(x, y) => Leads(x, y)' BY LeadsStay
    <3>3. Before(k, i)' = Before(k, i) BY <2>2
    <3> QED BY Zenon, <1>a, <3>1, <3>2, <3>3
  <2> QED BY <1>a, <2>1, <2>3 DEF Follows, Reading
<1>b. ASSUME UNCHANGED <<pc[k], next[k], flight[k], received[k]>>
      PROVE  Follows(k)'
  BY <1>a, <1>b, <1>f DEF From, Follows, Reading
<1>c. ASSUME flight'[k] = <<>>, pc'[k] \notin Reading
      PROVE  Follows(k)'
  BY <1>c DEF Follows, Reading
<1>1. CASE UNCHANGED vars \/ EventAppended \/ JobEnds \/ Save \/ Expire
  BY <1>1, <1>b DEF vars, EventAppended, JobEnds, Save, Expire, streamVars,
                    clientVars
<1>2. CASE Restart
  BY <1>0, <1>2, <1>c DEF Restart, Connected, Reading
<1>3. ASSUME NEW s \in Subscribers, GeneratorStep(s) PROVE Follows(k)'
  <2>1. UNCHANGED <<journal, received>>
    BY <1>0, <1>3, GeneratorPasses DEF jobVars, fileVars, clientVars
  <2>2. CASE k # s
    <3>1. CASE Breaks(s) BY <1>0, <1>b, <2>1, <2>2, <3>1 DEF Breaks
    <3>2. CASE Pass(s, From(s))
      BY <1>0, <1>b, <2>1, <2>2, <3>2 DEF Pass, Yield, Leave, Goto
    <3>3. CASE Registers(s) BY <1>0, <1>b, <2>1, <2>2, <3>3 DEF Registers
    <3> QED BY <1>0, <1>3, <3>1, <3>2, <3>3, GeneratorPasses
  <2>3. CASE k = s
    <3>1. CASE Breaks(s)
      BY <1>0, <1>a, <2>1, <2>3, <3>1 DEF Breaks, Reading
    <3>3. CASE Registers(s)
      <4>1. pc'[s] = "waiting" /\ pc[s] = "registering" /\ UNCHANGED <<next, flight>>
        BY <1>0, <3>3 DEF Registers
      <4>2. From(s)' = From(s) BY <4>1 DEF From
      <4> QED BY <1>a, <1>f, <2>1, <2>3, <4>1, <4>2 DEF Follows
    <3>2. CASE Pass(s, From(s)) /\ pc[s] \in Reading
      <4> DEFINE n == From(s)
      <4>1. n = SentId(s) + 1 /\ n \in 1 .. MaxEvents + 2
        BY <1>0, <1>3, <1>f, <2>3, <3>2, GeneratorPasses DEF Follows, Reading
      <4> HIDE DEF n
      <4>2. ASSUME NEW i \in First(Unread(n)),
                   pc' = [pc EXCEPT ![s] = "yielding"],
                   next' = [next EXCEPT ![s] = journal[i].sequence],
                   flight' = [flight EXCEPT ![s] = Append(@, journal[i])]
            PROVE  Follows(s)'
        <5>1. journal[i] \in Lines /\ Leads(SentId(s), journal[i])
          BY <1>0, <4>1, LineTyped DEF Leads
        <5>2. /\ pc'[s] = "yielding" /\ next'[s] = journal[i].sequence
              /\ flight'[s] = Append(flight[s], journal[i])
          BY <1>0, <4>2
        <5>3. /\ Len(flight'[s]) = Len(flight[s]) + 1
              /\ \A m \in 1 .. Len(flight[s]) : flight'[s][m] = flight[s][m]
              /\ flight'[s][Len(flight[s]) + 1] = journal[i]
              /\ flight'[s] # <<>>
          <6>1. flight[s] \in Seq(Lines) BY <1>0
          <6> QED BY <5>1, <5>2, <6>1, Appended
        <5>4. LastId(s)' = LastId(s) BY <2>1 DEF LastId
        <5>5. From(s)' = SentId(s)' + 1
          BY <5>2, <5>3 DEF From, SentId
        <5>6. ASSUME NEW m \in 1 .. Len(flight'[s])
              PROVE  Leads(Before(s, m), flight[s][m])'
          <6>1. \A x, y : Leads(x, y) <=> Leads(x, y)'
            BY <2>1 DEF Leads, First, Unread
          <6>2. CASE m \in 1 .. Len(flight[s])
            <7>1. Before(s, m)' = Before(s, m)
              <8>1. m # 1 => m - 1 \in 1 .. Len(flight[s]) BY <1>0, <6>2
              <8> QED BY <5>3, <5>4, <8>1 DEF Before
            <7>2. Leads(Before(s, m), flight[s][m])
              BY <1>f, <2>3, <6>2 DEF Follows
            <7> QED BY <2>1, <5>3, <6>2, <7>1, <7>2 DEF Leads, First, Unread
          <6>3. CASE m = Len(flight[s]) + 1
            <7>1. Before(s, m)' = SentId(s)
              <8>1. CASE flight[s] = <<>>
                BY <5>4, <6>3, <8>1 DEF Before, SentId
              <8>2. CASE flight[s] # <<>>
                <9>1. /\ m # 1 /\ m - 1 = Len(flight[s])
                      /\ Len(flight[s]) \in 1 .. Len(flight[s])
                  BY <1>0, <6>3, <8>2
                <9> QED BY <5>3, <8>2, <9>1 DEF Before, SentId
              <8> QED BY <8>1, <8>2
            <7> QED BY <2>1, <5>1, <5>3, <6>3, <7>1 DEF Leads, First, Unread
          <6> QED BY <1>0, <5>3, <6>2, <6>3
        <5> QED BY <5>5, <5>6 DEF Follows
      <4>3. ASSUME NEW p \in {"closed", "registering"},
                   pc' = [pc EXCEPT ![s] = p], next' = [next EXCEPT ![s] = n],
                   flight' = flight
            PROVE  Follows(s)'
        <5>1. pc'[s] = p /\ next'[s] = n BY <1>0, <4>1, <4>3
        <5> QED BY <1>a, <2>1, <2>3, <4>1, <4>3, <5>1 DEF From, Reading
      <4> QED
        <5>1. Pass(s, n) BY <3>2 DEF n
        <5> QED BY <1>0, <2>3, <4>1, <4>2, <4>3, <5>1, PassCases
    <3> QED BY <1>0, <1>3, <3>1, <3>2, <3>3, GeneratorPasses DEF Reading
  <2> QED BY <2>2, <2>3
<1>4. ASSUME NEW s \in Subscribers, Connect(s) PROVE Follows(k)'
  <2>1. /\ UNCHANGED <<received, flight>> /\ pc[s] = "out"
        /\ \E q \in {"opening", "gone"} : pc' = [pc EXCEPT ![s] = q]
        /\ next' = [next EXCEPT ![s] = LastId(s) + 1]
    BY <1>4 DEF Connect, Goto, clientVars
  <2>2. CASE k # s BY <1>0, <1>b, <2>1, <2>2
  <2>3. CASE k = s
    <3>1. flight[s] = <<>> BY <1>0, <2>1 DEF StreamShaped, Started
    <3>2. pc'[s] # "yielding" /\ next'[s] = SentId(s) + 1
      BY <1>0, <2>1, <3>1 DEF SentId
    <3> QED BY <1>a, <2>1, <2>3, <3>2 DEF From
  <2> QED BY <2>2, <2>3
<1>5. ASSUME NEW s \in Subscribers, Receive(s) PROVE Follows(k)'
  <2>1. /\ journal' = journal /\ next' = next /\ flight[s] # <<>>
        /\ received' = [received EXCEPT ![s] = Append(@, Head(flight[s]))]
        /\ \/ /\ pc' = [pc EXCEPT ![s] = "done"]
              /\ flight' = [flight EXCEPT ![s] = <<>>]
           \/ /\ pc' = pc
              /\ flight' = [flight EXCEPT ![s] = Tail(@)]
    BY <1>5 DEF Receive, Goto, jobVars, fileVars
  <2>2. CASE k # s BY <1>0, <1>b, <2>1, <2>2
  <2>3. CASE k = s
    <3>1. CASE pc' = [pc EXCEPT ![s] = "done"] /\ flight' = [flight EXCEPT ![s] = <<>>]
      <4>1. flight'[k] = <<>> /\ pc'[k] = "done" BY <1>0, <2>3, <3>1
      <4> QED BY <1>c, <4>1 DEF Reading
    <3>2. CASE pc' = pc /\ flight' = [flight EXCEPT ![s] = Tail(@)]
      <4>1. /\ flight'[s] = Tail(flight[s])
            /\ received'[s] = Append(received[s], Head(flight[s]))
        BY <1>0, <2>1, <3>2
      <4>2. /\ Head(flight[s]) = flight[s][1] /\ flight[s][1] \in Lines
            /\ Len(flight[s]) >= 1
            /\ Len(flight'[s]) = Len(flight[s]) - 1
            /\ \A i \in 1 .. Len(flight[s]) - 1 : flight'[s][i] = flight[s][i + 1]
            /\ Len(flight[s]) \in Nat
            /\ flight'[s] = <<>> <=> Len(flight[s]) = 1
        <5>1. flight[s] \in Seq(Lines) /\ flight[s] # <<>> BY <1>0, <2>1
        <5>2. /\ Head(flight[s]) = flight[s][1] /\ flight[s][1] \in Lines
              /\ Len(flight[s]) \in Nat \ {0}
              /\ Len(flight'[s]) = Len(flight[s]) - 1
              /\ \A i \in 1 .. Len(flight[s]) - 1 : flight'[s][i] = flight[s][i + 1]
              /\ flight'[s] = <<>> <=> Len(flight[s]) = 1
          BY Zenon, <4>1, <5>1, Taken
        <5>3. \A a \in Nat \ {0} : a >= 1 /\ a \in Nat OBVIOUS
        <5> QED BY <5>2, <5>3
      <4>3. LastId(s)' = flight[s][1].sequence
        <5>1. /\ received'[s] # <<>>
              /\ received'[s][Len(received'[s])] = flight[s][1]
          <6>1. received[s] \in Seq(Lines) BY <1>0
          <6> QED BY <4>1, <4>2, <6>1, Appended
        <5> QED BY <5>1 DEF LastId
      <4>4. ASSUME NEW i \in 1 .. Len(flight'[s])
            PROVE  /\ i + 1 \in 1 .. Len(flight[s])
                   /\ Before(s, i)' = Before(s, i + 1)
                   /\ flight'[s][i] = flight[s][i + 1]
        <5>1. i + 1 \in 1 .. Len(flight[s]) /\ i + 1 # 1 /\ (i + 1) - 1 = i
              /\ i \in 1 .. Len(flight[s]) - 1
          <6>1. \A a \in Nat : \A b \in 1 .. a - 1 :
                  b + 1 \in 1 .. a /\ b + 1 # 1 /\ (b + 1) - 1 = b
            OBVIOUS
          <6>2. i \in 1 .. Len(flight[s]) - 1 BY <4>2
          <6> QED BY <4>2, <6>1, <6>2
        <5>2. CASE i = 1 BY <4>2, <4>3, <5>1, <5>2 DEF Before
        <5>3. CASE i # 1
          <6>1. i - 1 \in 1 .. Len(flight[s]) - 1 /\ (i - 1) + 1 = i
            BY <1>0, <5>1, <5>3
          <6>2. flight'[s][i - 1] = flight[s][i] BY <4>2, <6>1
          <6> QED BY <4>2, <5>1, <5>3, <6>2 DEF Before
        <5> QED BY <4>2, <5>1, <5>2, <5>3
      <4>5. \A i \in 1 .. Len(flight'[s]) : Leads(Before(s, i), flight[s][i])'
        <5>1. \A x, y : Leads(x, y) => Leads(x, y)'
          BY <2>1 DEF Leads, First, Unread
        <5> SUFFICES ASSUME NEW i \in 1 .. Len(flight'[s])
                     PROVE  Leads(Before(s, i), flight[s][i])'
          OBVIOUS
        <5>2. /\ i + 1 \in 1 .. Len(flight[s])
              /\ Before(s, i)' = Before(s, i + 1)
              /\ flight'[s][i] = flight[s][i + 1]
          BY <4>4
        <5>3. PICK x, y : /\ x = Before(s, i + 1) /\ y = flight[s][i + 1]
                          /\ Leads(x, y)
          BY <1>f, <2>3, <5>2 DEF Follows
        <5>4. Before(s, i)' = x /\ flight'[s][i] = y BY <5>2, <5>3
        <5>5. Leads(x, y)' BY <5>1, <5>3
        <5> QED BY <5>4, <5>5, Zenon DEF Leads
      <4>6. SentId(s)' = SentId(s)
        <5>1. CASE Len(flight[s]) = 1
          <6>1. flight'[s] = <<>> BY <4>2, <5>1
          <6> QED BY <2>1, <4>3, <5>1, <6>1 DEF SentId
        <5>2. CASE Len(flight[s]) # 1
          <6>1. /\ flight'[s] # <<>>
                /\ Len(flight'[s]) \in 1 .. Len(flight[s]) - 1
                /\ Len(flight'[s]) + 1 = Len(flight[s])
            <7>1. \A a \in Nat : a >= 1 /\ a # 1 => a - 1 \in 1 .. a - 1 /\ (a - 1) + 1 = a
              OBVIOUS
            <7> QED BY <4>2, <5>2, <7>1
          <6> QED BY <2>1, <4>2, <6>1 DEF SentId
        <5> QED BY <5>1, <5>2
      <4>7. From(s)' = From(s) BY <2>1, <3>2 DEF From
      <4> QED BY <1>f, <2>3, <3>2, <4>5, <4>6, <4>7 DEF Follows
    <3> QED BY <2>1, <3>1, <3>2
  <2> QED BY <2>2, <2>3
<1>6. ASSUME NEW s \in Subscribers, StreamEnds(s) \/ Heartbeat(s) PROVE Follows(k)'
  <2>1. /\ UNCHANGED <<received, flight, next>>
        /\ \/ pc' = [pc EXCEPT ![s] = "out"]
           \/ pc[s] = "waiting" /\ pc' = [pc EXCEPT ![s] = "beating"]
    BY <1>6 DEF StreamEnds, Heartbeat, Goto, clientVars
  <2>2. pc'[k] \in Reading => pc[k] \in Reading /\ From(k)' = From(k)
    BY <1>0, <2>1 DEF From, Reading
  <2> QED BY <1>a, <1>f, <2>1, <2>2 DEF Follows, Reading
<1>7. ASSUME NEW s \in Subscribers, Drop(s) PROVE Follows(k)'
  <2>1. /\ UNCHANGED <<received, next>>
        /\ pc' = [pc EXCEPT ![s] = "out"]
        /\ flight' = [flight EXCEPT ![s] = <<>>]
    BY <1>7 DEF Drop, Goto
  <2>2. CASE k # s BY <1>0, <1>b, <2>1, <2>2
  <2>3. CASE k = s
    <3>1. flight'[k] = <<>> /\ pc'[k] = "out" BY <1>0, <2>1, <2>3
    <3> QED BY <1>c, <3>1 DEF Reading
  <2> QED BY <2>2, <2>3
<1> QED BY <1>1, <1>2, <1>3, <1>4, <1>5, <1>6, <1>7 DEF Next, ClientStep

LEMMA FeedInitially == Init => FeedInv
PROOF
<1> SUFFICES ASSUME Init, NEW s \in Subscribers PROVE Follows(s) BY DEF FeedInv
<1>1. flight[s] = <<>> /\ pc[s] = "out" BY DEF Init
<1> QED BY <1>1 DEF Follows

\* Every step appends a line, gives one client the line that leads above its
\* last, or is none of a subscriber's concern.
LEMMA FeedStep ==
  ASSUME Shape, FeedInv, [Next]_vars
  PROVE  [Feed!Next]_(Feed!feedVars)
PROOF
<1>1. ASSUME NEW s \in Subscribers, Receive(s) PROVE Feed!Deliver(s)
  <2>1. /\ journal' = journal /\ flight[s] # <<>>
        /\ received' = [received EXCEPT ![s] = Append(@, Head(flight[s]))]
    BY <1>1 DEF Receive, jobVars, fileVars
  <2>2. flight[s] \in Seq(Lines) /\ TypeOK BY DEF Shape, TypeOK
  <2>3. /\ 1 \in 1 .. Len(flight[s]) /\ Head(flight[s]) = flight[s][1]
    BY <2>1, <2>2
  <2>4. Leads(LastId(s), flight[s][1])
    BY <2>3 DEF FeedInv, Follows, Before
  <2>5. LastId(s) \in Nat BY <2>2, IdTyped
  <2>6. \E j \in 1 .. Len(journal) :
          /\ flight[s][1] = journal[j] /\ journal[j].sequence > LastId(s)
          /\ \A k \in 1 .. j - 1 : journal[k].sequence <= LastId(s)
    BY <2>2, <2>4, <2>5, LeadFacts
  <2>7. LastId(s) = Feed!Last(s) BY DEF LastId, Feed!Last
  <2> QED BY <2>1, <2>3, <2>6, <2>7 DEF Feed!Deliver
<1>2. ASSUME received' = received PROVE Feed!Publish \/ UNCHANGED Feed!feedVars
  <2>1. CASE journal' = journal BY <1>2, <2>1 DEF Feed!feedVars
  <2>2. ASSUME NEW l \in Lines, journal' = Append(journal, l) PROVE Feed!Publish
    <3>1. journal \in Seq(Lines) BY DEF Shape, TypeOK
    <3>2. Len(journal') = Len(journal) + 1 /\ journal'[Len(journal')] = l
      BY <2>2, <3>1
    <3>3. l \in Feed!Lines BY DEF Lines, Feed!Lines
    <3> QED BY <1>2, <2>2, <3>2, <3>3 DEF Feed!Publish
  <2> QED BY <2>1, <2>2, JournalGrows
<1>3. \/ received' = received
      \/ \E s \in Subscribers : Receive(s)
  BY DEF Next, EventAppended, JobEnds, Save, Expire, Restart, GeneratorStep,
         ClientStep, Begin, Resume, Register, Wake, AfterHeartbeat, Connect, StreamEnds,
         Heartbeat, Drop, vars, clientVars
<1> QED BY <1>1, <1>2, <1>3 DEF Feed!Next

-----------------------------------------------------------------------------
(* The theorems *)

LEMMA Inductive == IInv /\ [Next]_vars => IInv'
PROOF
<1> SUFFICES ASSUME IInv, [Next]_vars PROVE IInv' OBVIOUS
<1>1. Shape /\ AllAttentive /\ Delivered BY DEF IInv, Shape
<1>2. Shape' BY <1>1, ShapeStep
<1>3. AllAttentive' BY <1>1, AttentiveStep
<1>4. Delivered' BY <1>1, DeliveredStep
<1> QED BY <1>2, <1>3, <1>4 DEF IInv, Shape

THEOREM Invariance == Spec => []IInv
BY Initially, Inductive, PTL DEF Spec

\* Job, generators, connections and clients have the types the code gives them.
THEOREM Typing == Spec => []TypeOK
BY Invariance, PTL DEF IInv

\* For any number of subscribers sharing the event, lost connections and
\* restarts, nobody waits unreleased once the job is over, and before that with
\* a line unread only if another's clear fell between its own and its wait.
THEOREM EndNeverMissed == Spec => []MissedOnlyIfErased
PROOF
<1>1. IInv => MissedOnlyIfErased
  BY DEF IInv, AllAttentive, Attentive, MissedOnlyIfErased, TypeOK
<1> QED BY <1>1, Invariance, PTL

\* A generator that has the event to itself never waits unreleased with a line
\* unread: nobody can come between its clear and its wait.
AloneMissesNothing ==
  (\A s, t \in Subscribers : s = t) =>
    \A s \in Subscribers :
      pc[s] = "waiting" /\ ~ woken[s] => ~ terminal /\ Unread(next[s]) = {}

NothingErased == (\A s, t \in Subscribers : s = t) => erased = {}

\* With one subscriber no wakeup is missed.
THEOREM LoneWakeupsKept == Spec => []AloneMissesNothing
PROOF
<1>1. Init => NothingErased BY DEF Init, NothingErased
<1>2. NothingErased /\ [Next]_vars => NothingErased'
  <2> SUFFICES ASSUME \A s, t \in Subscribers : s = t, erased = {}, [Next]_vars
               PROVE  erased' = {}
    BY DEF NothingErased
  <2>1. ASSUME NEW s \in Subscribers PROVE Keep(s) \/ Clear(s) => erased' = {}
    BY DEF Keep, Clear
  <2> QED
    BY <2>1 DEF Next, EventAppended, JobEnds, Signal, Save, Expire, Restart, GeneratorStep,
       ClientStep, Begin, Resume, Register, Wake, AfterHeartbeat, Pass, Connect, Receive,
       StreamEnds, Heartbeat, Drop, vars, eventVars
<1>3. MissedOnlyIfErased /\ NothingErased => AloneMissesNothing
  BY DEF MissedOnlyIfErased, NothingErased, AloneMissesNothing
<1> QED BY <1>1, <1>2, <1>3, EndNeverMissed, PTL DEF Spec

\* For any number of subscribers, lost connections and restarts, what a client
\* receives next is the first line of the journal above the last it received.
THEOREM FeedServed == Spec => ImplementsFeed
PROOF
<1>1. Init => Feed!Init
  <2> SUFFICES ASSUME Init PROVE Feed!Init OBVIOUS
  <2>1. File!Line(1, FALSE) \in Feed!Lines BY DEF File!Line, Feed!Lines
  <2>2. \A l \in Feed!Lines : <<l>> \in Seq(Feed!Lines) /\ Len(<<l>>) = 1
    OBVIOUS
  <2> QED BY <2>1, <2>2 DEF Init, Feed!Init
<1>2. IInv => Shape BY DEF IInv, Shape
<1>3. IInv /\ FeedInv /\ [Next]_vars => FeedInv' BY <1>2, FollowStep
<1>4. IInv /\ FeedInv /\ [Next]_vars => [Feed!Next]_(Feed!feedVars)
  BY <1>2, FeedStep
<1> QED
  BY <1>1, <1>3, <1>4, FeedInitially, Invariance, PTL
     DEF Spec, ImplementsFeed, Feed!Spec

\* In all lives of the server the sequences a client receives grow: it is given
\* no event twice, and none behind one it has.
ReceivedGrows ==
  \A s \in Subscribers : \A i, k \in 1 .. Len(received[s]) :
    i < k => received[s][i].sequence < received[s][k].sequence

\* No client is given an event twice or out of order, in any life of the server.
THEOREM NothingTwice == Spec => []ReceivedGrows
PROOF
<1>1. Init => ReceivedGrows BY DEF Init, ReceivedGrows
<1>2. ASSUME IInv, FeedInv, ReceivedGrows, [Next]_vars PROVE ReceivedGrows'
  <2>0. [Feed!Next]_(Feed!feedVars) BY <1>2, FeedStep DEF IInv, Shape
  <2>1. CASE UNCHANGED Feed!feedVars \/ Feed!Publish
    BY <1>2, <2>1 DEF Feed!feedVars, Feed!Publish, ReceivedGrows
  <2>2. ASSUME NEW s \in Subscribers, Feed!Deliver(s) PROVE ReceivedGrows'
    <3>1. PICK j \in 1 .. Len(journal) :
            /\ journal[j].sequence > Feed!Last(s)
            /\ received' = [received EXCEPT ![s] = Append(@, journal[j])]
      BY <2>2 DEF Feed!Deliver
    <3>2. /\ received \in [Subscribers -> Seq(Lines)]
          /\ received[s] \in Seq(Lines) /\ journal[j] \in Lines
      BY <1>2 DEF IInv, TypeOK
    <3> DEFINE q == received[s]  l == journal[j]  r == received'[s]
    <3>3. /\ Len(q) \in Nat /\ Len(r) = Len(q) + 1
          /\ \A m \in 1 .. Len(q) : r[m] = q[m]
          /\ r[Len(q) + 1] = l
      <4>1. r = Append(q, l) BY <3>1, <3>2
      <4> QED BY <3>2, <4>1, Appended
    <3>4. ASSUME NEW m \in 1 .. Len(q) PROVE q[m].sequence < l.sequence
      <4>1. /\ Len(q) \in 1 .. Len(q) /\ q # <<>>
            /\ q[m] \in Lines /\ q[Len(q)] \in Lines
        BY <3>2
      <4>2. l.sequence > q[Len(q)].sequence /\ l.sequence \in Nat
        BY <3>1, <3>2, <4>1 DEF Feed!Last, Lines
      <4>3. q[m].sequence \in Nat /\ q[Len(q)].sequence \in Nat
        BY <4>1 DEF Lines
      <4>4. m < Len(q) => q[m].sequence < q[Len(q)].sequence
        BY <1>2, <4>1 DEF ReceivedGrows
      <4>5. \A a, b, c \in Nat : a < b /\ c > b => a < c OBVIOUS
      <4>6. CASE m < Len(q) BY <4>2, <4>3, <4>4, <4>5, <4>6
      <4>7. CASE m = Len(q) BY <4>2, <4>3, <4>7
      <4> HIDE DEF q, l, r
      <4>8. Len(q) \in Nat BY <3>3
      <4>9. m < Len(q) \/ m = Len(q) BY <4>8
      <4> QED BY <4>6, <4>7, <4>9
    <3> HIDE DEF q, l, r
    <3>5. ASSUME NEW i \in 1 .. Len(r), NEW k \in 1 .. Len(r), i < k
          PROVE  r[i].sequence < r[k].sequence
      <4>1. i \in 1 .. Len(q) BY <3>3, <3>5
      <4>2. CASE k \in 1 .. Len(q)
        <5>1. q[i].sequence < q[k].sequence
          BY <1>2, <3>5, <4>1, <4>2 DEF ReceivedGrows, q
        <5> QED BY <3>3, <4>1, <4>2, <5>1
      <4>3. CASE k = Len(q) + 1 BY <3>3, <3>4, <4>1, <4>3
      <4> QED BY <3>3, <4>2, <4>3
    <3>6. \A x \in Subscribers \ {s} : received'[x] = received[x]
      BY <3>1, <3>2
    <3> QED BY <1>2, <3>5, <3>6 DEF ReceivedGrows, r
  <2> QED BY <2>0, <2>1, <2>2 DEF Feed!Next
<1>3. IInv /\ FeedInv /\ [Next]_vars => FeedInv'
  BY FollowStep DEF IInv, Shape
<1> QED BY <1>1, <1>2, <1>3, FeedInitially, Invariance, PTL DEF Spec

\* Until the server restarts, a client has received the first lines of the
\* journal, each once and in order.
ReceivedIsPrefix ==
  restarts = 0 =>
    \A s \in Subscribers :
      /\ Len(received[s]) <= Len(journal)
      /\ received[s] = SubSeq(journal, 1, Len(received[s]))

\* Until the server restarts each client receives the lines of the journal in
\* order, none missing and none twice.
THEOREM PrefixDelivered == Spec => []ReceivedIsPrefix
PROOF
<1>1. IInv => ReceivedIsPrefix
  <2> SUFFICES ASSUME IInv, restarts = 0, NEW s \in Subscribers
               PROVE  /\ Len(received[s]) <= Len(journal)
                      /\ received[s] = SubSeq(journal, 1, Len(received[s]))
    BY DEF ReceivedIsPrefix
  <2>1. /\ journal \in Seq(Lines) /\ Len(journal) \in Nat
        /\ received[s] \in Seq(Lines) /\ Len(received[s]) \in Nat
        /\ flight[s] \in Seq(Lines) /\ Len(flight[s]) \in Nat
    BY DEF IInv, TypeOK
  <2>2. Tracks(s) BY DEF IInv, Delivered
  <2>3. Len(received[s]) <= Len(journal)
    <3>1. Sent(s) <= Len(journal) BY <2>2 DEF Tracks
    <3>2. ASSUME NEW a \in Nat, NEW b \in Nat, NEW c \in Nat, a + b <= c
          PROVE  a <= c
      BY <3>2
    <3>3. Len(received[s]) + Len(flight[s]) <= Len(journal)
      BY <3>1 DEF Sent
    <3> QED BY <2>1, <3>2, <3>3
  <2>4. \A i \in 1 .. Len(received[s]) : received[s][i] = journal[i]
    BY <2>2 DEF Tracks
  <2> QED BY <2>1, <2>3, <2>4
<1> QED BY <1>1, Invariance, PTL

\* Until the server restarts it closes a stream only after the terminal line.
THEOREM ClosedComplete == Spec => []ClosedAfterTerminal
PROOF
<1>1. IInv => ClosedAfterTerminal
  <2> SUFFICES ASSUME IInv, restarts = 0, NEW s \in Subscribers, pc[s] = "closed"
               PROVE  SentTerminal(s)
    BY DEF ClosedAfterTerminal
  <2>1. /\ received[s] \in Seq(Lines) /\ Len(received[s]) \in Nat
        /\ flight[s] \in Seq(Lines) /\ Len(flight[s]) \in Nat
        /\ sequence \in 1 .. MaxEvents + 1
    BY DEF IInv, TypeOK
  <2>2. Tracks(s) /\ Numbered BY DEF IInv, Delivered
  <2> DEFINE n == Len(journal)
  <2>3. n \in Nat \ {0} BY <2>1, <2>2 DEF Numbered
  <2>4. Len(received[s]) + Len(flight[s]) = n /\ journal[n].terminal
    BY <2>2 DEF Tracks, Sent, Numbered
  <2> DEFINE all == received[s] \o flight[s]
  <2>5. /\ Len(all) = Len(received[s]) + Len(flight[s])
        /\ \A i \in 1 .. Len(received[s]) : all[i] = received[s][i]
        /\ \A i \in 1 .. Len(flight[s]) : all[Len(received[s]) + i] = flight[s][i]
    <3>1. /\ Len(all) = Len(received[s]) + Len(flight[s])
          /\ \A i \in 1 .. Len(received[s]) + Len(flight[s]) :
               all[i] = IF i <= Len(received[s]) THEN received[s][i]
                        ELSE flight[s][i - Len(received[s])]
      BY <2>1, ConcatProperties
    <3>2. ASSUME NEW a \in Nat, NEW b \in Nat
          PROVE  /\ \A i \in 1 .. a : i \in 1 .. a + b /\ i <= a
                 /\ \A i \in 1 .. b : /\ a + i \in 1 .. a + b
                                     /\ ~ (a + i <= a) /\ (a + i) - a = i
      OBVIOUS
    <3> HIDE DEF all
    <3>3. ASSUME NEW i \in 1 .. Len(flight[s])
          PROVE  all[Len(received[s]) + i] = flight[s][i]
      <4> DEFINE k == Len(received[s]) + i
      <4>1. /\ k \in 1 .. Len(received[s]) + Len(flight[s])
            /\ ~ (k <= Len(received[s])) /\ k - Len(received[s]) = i
        BY <2>1, <3>2
      <4> HIDE DEF k
      <4>2. all[k] = flight[s][i] BY <3>1, <4>1
      <4> QED BY <4>2 DEF k
    <3>4. ASSUME NEW i \in 1 .. Len(received[s])
          PROVE  all[i] = received[s][i]
      <4>1. i \in 1 .. Len(received[s]) + Len(flight[s]) /\ i <= Len(received[s])
        BY <2>1, <3>2
      <4> QED BY <3>1, <4>1
    <3> QED BY <3>1, <3>3, <3>4
  <2> HIDE DEF all, n
  <2>6. all[n] = journal[n]
    <3>1. CASE Len(flight[s]) = 0
      <4>1. n \in 1 .. Len(received[s]) BY <2>1, <2>3, <2>4, <3>1
      <4>2. received[s][n] = journal[n] BY <2>2, <4>1 DEF Tracks
      <4> QED BY <2>5, <4>1, <4>2
    <3>2. CASE Len(flight[s]) # 0
      <4>1. Len(flight[s]) \in 1 .. Len(flight[s]) BY <2>1, <3>2
      <4>2. flight[s][Len(flight[s])] = journal[n]
        BY <2>2, <2>4, <4>1 DEF Tracks
      <4>3. all[Len(received[s]) + Len(flight[s])] = flight[s][Len(flight[s])]
        BY <2>5, <4>1
      <4> QED BY <2>4, <4>2, <4>3
    <3> QED BY <3>1, <3>2
  <2>7. all[n].terminal BY <2>4, <2>6
  <2>8. n \in 1 .. Len(all)
    <3>1. Len(all) = n BY <2>4, <2>5
    <3> QED BY <2>3, <3>1
  <2> QED BY <2>7, <2>8 DEF SentTerminal, all
<1> QED BY <1>1, Invariance, PTL
=============================================================================
