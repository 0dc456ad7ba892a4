---------------------------- MODULE EventStream -----------------------------
(***************************************************************************)
(* Subscribers of one job: GenerationJobManager.events, the route that      *)
(* serves it (app/routes/generation.py) and a client that reconnects with   *)
(* the last sequence it received (consume_events in test/run_full_flow.py). *)
(*                                                                          *)
(* An action of the generator is its code between two suspensions: it is    *)
(* suspended while a frame is handed to the connection and while it waits   *)
(* for the record's updated event or the heartbeat.  asyncio.wait_for of    *)
(* Python 3.11 (Dockerfile, mypy.ini) runs updated.wait() in a task of its  *)
(* own, which the event loop starts after the steps that are ready already: *)
(* between the clear and the wait others run.  Every pass reads the journal *)
(* file again.  Within a life of the server sequences grow from line to     *)
(* line (JobJournal), so the lines read earlier need not be kept.           *)
(***************************************************************************)
EXTENDS Naturals, Sequences

CONSTANTS Subscribers,
          MaxEvents,    \* bound on the lines of the journal
          MaxDrops,     \* bound on lost connections, per subscriber
          MaxRestarts   \* bound on restarts of the server

ASSUME BoundsAssumption == /\ MaxEvents \in Nat \ {0}
                           /\ MaxDrops \in Nat
                           /\ MaxRestarts \in Nat

VARIABLES
  journal,   \* lines of events.jsonl: sequence and whether it is terminal
  sequence,  \* JobRecord.sequence
  saved,     \* the sequence in snapshot.json
  terminal,  \* JobRecord.state.terminal
  retained,  \* the record is in _jobs
  updated,   \* the asyncio event JobRecord.updated
  erased,    \* history: generators that missed a signal, because another one
             \* cleared the event before they were registered as waiters
  restarts,
  pc,        \* where the connection of a subscriber is
  woken,     \* its wait on updated has been released
  next,      \* next_sequence of its generator
  flight,    \* frames on their way to the client
  received,  \* what the client has received
  drops

fileVars   == <<journal, sequence, saved, terminal>>
jobVars    == <<fileVars, retained, restarts>>
streamVars == <<pc, woken, next, flight>>
clientVars == <<received, drops>>
eventVars  == <<updated, erased>>
vars == <<jobVars, eventVars, streamVars, clientVars>>

File == INSTANCE EventFile

Connected == {"opening", "yielding", "registering", "waiting", "beating", "closed"}
Places    == Connected \cup {"out", "broken", "gone", "done"}

Lines == [sequence : 1 .. MaxEvents + 1, terminal : BOOLEAN]

\* create has written the queued event and a snapshot.
Init ==
  /\ journal = <<File!Line(1, FALSE)>>
  /\ sequence = 1
  /\ saved = 1
  /\ terminal = FALSE
  /\ retained = TRUE
  /\ updated = TRUE
  /\ erased = {}
  /\ restarts = 0
  /\ pc = [s \in Subscribers |-> "out"]
  /\ woken = [s \in Subscribers |-> FALSE]
  /\ next = [s \in Subscribers |-> 1]
  /\ flight = [s \in Subscribers |-> <<>>]
  /\ received = [s \in Subscribers |-> <<>>]
  /\ drops = [s \in Subscribers |-> 0]

(***************************************************************************)
(* The job                                                                 *)
(***************************************************************************)

\* Mutant: the event is not set.
SignalNobody == UNCHANGED <<eventVars, woken>>

\* updated.set releases everybody who is registered.
Signal ==
  /\ updated' = TRUE
  /\ UNCHANGED erased
  /\ woken' = [s \in Subscribers |-> woken[s] \/ pc[s] = "waiting"]

EventAppended ==
  /\ Len(journal) < MaxEvents
  /\ File!Write(sequence + 1, FALSE)
  /\ Signal
  /\ UNCHANGED <<retained, restarts, pc, next, flight, clientVars>>

JobEnds ==
  /\ File!Write(sequence + 1, TRUE)
  /\ Signal
  /\ UNCHANGED <<retained, restarts, pc, next, flight, clientVars>>

\* The handler that appended an event writes the snapshot, unless the process
\* dies or a write fails in between: only a restart reads the snapshot.
Save ==
  /\ File!Save
  /\ UNCHANGED <<retained, restarts, eventVars, streamVars, clientVars>>

\* Some lookup expires the record.
Expire ==
  /\ terminal
  /\ retained
  /\ retained' = FALSE
  /\ UNCHANGED <<fileVars, restarts, eventVars, streamVars, clientVars>>

\* The process dies and starts again: connections are lost, and a job whose
\* snapshot does not show it over is settled from that snapshot.
Restart ==
  /\ retained
  /\ restarts < MaxRestarts
  /\ restarts' = restarts + 1
  /\ \/ File!Settled /\ UNCHANGED fileVars
     \/ File!Settle
  /\ updated' = ~ File!Settled
  /\ erased' = {}
  /\ pc' = [s \in Subscribers |-> IF pc[s] \in Connected THEN "out" ELSE pc[s]]
  /\ woken' = [s \in Subscribers |-> FALSE]
  /\ flight' = [s \in Subscribers |-> <<>>]
  /\ UNCHANGED <<retained, next, clientVars>>

(***************************************************************************)
(* The generator                                                           *)
(***************************************************************************)

\* Lines of the journal with a sequence from n on, and the first of them.
Unread(n) == {i \in 1 .. Len(journal) : journal[i].sequence >= n}
First(S)  == {i \in S : \A k \in S : i <= k}

Goto(s, p) == pc' = [pc EXCEPT ![s] = p]

\* Suspended with a line handed out; next is its sequence until it is resumed.
Yield(s, line) ==
  /\ flight' = [flight EXCEPT ![s] = Append(@, line)]
  /\ next' = [next EXCEPT ![s] = line.sequence]
  /\ Goto(s, "yielding")

\* Suspended, or returned, with nothing to hand out from next_sequence = n on.
Leave(s, n, p) ==
  /\ next' = [next EXCEPT ![s] = n]
  /\ Goto(s, p)
  /\ UNCHANGED flight

Keep(s) == updated' = updated /\ erased' = erased \ {s}

\* The event that all subscribers share is cleared: the signal in it is lost to
\* those that are between their own clear and their wait.
Clear(s) ==
  /\ updated' = FALSE
  /\ erased' = (erased \ {s}) \cup
       {t \in Subscribers \ {s} : updated /\ pc[t] = "registering"}

\* Mutant: the event is cleared and awaited although a frame was sent since
\* the journal was read.
PassWithoutReread(s, n) ==
  /\ woken' = [woken EXCEPT ![s] = FALSE]
  /\ \/ /\ pc[s] # "yielding"
        /\ \E i \in First(Unread(n)) : Yield(s, journal[i])
        /\ Keep(s)
     \/ /\ Unread(n) = {} \/ pc[s] = "yielding"
        /\ terminal /\ n > sequence
        /\ Leave(s, n, "closed")
        /\ Keep(s)
     \/ /\ Unread(n) = {} \/ pc[s] = "yielding"
        /\ ~ (terminal /\ n > sequence)
        /\ Leave(s, n, "registering")
        /\ Clear(s)

\* Mutant: the stream is closed as soon as the job is over.
PassClosesEarly(s, n) ==
  /\ woken' = [woken EXCEPT ![s] = FALSE]
  /\ \/ /\ terminal
        /\ Leave(s, n, "closed")
        /\ Keep(s)
     \/ /\ ~ terminal
        /\ \E i \in First(Unread(n)) : Yield(s, journal[i])
        /\ Keep(s)
     \/ /\ ~ terminal
        /\ Unread(n) = {}
        /\ Leave(s, n, "registering")
        /\ Clear(s)

\* From one suspension to the next, with next_sequence = n: hand out the first
\* line not yet sent, or return after the last one, or clear the event and have
\* a task wait for it.
Pass(s, n) ==
  /\ woken' = [woken EXCEPT ![s] = FALSE]
  /\ \/ /\ \E i \in First(Unread(n)) : Yield(s, journal[i])
        /\ Keep(s)
     \/ /\ Unread(n) = {}
        /\ terminal /\ n > sequence
        /\ Leave(s, n, "closed")
        /\ Keep(s)
     \/ /\ Unread(n) = {}
        /\ ~ (terminal /\ n > sequence)
        /\ Leave(s, n, "registering")
        /\ Clear(s)

\* The last sequence the client has received.
LastId(s) ==
  IF received[s] = <<>> THEN 0 ELSE received[s][Len(received[s])].sequence

\* The generator looks the record up again before it reads.
Begin(s) ==
  /\ pc[s] = "opening"
  /\ \/ /\ retained
        /\ Pass(s, next[s])
     \/ /\ ~ retained
        /\ Goto(s, "broken")
        /\ UNCHANGED <<eventVars, woken, next, flight>>
  /\ UNCHANGED <<jobVars, clientVars>>

\* The frame is with the connection; next_sequence follows it.
Resume(s) ==
  /\ pc[s] = "yielding"
  /\ Pass(s, next[s] + 1)
  /\ UNCHANGED <<jobVars, clientVars>>

\* The task runs updated.wait(): it returns at once if the event is set, and is
\* registered as a waiter if it is not.
Register(s) ==
  /\ pc[s] = "registering"
  /\ Goto(s, "waiting")
  /\ woken' = [woken EXCEPT ![s] = updated]
  /\ UNCHANGED <<jobVars, eventVars, next, flight, clientVars>>

Wake(s) ==
  /\ pc[s] = "waiting"
  /\ woken[s]
  /\ Pass(s, next[s])
  /\ UNCHANGED <<jobVars, clientVars>>

\* The wait times out and a heartbeat is sent.
Heartbeat(s) ==
  /\ pc[s] = "waiting"
  /\ ~ woken[s]
  /\ Goto(s, "beating")
  /\ UNCHANGED <<jobVars, eventVars, woken, next, flight, clientVars>>

AfterHeartbeat(s) ==
  /\ pc[s] = "beating"
  /\ Pass(s, next[s])
  /\ UNCHANGED <<jobVars, clientVars>>

(***************************************************************************)
(* The route and the client                                                *)
(***************************************************************************)

\* Mutant: a reconnecting client starts from the beginning.
ConnectFromStart(s) ==
  /\ pc[s] = "out"
  /\ Goto(s, IF retained THEN "opening" ELSE "gone")
  /\ next' = [next EXCEPT ![s] = 1]
  /\ UNCHANGED <<jobVars, eventVars, woken, flight, clientVars>>

\* Mutant: the event with the last sequence is sent again.
ConnectAtLast(s) ==
  /\ pc[s] = "out"
  /\ Goto(s, IF retained THEN "opening" ELSE "gone")
  /\ next' = [next EXCEPT ![s] = LastId(s)]
  /\ UNCHANGED <<jobVars, eventVars, woken, flight, clientVars>>

\* The route answers 404, or 200 with a generator that has not run yet and
\* starts after Last-Event-ID.
Connect(s) ==
  /\ pc[s] = "out"
  /\ Goto(s, IF retained THEN "opening" ELSE "gone")
  /\ next' = [next EXCEPT ![s] = LastId(s) + 1]
  /\ UNCHANGED <<jobVars, eventVars, woken, flight, clientVars>>

Finished(s) == received[s] # <<>> /\ received[s][Len(received[s])].terminal

\* The client takes the next frame and leaves after a terminal one.
Receive(s) ==
  /\ pc[s] \in Connected
  /\ flight[s] # <<>>
  /\ received' = [received EXCEPT ![s] = Append(@, Head(flight[s]))]
  /\ IF Head(flight[s]).terminal
     THEN /\ Goto(s, "done")
          /\ flight' = [flight EXCEPT ![s] = <<>>]
     ELSE /\ flight' = [flight EXCEPT ![s] = Tail(@)]
          /\ UNCHANGED pc
  /\ UNCHANGED <<jobVars, eventVars, woken, next, drops>>

\* The stream ended before a terminal event: connect again.
StreamEnds(s) ==
  /\ pc[s] = "closed"
  /\ flight[s] = <<>>
  /\ Goto(s, "out")
  /\ UNCHANGED <<jobVars, eventVars, woken, next, flight, clientVars>>

\* The connection is lost with the frames on it.
Drop(s) ==
  /\ pc[s] \in Connected
  /\ drops[s] < MaxDrops
  /\ drops' = [drops EXCEPT ![s] = @ + 1]
  /\ Goto(s, "out")
  /\ flight' = [flight EXCEPT ![s] = <<>>]
  /\ woken' = [woken EXCEPT ![s] = FALSE]
  /\ Keep(s)
  /\ UNCHANGED <<jobVars, next, received>>

GeneratorStep(s) ==
  Begin(s) \/ Resume(s) \/ Register(s) \/ Wake(s) \/ AfterHeartbeat(s)
ClientStep(s) == Connect(s) \/ Receive(s) \/ StreamEnds(s)

Next ==
  \/ EventAppended \/ JobEnds \/ Save \/ Expire \/ Restart
  \/ \E s \in Subscribers :
       GeneratorStep(s) \/ ClientStep(s) \/ Heartbeat(s) \/ Drop(s)

\* Jobs end (JobManager), the event loop runs ready generators, connections
\* carry frames, and clients read and reconnect.  Heartbeats are not needed.
Fairness ==
  /\ WF_vars(JobEnds)
  /\ \A s \in Subscribers : WF_vars(GeneratorStep(s)) /\ WF_vars(ClientStep(s))

Spec     == Init /\ [][Next]_vars
FairSpec == Spec /\ Fairness

(***************************************************************************)
(* Properties                                                              *)
(***************************************************************************)

TypeOK ==
  /\ journal \in Seq(Lines)
  /\ sequence \in 1 .. MaxEvents + 1
  /\ saved \in 1 .. MaxEvents + 1
  /\ terminal \in BOOLEAN /\ retained \in BOOLEAN /\ updated \in BOOLEAN
  /\ erased \subseteq Subscribers
  /\ restarts \in 0 .. MaxRestarts
  /\ pc \in [Subscribers -> Places]
  /\ woken \in [Subscribers -> BOOLEAN]
  /\ next \in [Subscribers -> 1 .. MaxEvents + 2]
  /\ flight \in [Subscribers -> Seq(Lines)]
  /\ received \in [Subscribers -> Seq(Lines)]
  /\ drops \in [Subscribers -> 0 .. MaxDrops]

\* Over any number of lost connections, frames lost with them, replays and
\* restarts of the server, what a client receives next is the first line of the
\* journal above the last one it received: none comes twice, and none is left
\* out unless a restart numbered it too low.
Feed == INSTANCE EventFeed WITH log <- journal, got <- received
ImplementsFeed == Feed!Spec

\* Clearing the event that all subscribers share never costs one of them the end
\* of the job: once the job is over nobody waits unreleased.  Before that, one
\* waits unreleased with a line unread, until the next line or the heartbeat,
\* only if another generator cleared the signal before it was registered.
MissedOnlyIfErased ==
  \A s \in Subscribers :
    pc[s] = "waiting" /\ ~ woken[s] =>
      ~ terminal /\ (Unread(next[s]) = {} \/ s \in erased)

SentTerminal(s) ==
  \E i \in 1 .. Len(received[s] \o flight[s]) :
    (received[s] \o flight[s])[i].terminal

\* Until the server restarts, a stream it has closed has carried the terminal
\* event, although the generator walks lines that may be out of date.
ClosedAfterTerminal ==
  restarts = 0 =>
    \A s \in Subscribers : pc[s] = "closed" => SentTerminal(s)

\* Every client that keeps reconnecting gets the terminal event, unless the
\* record expires first or the server restarts.
EverybodyServed ==
  \A s \in Subscribers :
    pc[s] = "out" ~>
      \/ pc[s] = "done"
      \/ pc[s] \in {"gone", "broken"} /\ ~ retained
      \/ restarts > 0

(***************************************************************************)
(* What docs/API.md says and the code does not keep                        *)
(***************************************************************************)

\* docs/API.md:465: after replaying the terminal event the server closes the
\* stream.
ClosesAfterTerminalEvent ==
  \A s \in Subscribers : pc[s] = "closed" => SentTerminal(s)
=============================================================================
