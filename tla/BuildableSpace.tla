--------------------------- MODULE BuildableSpace ---------------------------
(***************************************************************************)
(* POST /api/v1/buildable-space, from the middleware that reserves a flow   *)
(* (routes/buildable_space.py, artifacts/storage.py) through the pipeline   *)
(* (pipeline/buildable_space/pipeline.py) to the answer.                    *)
(*                                                                          *)
(* Requests run in threads of servers that share the output directory; the  *)
(* middleware is a coroutine, so that a server reserves for one at a time.  *)
(***************************************************************************)
EXTENDS Naturals, Sequences

CONSTANTS Requests,
          Servers,
          ServerOf,  \* the server a request is sent to
          MaxTime,   \* bound: milliseconds that pass
          MaxFaults, \* bound: system calls and computations that fail
          NoFlow

ASSUME ServerAssumption == ServerOf \in [Requests -> Servers]
ASSUME BoundAssumption  == MaxTime \in Nat /\ MaxFaults \in Nat

\* A flow identifier, and the name of its directory: time and suffix.
Flows == [at : 0..MaxTime, seq : Nat \ {0}]

ASSUME NoFlowAssumption == NoFlow \notin Flows

\* BuildableSpaceEvent, in the order of the pipeline.
Started             == 1
ReferenceDataLoaded == 2
RequestNormalized   == 3
RequestValidated    == 4
Completed           == 5
Failed              == 6
Events == 1..6

VARIABLES
  clock,
  dirs,      \* flow directories that exist
  pc,
  flow,      \* flow of each request's execution context
  reserved,  \* requests whose context comes from create_execution_context
  faults,    \* how many have failed
  struck,    \* history: the verdicts that a failure has hit, see Telling
  log,       \* events of each request in the log of its flow
  cause,     \* the exception on its way, if any
  status     \* status code of the response, 0 before

naming == <<clock, dirs, flow, reserved>>
result == <<log, cause, status>>
failures == <<faults, struck>>
vars == <<naming, pc, failures, result>>

Reserving == {"reserve", "subdirs"}
Running   == {"request", "start", "reference", "land", "normalize", "validate",
              "usable", "complete", "failing", "answer"}
Ended     == {"done", "lost"}
Places    == {"idle"} \cup Reserving \cup Running \cup Ended

Init ==
  /\ clock = 0
  /\ dirs = {}
  /\ pc = [r \in Requests |-> "idle"]
  /\ flow = [r \in Requests |-> NoFlow]
  /\ reserved = {}
  /\ faults = 0
  /\ struck = {}
  /\ log = [r \in Requests |-> << >>]
  /\ cause = [r \in Requests |-> "none"]
  /\ status = [r \in Requests |-> 0]

Go(r, place) == pc' = [pc EXCEPT ![r] = place]

At(r, from, to) == pc[r] = from /\ Go(r, to)

\* The places where a failure has a say in which verdicts there are.
Telling == {"start", "complete", "failing", "answer"}

Fault(r) ==
  /\ faults < MaxFaults
  /\ faults' = faults + 1
  /\ struck' = struck \cup {<<r, p>> : p \in {pc[r]} \cap Telling}

Named(r, seq) == flow' = [flow EXCEPT ![r] = [at |-> clock, seq |-> seq]]

(***************************************************************************)
(* The middleware                                                          *)
(***************************************************************************)

\* Mutant: a request without a reserved directory gets no context.
FallbackNone(r) ==
  /\ Fault(r)
  /\ Go(r, "request")
  /\ UNCHANGED <<flow, reserved>>

\* ExecutionContext.create_root, when no directory can be reserved.
Fallback(r) ==
  /\ Fault(r)
  /\ Go(r, "request")
  /\ Named(r, 1)
  /\ UNCHANGED reserved

Arrive(r) ==
  /\ pc[r] = "idle"
  /\ \A q \in Requests : ServerOf[q] = ServerOf[r] => pc[q] \notin Reserving
  /\ \/ Go(r, "reserve") /\ Named(r, 1) /\ UNCHANGED <<failures, reserved>>
     \/ Fallback(r)  \* ArtifactStorage() raises
  /\ UNCHANGED <<clock, dirs, result>>

\* Mutant: the directory may exist already (exist_ok).
ReserveExistOk(r) ==
  /\ At(r, "reserve", "subdirs")
  /\ dirs' = dirs \cup {flow[r]}
  /\ UNCHANGED <<clock, failures, flow, reserved, result>>

\* Mutant: the same name is tried again.
ReserveSameName(r) ==
  /\ IF flow[r] \in dirs THEN At(r, "reserve", "reserve") ELSE At(r, "reserve", "subdirs")
  /\ dirs' = dirs \cup {flow[r]}
  /\ UNCHANGED <<clock, failures, flow, reserved, result>>

\* One mkdir: it makes the directory, meets an existing one, or fails.
Reserve(r) ==
  /\ pc[r] = "reserve"
  /\ \/ /\ flow[r] \notin dirs
        /\ Go(r, "subdirs")
        /\ dirs' = dirs \cup {flow[r]}
        /\ UNCHANGED <<failures, flow, reserved>>
     \/ /\ flow[r] \in dirs
        /\ flow' = [flow EXCEPT ![r].seq = @ + 1]
        /\ UNCHANGED <<pc, failures, dirs, reserved>>
     \/ Fallback(r) /\ UNCHANGED dirs
  /\ UNCHANGED <<clock, result>>

\* The directories json and png; when one fails the flow's own stays.
Subdirs(r) ==
  /\ pc[r] = "subdirs"
  /\ \/ Go(r, "request") /\ reserved' = reserved \cup {r} /\ UNCHANGED <<failures, flow>>
     \/ Fallback(r)
  /\ UNCHANGED <<clock, dirs, result>>

(***************************************************************************)
(* The handler and the pipeline                                            *)
(***************************************************************************)

Raise(r, handler, what) == Go(r, handler) /\ cause' = [cause EXCEPT ![r] = what]

\* The body is refused, the configuration cannot be had, or the pipeline runs.
Handle(r) ==
  /\ pc[r] = "request"
  /\ \/ Go(r, "start") /\ UNCHANGED <<failures, cause>>
     \/ Raise(r, "answer", "rejected") /\ UNCHANGED failures
     \/ Raise(r, "answer", "broken") /\ Fault(r)
  /\ UNCHANGED <<naming, log, status>>

Write(r, event) ==
  /\ log' = [log EXCEPT ![r] = Append(@, event)]
  /\ dirs' = dirs \cup {flow[r]}

\* BaseLogger.log.  The line may be missing - the level is too low, or an error
\* was swallowed - and the logger's construction and its last resort, the line
\* on stderr, may raise.  Writing makes the flow's directory.
Emit(r, here, event, next, handler) ==
  /\ pc[r] = here
  /\ \/ Write(r, event) /\ Go(r, next) /\ UNCHANGED <<failures, cause>>
     \/ /\ Fault(r)
        /\ Write(r, event) \/ (UNCHANGED log /\ dirs' \in {dirs, dirs \cup {flow[r]}})
        /\ (Go(r, next) /\ UNCHANGED cause) \/ Raise(r, handler, "broken")
  /\ UNCHANGED <<clock, flow, reserved, status>>

\* calculate_buildable_land and find_usable_land (fpg_core): an error of theirs
\* is the client's or the reference data's, and anything else is unexpected.
Compute(r, here, next) ==
  /\ pc[r] = here
  /\ \/ Go(r, next) /\ UNCHANGED <<failures, cause>>
     \/ Raise(r, "failing", "rejected") /\ UNCHANGED failures
     \/ Raise(r, "failing", "broken") /\ Fault(r)
  /\ UNCHANGED <<naming, log, status>>

\* The first event is logged outside the try.
Start(r)     == Emit(r, "start", Started, "reference", "answer")
Reference(r) == Emit(r, "reference", ReferenceDataLoaded, "land", "failing")
BuildableLand(r) == Compute(r, "land", "normalize")
Normalize(r) == Emit(r, "normalize", RequestNormalized, "validate", "failing")

\* Mutant: completion is logged before the usable land is looked for.
ValidateCompletes(r) == Emit(r, "validate", Completed, "usable", "failing")

Validate(r)  == Emit(r, "validate", RequestValidated, "usable", "failing")
UsableLand(r) == Compute(r, "usable", "complete")
Complete(r)  == Emit(r, "complete", Completed, "answer", "failing")
Fail(r)      == Emit(r, "failing", Failed, "answer", "answer")

StatusOf == [none |-> 200, rejected |-> 422, broken |-> 500]

\* Building the response of a result may raise: the middleware answers then.
Answer(r) ==
  /\ At(r, "answer", "done")
  /\ \/ status' = [status EXCEPT ![r] = StatusOf[cause[r]]] /\ UNCHANGED failures
     \/ cause[r] = "none" /\ status' = [status EXCEPT ![r] = 500] /\ Fault(r)
  /\ UNCHANGED <<naming, log, cause>>

(***************************************************************************)
(* The environment                                                         *)
(***************************************************************************)

Tick ==
  /\ clock < MaxTime
  /\ clock' = clock + 1
  /\ UNCHANGED <<dirs, pc, flow, reserved, failures, result>>

\* A server dies; directories and logs stay.
Crash(s) ==
  /\ \E r \in Requests : ServerOf[r] = s /\ pc[r] \in Reserving \cup Running
  /\ pc' = [r \in Requests |->
              IF ServerOf[r] = s /\ pc[r] \in Reserving \cup Running
                THEN "lost" ELSE pc[r]]
  /\ UNCHANGED <<naming, failures, result>>

Pipeline(r) ==
  \/ Start(r) \/ Reference(r) \/ BuildableLand(r) \/ Normalize(r) \/ Validate(r)
  \/ UsableLand(r) \/ Complete(r) \/ Fail(r)

Step(r) == Reserve(r) \/ Subdirs(r) \/ Handle(r) \/ Pipeline(r) \/ Answer(r)

Next ==
  \/ \E r \in Requests : Arrive(r) \/ Step(r)
  \/ \E s \in Servers : Crash(s)
  \/ Tick

\* The event loop and the thread pool run what is ready.
Fairness == \A r \in Requests : WF_vars(Step(r))

Spec     == Init /\ [][Next]_vars
FairSpec == Spec /\ Fairness

(***************************************************************************)
(* Properties                                                              *)
(***************************************************************************)

\* The types; a request past the middleware has a flow.
TypeOK ==
  /\ clock \in 0..MaxTime
  /\ dirs \subseteq Flows
  /\ pc \in [Requests -> Places]
  /\ flow \in [Requests -> Flows \cup {NoFlow}]
  /\ \A r \in Requests : pc[r] # "idle" => flow[r] \in Flows
  /\ reserved \subseteq Requests
  /\ faults \in 0..MaxFaults
  /\ struck \subseteq Requests \X Telling
  /\ log \in [Requests -> Seq(Events)]
  /\ cause \in [Requests -> {"none", "rejected", "broken"}]
  /\ status \in [Requests -> {0, 200, 422, 500}]

\* No two requests reserve one flow, though they come in the same millisecond,
\* at different servers, between two tries of each other or after a crash left
\* its directory; and the reserved directory exists.
FlowsDistinct ==
  \A q, r \in reserved : flow[r] \in dirs /\ (q # r => flow[q] # flow[r])

Logged(r, event)  == \E i \in 1..Len(log[r]) : log[r][i] = event
Struck(r, places) == \E p \in places : <<r, p>> \in struck

\* What the log of a request and its answer say of each other, whichever log
\* calls fail or raise.  Events come once and in order.  A result that was
\* answered is never logged as failed, nor a rejected land as completed.  Two
\* verdicts in one log, or a completion beside a 500, take a failure of that very
\* log call or of building the response; and when neither these nor the first
\* and the last log call failed, the verdict of the answer is in the log.
VerdictsAgree ==
  \A r \in Requests :
    /\ \A i, j \in 1..Len(log[r]) : i < j => log[r][i] < log[r][j]
    /\ Logged(r, Failed) => status[r] # 200
    /\ Logged(r, Completed) => status[r] # 422
    /\ Logged(r, Completed) /\ Logged(r, Failed) => Struck(r, {"complete"})
    /\ Logged(r, Completed) /\ status[r] = 500 => Struck(r, {"complete", "answer"})
    /\ log[r] # << >> /\ status[r] # 0
         /\ ~ Struck(r, Telling)
       => Logged(r, IF status[r] = 200 THEN Completed ELSE Failed)

\* Every request whose server lives is answered: the search for a free name
\* ends, and no failing log call is without its handler.
EveryRequestAnswered ==
  \A r \in Requests : pc[r] # "idle" ~> pc[r] = "lost" \/ status[r] # 0
=============================================================================
