------------------------ MODULE BuildableSpaceProofs ------------------------
(***************************************************************************)
(* Proofs for BuildableSpace: flows are reserved once, and the log agrees   *)
(* with the answer, for any number of requests, servers and faults.         *)
(***************************************************************************)
EXTENDS BuildableSpace, TLAPS

USE ServerAssumption, BoundAssumption, NoFlowAssumption

Codes == {0, 200, 422, 500}

\* TypeOK in two parts: the names of flows, and what became of the requests.
NamesTyped ==
  /\ clock \in 0..MaxTime
  /\ dirs \subseteq Flows
  /\ flow \in [Requests -> Flows \cup {NoFlow}]
  /\ \A r \in Requests : pc[r] # "idle" => flow[r] \in Flows
  /\ reserved \subseteq Requests

RequestsTyped ==
  /\ pc \in [Requests -> Places]
  /\ faults \in 0..MaxFaults
  /\ struck \subseteq Requests \X Telling
  /\ log \in [Requests -> Seq(Events)]
  /\ cause \in [Requests -> {"none", "rejected", "broken"}]
  /\ status \in [Requests -> Codes]

FailuresTyped == faults \in 0..MaxFaults /\ struck \subseteq Requests \X Telling

\* A step that fails, or does not, leaves the failures of before on record.
LEMMA FaultTyped ==
  ASSUME RequestsTyped, NEW r \in Requests, Fault(r) \/ UNCHANGED failures
  PROVE  FailuresTyped' /\ struck \subseteq struck'
<1>1. FailuresTyped
  BY DEF RequestsTyped, FailuresTyped
<1>2. CASE UNCHANGED failures
  BY <1>1, <1>2 DEF failures, FailuresTyped
<1>3. CASE Fault(r)
  <2>1. faults' \in 0..MaxFaults
    BY <1>1, <1>3 DEF Fault, FailuresTyped
  <2>2. {<<r, p>> : p \in {pc[r]} \cap Telling} \subseteq Requests \X Telling
    OBVIOUS
  <2> QED
    BY <1>1, <1>3, <2>1, <2>2 DEF Fault, FailuresTyped
<1> QED
  BY <1>2, <1>3

LEMMA EmitTyped ==
  ASSUME NamesTyped, RequestsTyped, NEW r \in Requests, NEW here, here # "idle",
         NEW event \in Events, NEW next \in Places, NEW handler \in Places,
         Emit(r, here, event, next, handler)
  PROVE  NamesTyped' /\ RequestsTyped'
<1>1. flow[r] \in Flows
  BY DEF Emit, NamesTyped
<1>2. NamesTyped'
  <2>1. UNCHANGED <<clock, flow, reserved>>
    BY DEF Emit
  <2>2. dirs' \subseteq dirs \cup {flow[r]}
    BY DEF Emit, Write
  <2>3. \A q \in Requests : pc'[q] # "idle" => pc[q] # "idle"
    BY DEF Emit, Go, Raise, RequestsTyped
  <2> QED
    BY <1>1, <2>1, <2>2, <2>3 DEF NamesTyped
<1>3. RequestsTyped'
  <2>1. pc' \in [Requests -> Places]
    BY DEF Emit, Go, Raise, RequestsTyped
  <2>2. FailuresTyped'
    BY FaultTyped DEF Emit
  <2>3. log' \in [Requests -> Seq(Events)]
    <3>1. Append(log[r], event) \in Seq(Events)
      BY DEF RequestsTyped
    <3> QED
      BY <3>1 DEF Emit, Write, RequestsTyped
  <2>4. cause' \in [Requests -> {"none", "rejected", "broken"}]
    BY DEF Emit, Raise, RequestsTyped
  <2>5. status' = status
    BY DEF Emit
  <2> QED
    BY <2>1, <2>2, <2>3, <2>4, <2>5 DEF RequestsTyped, FailuresTyped
<1> QED
  BY <1>2, <1>3

LEMMA NamedTyped == NamesTyped => [at |-> clock, seq |-> 1] \in Flows
BY DEF NamesTyped, Flows

LEMMA TypingInductive == TypeOK /\ [Next]_vars => TypeOK'
<1> SUFFICES ASSUME NamesTyped, RequestsTyped, [Next]_vars
             PROVE  NamesTyped' /\ RequestsTyped'
  BY DEF TypeOK, NamesTyped, RequestsTyped, Codes
<1> USE DEF Places, Reserving, Running, Ended
<1>1. ASSUME NEW r \in Requests, Arrive(r) \/ Subdirs(r)
      PROVE  NamesTyped' /\ RequestsTyped'
  <2>1. NamesTyped'
    <3>1. UNCHANGED <<clock, dirs>> /\ reserved' \subseteq reserved \cup {r}
      BY <1>1 DEF Arrive, Subdirs, Fallback
    <3>2. \/ flow' = [flow EXCEPT ![r] = [at |-> clock, seq |-> 1]]
          \/ flow' = flow /\ pc[r] # "idle"
      BY <1>1 DEF Arrive, Subdirs, Fallback, Named
    <3>3. \A q \in Requests : q # r => pc'[q] = pc[q]
      BY <1>1 DEF Arrive, Subdirs, Fallback, Go, RequestsTyped
    <3> QED
      BY <3>1, <3>2, <3>3, NamedTyped DEF NamesTyped
  <2>2. pc' \in [Requests -> Places] /\ UNCHANGED result
    BY <1>1 DEF Arrive, Subdirs, Fallback, Go, RequestsTyped
  <2>3. FailuresTyped'
    BY <1>1, FaultTyped DEF Arrive, Subdirs, Fallback
  <2> QED
    BY <2>1, <2>2, <2>3 DEF RequestsTyped, FailuresTyped, result
<1>2. ASSUME NEW r \in Requests, Reserve(r) PROVE NamesTyped' /\ RequestsTyped'
  <2>1. flow[r] \in Flows
    BY <1>2 DEF NamesTyped, Reserve
  <2>2. [flow[r] EXCEPT !.seq = @ + 1] \in Flows
    BY <2>1 DEF Flows
  <2>3. NamesTyped'
    <3>1. UNCHANGED <<clock, reserved>> /\ dirs' \subseteq dirs \cup {flow[r]}
      BY <1>2 DEF Reserve, Fallback
    <3>2. \/ flow' = [flow EXCEPT ![r] = [at |-> clock, seq |-> 1]]
          \/ flow' = [flow EXCEPT ![r].seq = @ + 1]
          \/ flow' = flow
      BY <1>2 DEF Reserve, Fallback, Named
    <3>3. \A q \in Requests : q # r => pc'[q] = pc[q]
      BY <1>2 DEF Reserve, Fallback, Go, RequestsTyped
    <3> QED
      BY <2>1, <2>2, <3>1, <3>2, <3>3, NamedTyped DEF NamesTyped
  <2>4. pc' \in [Requests -> Places] /\ UNCHANGED result
    BY <1>2 DEF Reserve, Fallback, Go, RequestsTyped
  <2>5. FailuresTyped'
    BY <1>2, FaultTyped DEF Reserve, Fallback
  <2> QED
    BY <2>3, <2>4, <2>5 DEF RequestsTyped, FailuresTyped, result
<1>3. ASSUME NEW r \in Requests,
             Handle(r) \/ BuildableLand(r) \/ UsableLand(r) \/ Answer(r)
      PROVE  NamesTyped' /\ RequestsTyped'
  <2> USE DEF Handle, BuildableLand, UsableLand, Compute, Answer, Raise, At, Go
  <2>1. UNCHANGED naming /\ UNCHANGED log /\ pc[r] # "idle"
    BY <1>3
  <2>2. pc' \in [Requests -> Places]
    <3>1. \E p \in {"start", "answer", "normalize", "complete", "failing", "done"} :
            pc' = [pc EXCEPT ![r] = p]
      BY <1>3
    <3> QED
      BY <3>1 DEF RequestsTyped
  <2>3. NamesTyped'
    <3>1. \A q \in Requests : pc'[q] # "idle" => pc[q] # "idle"
      BY <1>3, <2>1 DEF RequestsTyped
    <3> QED
      BY <2>1, <3>1 DEF NamesTyped, naming
  <2>4. FailuresTyped'
    BY <1>3, FaultTyped
  <2>5. cause' \in [Requests -> {"none", "rejected", "broken"}]
    BY <1>3 DEF RequestsTyped
  <2>6. status' \in [Requests -> Codes]
    <3>1. StatusOf[cause[r]] \in Codes
      BY DEF RequestsTyped, StatusOf, Codes
    <3>2. CASE Answer(r)
      <4>1. \E code \in Codes : status' = [status EXCEPT ![r] = code]
        BY <3>1, <3>2 DEF Codes
      <4> QED
        BY <4>1 DEF RequestsTyped
    <3>3. CASE Handle(r) \/ BuildableLand(r) \/ UsableLand(r)
      BY <3>3 DEF RequestsTyped
    <3> QED
      BY <1>3, <3>2, <3>3
  <2> QED
    BY <2>1, <2>2, <2>3, <2>4, <2>5, <2>6 DEF RequestsTyped, FailuresTyped
<1>4. ASSUME NEW r \in Requests,
             Start(r) \/ Reference(r) \/ Normalize(r) \/ Validate(r) \/ Complete(r) \/ Fail(r)
      PROVE  NamesTyped' /\ RequestsTyped'
  BY <1>4, EmitTyped DEF Start, Reference, Normalize, Validate, Complete, Fail, Events,
     Started, ReferenceDataLoaded, RequestNormalized, RequestValidated, Completed, Failed
<1>5. ASSUME NEW s \in Servers, Crash(s) PROVE NamesTyped' /\ RequestsTyped'
  BY <1>5 DEF Crash, NamesTyped, RequestsTyped, naming, failures, result
<1>6. ASSUME Tick PROVE NamesTyped' /\ RequestsTyped'
  BY <1>6 DEF Tick, NamesTyped, RequestsTyped, failures, result
<1>7. ASSUME UNCHANGED vars PROVE NamesTyped' /\ RequestsTyped'
  BY <1>7 DEF vars, naming, failures, result, NamesTyped, RequestsTyped
<1> QED
  BY <1>1, <1>2, <1>3, <1>4, <1>5, <1>6, <1>7 DEF Next, Step, Pipeline

\* Every variable keeps its type, and a request past the middleware has a flow.
THEOREM Typing == Spec => []TypeOK
<1>1. Init => TypeOK
  BY DEF Init, TypeOK, Places, Flows
<1> QED
  BY <1>1, TypingInductive, PTL DEF Spec

(***************************************************************************)
(* Flows                                                                   *)
(***************************************************************************)

\* The requests whose mkdir made the directory of the flow they now have.
Owners == reserved \cup {r \in Requests : pc[r] = "subdirs"}

NamesHeld ==
  /\ \A r \in reserved : pc[r] \notin {"idle"} \cup Reserving
  /\ \A r \in Owners : flow[r] \in dirs
  /\ \A q, r \in Owners : q # r => flow[q] # flow[r]

\* Steps that make no flow directory of a new owner.
NoNewOwner ==
  /\ dirs \subseteq dirs'
  /\ Owners' \subseteq Owners
  /\ \A r \in Owners' : flow'[r] = flow[r]
  /\ \A r \in reserved' : pc'[r] \notin {"idle"} \cup Reserving

LEMMA NoNewOwnerHolds == NamesHeld /\ NoNewOwner => NamesHeld'
BY DEF NamesHeld, NoNewOwner

LEMMA NamesInductive == TypeOK /\ NamesHeld /\ [Next]_vars => NamesHeld'
<1> SUFFICES ASSUME TypeOK, NamesHeld, [Next]_vars PROVE NamesHeld'
  OBVIOUS
<1> USE DEF Reserving
<1>1. ASSUME NEW r \in Requests, Arrive(r) PROVE NoNewOwner
  BY <1>1 DEF Arrive, Fallback, Named, Go, TypeOK, NamesHeld, NoNewOwner, Owners
<1>2. ASSUME NEW r \in Requests, Reserve(r) PROVE NamesHeld'
  <2>1. CASE flow[r] \notin dirs /\ Go(r, "subdirs") /\ dirs' = dirs \cup {flow[r]}
             /\ UNCHANGED <<flow, reserved>>
    <3>1. Owners' = Owners \cup {r}
      BY <2>1 DEF Go, TypeOK, Owners
    <3>2. \A q \in Owners : flow[q] # flow[r]
      BY <2>1 DEF NamesHeld
    <3>3. \A q \in reserved' : pc'[q] \notin {"idle"} \cup Reserving
      BY <1>2, <2>1 DEF Go, TypeOK, NamesHeld, Reserve
    <3> QED
      BY <2>1, <3>1, <3>2, <3>3 DEF NamesHeld
  <2>2. ASSUME UNCHANGED <<dirs, reserved>>,
               \/ flow' = [flow EXCEPT ![r].seq = @ + 1] /\ UNCHANGED pc
               \/ Fallback(r)
        PROVE  NoNewOwner
    <3>1. r \notin Owners /\ r \notin reserved
      BY <1>2 DEF Reserve, NamesHeld, Owners
    <3> QED
      BY <2>2, <3>1 DEF Fallback, Named, Go, TypeOK, NamesHeld, NoNewOwner, Owners
  <2> QED
    BY <1>2, <2>1, <2>2, NoNewOwnerHolds DEF Reserve, Fallback
<1>3. ASSUME NEW r \in Requests, Subdirs(r) PROVE NoNewOwner
  <2>1. r \notin reserved
    BY <1>3 DEF Subdirs, NamesHeld
  <2> QED
    BY <1>3, <2>1 DEF Subdirs, Fallback, Named, Go, TypeOK, NamesHeld, NoNewOwner, Owners
<1>4. ASSUME NEW r \in Requests,
             Handle(r) \/ BuildableLand(r) \/ UsableLand(r) \/ Answer(r)
      PROVE  NoNewOwner
  BY <1>4 DEF Handle, BuildableLand, UsableLand, Compute, Answer, Raise, At, Go, TypeOK, naming,
     NamesHeld, NoNewOwner, Owners
<1>5. ASSUME NEW r \in Requests,
             Start(r) \/ Reference(r) \/ Normalize(r) \/ Validate(r) \/ Complete(r) \/ Fail(r)
      PROVE  NoNewOwner
  <2>1. ASSUME NEW here, NEW event, NEW next, NEW handler,
               next \notin {"idle"} \cup Reserving, handler \notin {"idle"} \cup Reserving,
               Emit(r, here, event, next, handler)
        PROVE  NoNewOwner
    <3>1. dirs \subseteq dirs' /\ UNCHANGED <<flow, reserved>>
      BY <2>1 DEF Emit, Write
    <3>2. pc' = [pc EXCEPT ![r] = next] \/ pc' = [pc EXCEPT ![r] = handler]
      BY <2>1 DEF Emit, Go, Raise
    <3> QED
      BY <2>1, <3>1, <3>2 DEF TypeOK, NamesHeld, NoNewOwner, Owners
  <2> QED
    BY <1>5, <2>1 DEF Start, Reference, Normalize, Validate, Complete, Fail
<1>6. ASSUME NEW s \in Servers, Crash(s) PROVE NoNewOwner
  BY <1>6 DEF Crash, TypeOK, naming, NamesHeld, NoNewOwner, Owners
<1>7. ASSUME Tick \/ UNCHANGED vars PROVE NoNewOwner
  BY <1>7 DEF Tick, vars, naming, result, NamesHeld, NoNewOwner, Owners
<1> QED
  BY <1>1, <1>2, <1>3, <1>4, <1>5, <1>6, <1>7, NoNewOwnerHolds DEF Next, Step, Pipeline

\* No flow is reserved twice, whatever the requests, servers and times.
THEOREM FlowsReservedOnce == Spec => []FlowsDistinct
<1>1. Init => NamesHeld
  BY DEF Init, NamesHeld, Owners
<1>2. NamesHeld => FlowsDistinct
  BY DEF NamesHeld, Owners, FlowsDistinct
<1> QED
  BY <1>1, <1>2, NamesInductive, Typing, PTL DEF Spec

(***************************************************************************)
(* The log and the answer                                                  *)
(***************************************************************************)

\* The last event that may be in the log of a request that is at a place.
Reach(p) ==
  CASE p \in {"idle", "reserve", "subdirs", "request", "start"} -> 0
    [] p = "reference"             -> Started
    [] p \in {"land", "normalize"} -> ReferenceDataLoaded
    [] p = "validate"              -> RequestNormalized
    [] p \in {"usable", "complete"} -> RequestValidated
    [] p = "failing"               -> Completed
    [] OTHER                       -> Failed

Rising(s)        == \A i, j \in 1..Len(s) : i < j => s[i] < s[j]
UpTo(s, event)   == \A i \in 1..Len(s) : s[i] <= event
Without(s, event) == \A i \in 1..Len(s) : s[i] # event

Settling == {"failing", "answer", "done", "lost"}

LogFits ==
  \A r \in Requests :
    /\ Rising(log[r])
    /\ UpTo(log[r], Reach(pc[r]))
    /\ cause[r] = "rejected" => Without(log[r], Completed)
    /\ cause[r] = "none" => Without(log[r], Failed) /\ pc[r] # "failing"
    /\ pc[r] \notin Settling => cause[r] = "none"
    /\ status[r] # 0 => pc[r] = "done"
    /\ status[r] = 200 => cause[r] = "none"
    /\ status[r] = 422 => cause[r] = "rejected"

LEMMA ReachNumber == ASSUME NEW p PROVE Reach(p) \in Events \cup {0}
BY DEF Reach, Events, Started, ReferenceDataLoaded, RequestNormalized, RequestValidated,
   Completed, Failed

\* Appending a later event keeps a log rising.
LEMMA AppendRises ==
  ASSUME NEW s \in Seq(Events), NEW event \in Events, Rising(s),
         \A i \in 1..Len(s) : s[i] < event
  PROVE  Rising(Append(s, event)) /\ UpTo(Append(s, event), event)
<1>1. Len(Append(s, event)) = Len(s) + 1 /\ Append(s, event)[Len(s) + 1] = event
  OBVIOUS
<1>2. \A i \in 1..Len(s) : Append(s, event)[i] = s[i] /\ s[i] \in Events
  OBVIOUS
<1>3. Len(s) \in Nat
  OBVIOUS
<1>4. \A i \in 1..Len(Append(s, event)) :
        \/ i \in 1..Len(s) /\ Append(s, event)[i] = s[i]
        \/ i = Len(s) + 1 /\ Append(s, event)[i] = event
  BY <1>1, <1>2, <1>3
<1>5. \A i \in 1..Len(s) : s[i] \in Nat /\ s[i] < event /\ event \in Nat
  BY <1>2 DEF Events
<1>6. UpTo(Append(s, event), event)
  BY <1>4, <1>5 DEF UpTo, Events
<1>7. ASSUME NEW i \in 1..Len(Append(s, event)), NEW j \in 1..Len(Append(s, event)), i < j
      PROVE  Append(s, event)[i] < Append(s, event)[j]
  <2>1. i \in 1..Len(s) /\ Append(s, event)[i] = s[i]
    BY <1>1, <1>3, <1>4, <1>7
  <2> QED
    BY <1>3, <1>4, <1>5, <1>7, <2>1 DEF Rising
<1> QED
  BY <1>6, <1>7 DEF Rising

LEMMA AppendWithout ==
  ASSUME NEW s \in Seq(Events), NEW event \in Events, NEW other, event # other,
         Without(s, other)
  PROVE  Without(Append(s, event), other)
BY DEF Without

\* What one log call leaves behind, given where its request goes.
LEMMA EmitFits ==
  ASSUME RequestsTyped, LogFits, NEW r \in Requests, NEW here, NEW event \in Events,
         NEW next, NEW handler, Emit(r, here, event, next, handler),
         Reach(here) < event, event <= Reach(next), event <= Reach(handler),
         handler \in {"failing", "answer"}, next # "failing",
         next \in Settling \/ here \notin Settling,
         event = Failed => cause[r] # "none",
         event = Completed => cause[r] = "none"
  PROVE  LogFits'
<1>1. pc[r] = here /\ UNCHANGED status
  BY DEF Emit
<1>2. \/ pc' = [pc EXCEPT ![r] = next] /\ UNCHANGED cause
      \/ /\ pc' = [pc EXCEPT ![r] = handler]
         /\ cause' = [cause EXCEPT ![r] = "broken"]
  BY DEF Emit, Go, Raise
<1>3. \/ log' = log
      \/ log' = [log EXCEPT ![r] = Append(@, event)]
  BY DEF Emit, Write
<1>4. log[r] \in Seq(Events) /\ \A i \in 1..Len(log[r]) : log[r][i] \in Events
  BY DEF RequestsTyped
<1>5. /\ Rising(log[r])
      /\ \A i \in 1..Len(log[r]) : log[r][i] < event
  <2>1. Rising(log[r]) /\ UpTo(log[r], Reach(here))
    BY <1>1 DEF LogFits
  <2>2. Reach(here) \in Nat
    BY ReachNumber DEF Events
  <2>3. event \in Nat /\ \A i \in 1..Len(log[r]) : log[r][i] \in Nat
    BY SMTT(20), <1>4 DEF Events
  <2> QED
    BY <2>1, <2>2, <2>3 DEF UpTo
<1>6. log'[r] = log[r] \/ log'[r] = Append(log[r], event)
  BY <1>3 DEF RequestsTyped
<1>7. Rising(log'[r]) /\ UpTo(log'[r], event)
  <2>1. UpTo(log[r], event)
    BY <1>4, <1>5 DEF UpTo, Events
  <2> QED
    BY <1>4, <1>5, <1>6, <2>1, AppendRises
<1>8. UpTo(log'[r], Reach(pc'[r]))
  <2>1. event <= Reach(pc'[r])
    BY <1>2 DEF RequestsTyped
  <2>2. Reach(pc'[r]) \in Nat
    BY ReachNumber DEF Events
  <2>3. log'[r] \in Seq(Events)
    <3>1. Append(log[r], event) \in Seq(Events)
      BY <1>4
    <3> QED
      BY <1>4, <1>6, <3>1, Zenon
  <2>4. event \in Nat /\ \A i \in 1..Len(log'[r]) : log'[r][i] \in Nat
    <3>1. \A i \in 1..Len(log'[r]) : log'[r][i] \in Events
      BY <2>3
    <3> QED
      BY <3>1 DEF Events
  <2> QED
    BY <1>7, <2>1, <2>2, <2>4 DEF UpTo
<1>9. cause'[r] = "rejected" => Without(log'[r], Completed)
  <2>1. CASE cause'[r] = "rejected"
    <3>1. cause[r] = "rejected"
      BY <1>2, <2>1 DEF RequestsTyped
    <3>2. Without(log[r], Completed) /\ event # Completed
      BY <3>1 DEF LogFits
    <3> QED
      BY <1>4, <1>6, <3>2, AppendWithout
  <2> QED
    BY <2>1
<1>10. cause'[r] = "none" => Without(log'[r], Failed) /\ pc'[r] # "failing"
  <2>1. CASE cause'[r] = "none"
    <3>1. cause[r] = "none" /\ pc'[r] = next
      BY <1>2, <2>1 DEF RequestsTyped
    <3>2. Without(log[r], Failed) /\ event # Failed
      BY <3>1 DEF LogFits
    <3> QED
      BY <1>4, <1>6, <3>1, <3>2, AppendWithout
  <2> QED
    BY <2>1
<1>11. status[r] # 0 => pc[r] = "done"
  BY DEF LogFits
<1>12. ASSUME NEW q \in Requests, q # r
       PROVE  log'[q] = log[q] /\ pc'[q] = pc[q] /\ cause'[q] = cause[q]
  BY <1>2, <1>3, <1>12 DEF RequestsTyped
<1>13. pc'[r] \notin Settling => cause'[r] = "none"
  BY <1>1, <1>2 DEF RequestsTyped, LogFits, Settling
<1>14. status[r] = 0
  BY <1>1, <1>11 DEF Reach, Events, RequestsTyped, Failed
<1> QED
  BY <1>1, <1>7, <1>8, <1>9, <1>10, <1>12, <1>13, <1>14 DEF LogFits

LEMMA LogInductive == TypeOK /\ LogFits /\ [Next]_vars => LogFits'
<1> SUFFICES ASSUME NamesTyped, RequestsTyped, LogFits, [Next]_vars PROVE LogFits'
  BY DEF TypeOK, NamesTyped, RequestsTyped, Codes
<1> USE DEF Settling
<1>1. ASSUME NEW r \in Requests, Arrive(r) \/ Reserve(r) \/ Subdirs(r) PROVE LogFits'
  <2>1. UNCHANGED <<log, cause, status>>
    BY <1>1 DEF Arrive, Reserve, Subdirs, result
  <2>2. pc[r] \in {"idle", "reserve", "subdirs"}
    BY <1>1 DEF Arrive, Reserve, Subdirs
  <2>3. \E p \in {"reserve", "subdirs", "request"} : pc' = [pc EXCEPT ![r] = p]
    BY <1>1, <2>2 DEF Arrive, Reserve, Subdirs, Fallback, Go, RequestsTyped
  <2>4. Reach(pc'[r]) = Reach(pc[r])
    BY <2>2, <2>3 DEF RequestsTyped, Reach
  <2> QED
    BY <2>1, <2>2, <2>3, <2>4 DEF LogFits, RequestsTyped
<1>2. ASSUME NEW r \in Requests, Handle(r) \/ BuildableLand(r) \/ UsableLand(r)
      PROVE  LogFits'
  <2> USE DEF Handle, BuildableLand, UsableLand, Compute, Raise, Go
  <2>1. /\ UNCHANGED <<log, status>>
        /\ pc[r] \in {"request", "land", "usable"}
    BY <1>2
  <2>2. \/ /\ pc' = [pc EXCEPT ![r] = "start"] /\ pc[r] = "request" /\ cause' = cause
        \/ /\ pc' = [pc EXCEPT ![r] = "normalize"] /\ pc[r] = "land" /\ cause' = cause
        \/ /\ pc' = [pc EXCEPT ![r] = "complete"] /\ pc[r] = "usable" /\ cause' = cause
        \/ /\ \/ pc' = [pc EXCEPT ![r] = "answer"]
              \/ pc' = [pc EXCEPT ![r] = "failing"]
           /\ \/ cause' = [cause EXCEPT ![r] = "rejected"]
              \/ cause' = [cause EXCEPT ![r] = "broken"]
    BY <1>2
  <2>3. log[r] \in Seq(Events) /\ \A i \in 1..Len(log[r]) : log[r][i] \in Nat
    <3>1. log[r] \in Seq(Events)
      BY DEF RequestsTyped
    <3>2. \A i \in 1..Len(log[r]) : log[r][i] \in Events
      BY <3>1
    <3> QED
      BY <3>1, <3>2 DEF Events
  <2>4. UpTo(log[r], 4)
    <3>1. UpTo(log[r], Reach(pc[r])) /\ Reach(pc[r]) \in {0, 2, 4}
      BY <2>1 DEF LogFits, Reach, ReferenceDataLoaded, RequestValidated
    <3> QED
      BY <2>3, <3>1 DEF UpTo
  <2>5. UpTo(log[r], Reach(pc'[r]))
    <3>1. Reach(pc'[r]) = Reach(pc[r]) \/ Reach(pc'[r]) \in {5, 6}
      BY <2>2 DEF Reach, RequestsTyped, Completed, Failed
    <3>2. UpTo(log[r], Reach(pc[r]))
      BY DEF LogFits
    <3>3. UpTo(log[r], 5) /\ UpTo(log[r], 6)
      BY <2>3, <2>4 DEF UpTo
    <3> QED
      BY <3>1, <3>2, <3>3
  <2>6. Without(log[r], Completed) /\ Without(log[r], Failed)
    BY <2>3, <2>4 DEF UpTo, Without, Completed, Failed
  <2>7. Rising(log[r]) /\ status[r] = 0 /\ cause[r] = "none"
    BY <2>1 DEF LogFits
  <2>8. \A q \in Requests : q # r => pc'[q] = pc[q] /\ cause'[q] = cause[q]
    BY <2>2 DEF RequestsTyped
  <2>9. \/ cause'[r] = "none" /\ pc'[r] # "failing"
        \/ cause'[r] # "none" /\ pc'[r] \in Settling
    <3>1. pc \in [Requests -> Places] /\ cause \in [Requests -> {"none", "rejected", "broken"}]
      BY DEF RequestsTyped
    <3> QED
      BY <2>2, <2>7, <3>1
  <2> QED
    BY <2>1, <2>5, <2>6, <2>7, <2>8, <2>9 DEF LogFits
<1>3. ASSUME NEW r \in Requests,
             Start(r) \/ Reference(r) \/ Normalize(r) \/ Validate(r) \/ Complete(r) \/ Fail(r)
      PROVE  LogFits'
  <2> USE DEF Started, ReferenceDataLoaded, RequestNormalized, RequestValidated, Completed,
              Failed
  <2>1. /\ Reach("start") = 0 /\ Reach("reference") = 1 /\ Reach("land") = 2
        /\ Reach("normalize") = 2 /\ Reach("validate") = 3 /\ Reach("usable") = 4
        /\ Reach("complete") = 4 /\ Reach("failing") = 5 /\ Reach("answer") = 6
    BY DEF Reach
  <2>2. CASE Start(r)
    BY <2>1, <2>2, EmitFits DEF Start, Events
  <2>3. CASE Reference(r)
    BY <2>1, <2>3, EmitFits DEF Reference, Events
  <2>4. CASE Normalize(r)
    BY <2>1, <2>4, EmitFits DEF Normalize, Events
  <2>5. CASE Validate(r)
    BY <2>1, <2>5, EmitFits DEF Validate, Events
  <2>6. CASE Complete(r)
    <3>1. cause[r] = "none"
      BY <2>6 DEF Complete, Emit, LogFits
    <3> QED
      BY <2>1, <2>6, <3>1, EmitFits DEF Complete, Events
  <2>7. CASE Fail(r)
    <3>1. cause[r] # "none"
      BY <2>7 DEF Fail, Emit, LogFits
    <3> QED
      BY <2>1, <2>7, <3>1, EmitFits DEF Fail, Events
  <2> QED
    BY <1>3, <2>2, <2>3, <2>4, <2>5, <2>6, <2>7
<1>4. ASSUME NEW r \in Requests, Answer(r) PROVE LogFits'
  <2>1. UNCHANGED <<log, cause>> /\ pc[r] = "answer" /\ pc' = [pc EXCEPT ![r] = "done"]
    BY <1>4 DEF Answer, At, Go
  <2>2. \/ status' = [status EXCEPT ![r] = StatusOf[cause[r]]]
        \/ status' = [status EXCEPT ![r] = 500]
    BY <1>4 DEF Answer
  <2>3. /\ status'[r] = 200 => cause[r] = "none"
        /\ status'[r] = 422 => cause[r] = "rejected"
    BY <2>2 DEF RequestsTyped, StatusOf
  <2>4. Reach("answer") = Reach("done")
    BY DEF Reach
  <2> QED
    BY <2>1, <2>2, <2>3, <2>4 DEF LogFits, RequestsTyped
<1>5. ASSUME NEW s \in Servers, Crash(s) PROVE LogFits'
  <2>1. ASSUME NEW r \in Requests
        PROVE  \/ pc'[r] = pc[r]
               \/ pc'[r] = "lost" /\ pc[r] # "done"
    BY <1>5 DEF Crash, RequestsTyped, Reserving, Running
  <2>2. UNCHANGED <<log, cause, status>>
    BY <1>5 DEF Crash, result
  <2>3. ASSUME NEW r \in Requests, UpTo(log[r], Reach(pc[r]))
        PROVE  UpTo(log[r], Reach("lost"))
    <3>1. Reach(pc[r]) \in 0..6 /\ Reach("lost") = 6
      <4>1. Reach(pc[r]) \in Events \cup {0}
        BY ReachNumber
      <4>2. Reach("lost") = 6
        BY DEF Reach, Failed
      <4> QED
        BY <4>1, <4>2 DEF Events
    <3>2. log[r] \in Seq(Events)
      BY DEF RequestsTyped
    <3>3. \A i \in 1..Len(log[r]) : log[r][i] \in Nat
      BY <3>2 DEF Events
    <3> QED
      BY <2>3, <3>1, <3>3 DEF UpTo
  <2> QED
    BY <2>1, <2>2, <2>3 DEF LogFits
<1>6. ASSUME Tick \/ UNCHANGED vars PROVE LogFits'
  BY <1>6 DEF Tick, vars, result, LogFits
<1> QED
  BY <1>1, <1>2, <1>3, <1>4, <1>5, <1>6 DEF Next, Step, Pipeline

(***************************************************************************)
(* Which verdicts are in the log                                           *)
(***************************************************************************)

\* A completion on record was followed by an unforeseen exception only if its
\* own log call failed; and a request that has its answer, or is about to, has
\* the verdict of that answer in its log unless a failure struck it there.
Told(r) ==
  /\ cause[r] = "broken" /\ Logged(r, Completed) => Struck(r, {"complete"})
  /\ status[r] = 500 => cause[r] = "broken" \/ Struck(r, {"answer"})
  /\ pc[r] \in {"answer", "done"} /\ cause[r] = "none" =>
       Logged(r, Completed) \/ Struck(r, {"complete"})
  /\ pc[r] \in {"answer", "done"} /\ cause[r] # "none" /\ log[r] # << >> =>
       Logged(r, Failed) \/ Struck(r, {"start", "failing"})

AllTold == \A r \in Requests : Told(r)

LEMMA StruckStays ==
  ASSUME struck \subseteq struck', NEW r, NEW places, Struck(r, places)
  PROVE  Struck(r, places)'
BY DEF Struck

\* A request that a step does not concern.
LEMMA ToldStays ==
  ASSUME struck \subseteq struck', NEW q \in Requests, Told(q),
         UNCHANGED <<log[q], cause[q], status[q]>>,
         pc'[q] \in {"answer", "done"} => pc'[q] = pc[q]
  PROVE  Told(q)'
<1>1. \A event : Logged(q, event)' <=> Logged(q, event)
  BY DEF Logged
<1>2. \A places : Struck(q, places) => Struck(q, places)'
  BY DEF Struck
<1> QED
  BY <1>1, <1>2 DEF Told

LEMMA FaultStrikes ==
  ASSUME NEW r \in Requests, Fault(r), NEW p \in Telling, pc[r] = p
  PROVE  Struck(r, {p})'
BY DEF Fault, Struck

\* What one log call adds to the log.
LEMMA EmitLogs ==
  ASSUME RequestsTyped, NEW r \in Requests, NEW here, NEW event \in Events,
         NEW next, NEW handler, Emit(r, here, event, next, handler)
  PROVE  /\ \A other : Logged(r, other)' => Logged(r, other) \/ other = event
         /\ \A other : Logged(r, other) => Logged(r, other)'
         /\ Fault(r) \/ Logged(r, event)'
<1>1. log[r] \in Seq(Events)
  BY DEF RequestsTyped
<1>2. \/ log'[r] = log[r] /\ Fault(r)
      \/ log'[r] = Append(log[r], event)
  BY DEF Emit, Write, RequestsTyped
<1>3. CASE log'[r] = log[r] /\ Fault(r)
  BY <1>3 DEF Logged
<1>4. CASE log'[r] = Append(log[r], event)
  <2>1. /\ Len(log'[r]) = Len(log[r]) + 1 /\ Len(log[r]) \in Nat
        /\ log'[r][Len(log[r]) + 1] = event
    BY <1>1, <1>4
  <2>2. \A i \in 1..Len(log[r]) : log'[r][i] = log[r][i]
    BY <1>1, <1>4
  <2> QED
    BY <2>1, <2>2 DEF Logged
<1> QED
  BY <1>2, <1>3, <1>4

LEMMA ToldInductive == TypeOK /\ LogFits /\ AllTold /\ [Next]_vars => AllTold'
<1> SUFFICES ASSUME RequestsTyped, LogFits, AllTold, [Next]_vars,
                    NEW q \in Requests
             PROVE  Told(q)'
  BY DEF TypeOK, RequestsTyped, Codes, AllTold
<1>0. /\ pc \in [Requests -> Places]
      /\ cause \in [Requests -> {"none", "rejected", "broken"}]
      /\ status \in [Requests -> Codes]
      /\ Told(q)
  BY DEF RequestsTyped, AllTold
<1>1. ASSUME NEW r \in Requests, Arrive(r) \/ Reserve(r) \/ Subdirs(r) PROVE Told(q)'
  <2>1. UNCHANGED <<log, cause, status>>
    BY <1>1 DEF Arrive, Reserve, Subdirs, result
  <2>2. struck \subseteq struck'
    BY <1>1, FaultTyped DEF Arrive, Reserve, Subdirs, Fallback
  <2>3. pc' = pc \/ \E p \in {"reserve", "subdirs", "request"} : pc' = [pc EXCEPT ![r] = p]
    BY <1>1 DEF Arrive, Reserve, Subdirs, Fallback, Go
  <2>4. pc'[q] \in {"answer", "done"} => pc'[q] = pc[q]
    BY <1>0, <2>3
  <2> QED
    BY <1>0, <2>1, <2>2, <2>4, ToldStays
<1>2. ASSUME NEW r \in Requests, Handle(r) \/ BuildableLand(r) \/ UsableLand(r)
      PROVE  Told(q)'
  <2> USE DEF Handle, BuildableLand, UsableLand, Compute, Raise, Go
  <2>1. UNCHANGED <<log, status>> /\ pc[r] \in {"request", "land", "usable"}
    BY <1>2
  <2>2. struck \subseteq struck'
    BY <1>2, FaultTyped
  <2>3. CASE q # r
    <3>1. UNCHANGED <<pc[q], cause[q]>>
      BY <1>0, <1>2, <2>3
    <3> QED
      BY <1>0, <2>1, <2>2, <3>1, ToldStays
  <2>4. CASE q = r
    <3>1. \/ pc'[r] \notin {"answer", "done"}
          \/ pc[r] = "request" /\ pc'[r] = "answer" /\ cause'[r] # "none"
      BY <1>0, <1>2
    <3>2. log[r] \in Seq(Events) /\ UpTo(log[r], Reach(pc[r]))
      BY DEF RequestsTyped, LogFits
    <3>3. \A i \in 1..Len(log[r]) : log[r][i] \in 1..6
      BY <3>2 DEF Events
    <3>4. ~ Logged(r, Completed)
      <4>1. Reach(pc[r]) \in {0, 2, 4}
        BY <2>1 DEF Reach, ReferenceDataLoaded, RequestValidated
      <4> QED
        BY <3>2, <3>3, <4>1 DEF UpTo, Logged, Completed
    <3>5. pc[r] = "request" => log[r] = << >>
      <4>1. ASSUME pc[r] = "request" PROVE Len(log[r]) = 0
        <5>1. Reach(pc[r]) = 0
          BY <4>1 DEF Reach
        <5>2. \A i \in 1..Len(log[r]) : FALSE
          BY <3>2, <3>3, <5>1 DEF UpTo
        <5> QED
          BY <3>2, <5>2
      <4> QED
        BY <3>2, <4>1
    <3>6. status[r] = 0
      BY <2>1 DEF LogFits
    <3> QED
      BY <2>1, <2>4, <3>1, <3>4, <3>5, <3>6 DEF Told, Logged
  <2> QED
    BY <2>3, <2>4
<1>3. ASSUME NEW r \in Requests, NEW here, NEW event \in Events, NEW next, NEW handler,
             Emit(r, here, event, next, handler), q # r
      PROVE  Told(q)'
  <2>1. UNCHANGED <<pc[q], log[q], cause[q], status[q]>>
    BY <1>0, <1>3 DEF Emit, Write, Raise, Go, RequestsTyped
  <2>2. struck \subseteq struck'
    BY <1>3, FaultTyped DEF Emit
  <2> QED
    BY <1>0, <2>1, <2>2, ToldStays
<1>4. ASSUME NEW here \in {"start", "reference", "normalize", "validate"},
             NEW event \in {Started, ReferenceDataLoaded, RequestNormalized, RequestValidated},
             NEW next \in Places \ {"answer", "done"}, NEW handler \in {"answer", "failing"},
             handler = "answer" => here = "start",
             Emit(q, here, event, next, handler)
      PROVE  Told(q)'
  <2>1. event \in Events /\ event # Completed /\ event # Failed
    BY DEF Events, Started, ReferenceDataLoaded, RequestNormalized, RequestValidated,
       Completed, Failed
  <2>2. pc[q] = here /\ UNCHANGED status
    BY <1>4 DEF Emit
  <2>3. ~ Logged(q, Completed)
    <3>1. log[q] \in Seq(Events) /\ UpTo(log[q], Reach(pc[q]))
      BY DEF RequestsTyped, LogFits
    <3>2. \A i \in 1..Len(log[q]) : log[q][i] \in 1..6
      BY <3>1 DEF Events
    <3>3. Reach(pc[q]) \in {0, 1, 2, 3}
      BY <2>2 DEF Reach, Started, ReferenceDataLoaded, RequestNormalized
    <3> QED
      BY <3>1, <3>2, <3>3 DEF UpTo, Logged, Completed
  <2>4. ~ Logged(q, Completed)'
    BY <1>4, <2>1, <2>3, EmitLogs
  <2>5. status'[q] = 0
    BY <2>2 DEF LogFits
  <2>6. \/ pc'[q] \notin {"answer", "done"}
        \/ Struck(q, {"start", "failing"})' /\ cause'[q] = "broken"
    <3>1. \/ pc'[q] = next
          \/ pc'[q] = handler /\ cause'[q] = "broken" /\ Fault(q)
      BY <1>0, <1>4 DEF Emit, Raise, Go
    <3>2. CASE pc'[q] = handler /\ cause'[q] = "broken" /\ Fault(q) /\ handler = "answer"
      <4>1. Struck(q, {"start"})'
        BY <1>4, <2>2, <3>2, FaultStrikes DEF Telling
      <4> QED
        BY <3>2, <4>1 DEF Struck
    <3> QED
      BY <3>1, <3>2
  <2> QED
    BY <2>4, <2>5, <2>6 DEF Told
<1>5. ASSUME Complete(q) PROVE Told(q)'
  <2> USE DEF Complete
  <2>1. Completed \in Events /\ Emit(q, "complete", Completed, "answer", "failing")
    BY <1>5 DEF Completed, Events
  <2>2. pc[q] = "complete" /\ UNCHANGED status /\ cause[q] = "none"
    BY <2>1 DEF Emit, LogFits, Settling
  <2>3. Fault(q) \/ Logged(q, Completed)'
    BY <2>1, EmitLogs
  <2>4. Fault(q) => Struck(q, {"complete"})'
    BY <2>2, FaultStrikes DEF Telling
  <2>5. \/ pc'[q] = "answer" /\ cause'[q] = "none"
        \/ pc'[q] = "failing" /\ cause'[q] = "broken" /\ Fault(q)
    BY <1>0, <2>1, <2>2 DEF Emit, Raise, Go
  <2>6. status'[q] = 0
    BY <2>2 DEF LogFits
  <2> QED
    BY <2>3, <2>4, <2>5, <2>6 DEF Told
<1>6. ASSUME Fail(q) PROVE Told(q)'
  <2>1. /\ Failed \in Events /\ Failed # Completed
        /\ Emit(q, "failing", Failed, "answer", "answer")
    BY <1>6 DEF Fail, Failed, Completed, Events
  <2>2. pc[q] = "failing" /\ UNCHANGED status /\ cause[q] # "none"
    BY <2>1 DEF Emit, LogFits
  <2>3. Fault(q) \/ Logged(q, Failed)'
    BY <2>1, EmitLogs
  <2>4. Fault(q) => Struck(q, {"start", "failing"})'
    <3>1. Fault(q) => Struck(q, {"failing"})'
      BY <2>2, FaultStrikes DEF Telling
    <3> QED
      BY <3>1 DEF Struck
  <2>5. cause'[q] # "none"
    BY <1>0, <2>1, <2>2 DEF Emit, Raise, Go
  <2>6. status'[q] = 0
    BY <2>2 DEF LogFits
  <2>7. Logged(q, Completed)' => Struck(q, {"complete"})'
    <3>1. Logged(q, Completed)' => Logged(q, Completed)
      BY <2>1, EmitLogs
    <3>2. Logged(q, Completed) => cause[q] = "broken"
      BY <1>0, <2>2 DEF LogFits, Logged, Without
    <3>3. Logged(q, Completed) => Struck(q, {"complete"})
      BY <1>0, <3>2 DEF Told
    <3>4. struck \subseteq struck'
      BY <2>1, FaultTyped DEF Emit
    <3> QED
      BY <3>1, <3>3, <3>4, StruckStays
  <2> QED
    BY <2>3, <2>4, <2>5, <2>6, <2>7 DEF Told
<1>7. ASSUME NEW r \in Requests, Answer(r) PROVE Told(q)'
  <2>1. UNCHANGED <<log, cause>> /\ pc[r] = "answer" /\ pc' = [pc EXCEPT ![r] = "done"]
    BY <1>7 DEF Answer, At, Go
  <2>2. struck \subseteq struck'
    BY <1>7, FaultTyped DEF Answer
  <2>3. CASE q # r
    <3>1. UNCHANGED <<pc[q], status[q]>>
      BY <1>0, <1>7, <2>1, <2>3 DEF Answer
    <3> QED
      BY <1>0, <2>1, <2>2, <3>1, ToldStays
  <2>4. CASE q = r
    <3>1. status'[q] = 500 => cause[q] = "broken" \/ Struck(q, {"answer"})'
      <4>1. \/ status'[q] = StatusOf[cause[q]]
            \/ Fault(q)
        BY <1>0, <1>7, <2>4 DEF Answer
      <4>2. Fault(q) => Struck(q, {"answer"})'
        BY <2>1, <2>4, FaultStrikes DEF Telling
      <4>3. StatusOf[cause[q]] = 500 => cause[q] = "broken"
        BY <1>0 DEF StatusOf
      <4> QED
        BY <4>1, <4>2, <4>3
    <3>2. /\ \A event : Logged(q, event)' <=> Logged(q, event)
          /\ \A places : Struck(q, places) => Struck(q, places)'
      BY <2>1, <2>2 DEF Logged, Struck
    <3> QED
      BY <1>0, <2>1, <2>4, <3>1, <3>2 DEF Told
  <2> QED
    BY <2>3, <2>4
<1>8. ASSUME NEW s \in Servers, Crash(s) PROVE Told(q)'
  <2>1. pc'[q] = pc[q] \/ pc'[q] = "lost"
    BY <1>0, <1>8 DEF Crash
  <2>2. UNCHANGED <<log, cause, status, struck>>
    BY <1>8 DEF Crash, result, failures
  <2> QED
    BY <1>0, <2>1, <2>2, ToldStays
<1>9. ASSUME Tick \/ UNCHANGED vars PROVE Told(q)'
  <2>1. UNCHANGED <<log, cause, status, struck, pc>>
    BY <1>9 DEF Tick, vars, result, failures
  <2> QED
    BY <1>0, <2>1, ToldStays
<1>10. ASSUME NEW r \in Requests,
              Start(r) \/ Reference(r) \/ Normalize(r) \/ Validate(r) \/ Complete(r) \/ Fail(r)
       PROVE  Told(q)'
  <2>1. CASE q = r
    <3> USE DEF Places, Reserving, Running, Ended
    <3>1. CASE Start(q) BY <1>4, <3>1 DEF Start
    <3>2. CASE Reference(q) BY <1>4, <3>2 DEF Reference
    <3>3. CASE Normalize(q) BY <1>4, <3>3 DEF Normalize
    <3>4. CASE Validate(q) BY <1>4, <3>4 DEF Validate
    <3> QED
      BY <1>5, <1>6, <1>10, <2>1, <3>1, <3>2, <3>3, <3>4
  <2>2. CASE q # r
    <3>1. {Started, ReferenceDataLoaded, RequestNormalized, RequestValidated,
           Completed, Failed} \subseteq Events
      BY DEF Events, Started, ReferenceDataLoaded, RequestNormalized, RequestValidated,
         Completed, Failed
    <3> QED
      BY <1>3, <1>10, <2>2, <3>1 DEF Start, Reference, Normalize, Validate, Complete, Fail
  <2> QED
    BY <2>1, <2>2
<1> QED
  BY <1>1, <1>2, <1>7, <1>8, <1>9, <1>10 DEF Next, Step, Pipeline

\* However log calls fail or raise: events rise, a failure is never logged of a
\* result that was answered nor a completion of a rejected land, both verdicts or
\* a completion beside a 500 take a failure of the completing log call (or of the
\* response), and where no such failure was, the log has the answer's verdict.
THEOREM LogAgrees == Spec => []VerdictsAgree
<1>1. ASSUME Init PROVE LogFits
  <2> SUFFICES ASSUME NEW r \in Requests
               PROVE  /\ Rising(log[r])
                      /\ UpTo(log[r], Reach(pc[r]))
                      /\ cause[r] = "rejected" => Without(log[r], Completed)
                      /\ cause[r] = "none" => Without(log[r], Failed) /\ pc[r] # "failing"
                      /\ pc[r] \notin Settling => cause[r] = "none"
                      /\ status[r] # 0 => pc[r] = "done"
                      /\ status[r] = 200 => cause[r] = "none"
                      /\ status[r] = 422 => cause[r] = "rejected"
    BY Zenon DEF LogFits
  <2>1. log[r] = << >> /\ pc[r] = "idle" /\ cause[r] = "none" /\ status[r] = 0
    BY <1>1, Zenon DEF Init
  <2>2. /\ Rising(log[r]) /\ UpTo(log[r], Reach(pc[r]))
        /\ Without(log[r], Completed) /\ Without(log[r], Failed)
    <3>1. \A i \in 1..Len(log[r]) : FALSE
      BY <2>1
    <3> QED
      BY <3>1 DEF Rising, UpTo, Without
  <2> QED
    BY <2>1, <2>2
<1>2. TypeOK /\ LogFits /\ AllTold => VerdictsAgree
  <2> SUFFICES ASSUME TypeOK, LogFits, AllTold, NEW r \in Requests
               PROVE  /\ \A i, j \in 1..Len(log[r]) : i < j => log[r][i] < log[r][j]
                      /\ Logged(r, Failed) => status[r] # 200
                      /\ Logged(r, Completed) => status[r] # 422
                      /\ Logged(r, Completed) /\ Logged(r, Failed) => Struck(r, {"complete"})
                      /\ Logged(r, Completed) /\ status[r] = 500 =>
                           Struck(r, {"complete", "answer"})
                      /\ log[r] # << >> /\ status[r] # 0 /\ ~ Struck(r, Telling)
                           => Logged(r, IF status[r] = 200 THEN Completed ELSE Failed)
    BY Zenon DEF VerdictsAgree
  <2>1. /\ cause[r] \in {"none", "rejected", "broken"}
        /\ status[r] \in {0, 200, 422, 500}
        /\ Told(r)
    BY DEF TypeOK, AllTold
  <2>2. Rising(log[r])
    BY DEF LogFits
  <2>3. /\ Logged(r, Failed) => cause[r] # "none"
        /\ Logged(r, Completed) => cause[r] # "rejected"
    BY DEF LogFits, Logged, Without
  <2>4. /\ status[r] = 200 => cause[r] = "none"
        /\ status[r] = 422 => cause[r] = "rejected"
        /\ status[r] # 0 => pc[r] = "done"
    BY DEF LogFits
  <2>5. \A A, B : A \subseteq B /\ Struck(r, A) => Struck(r, B)
    BY DEF Struck
  <2>6. Logged(r, Completed) /\ Logged(r, Failed) => Struck(r, {"complete"})
    BY <2>1, <2>3 DEF Told
  <2>7. Logged(r, Completed) /\ status[r] = 500 => Struck(r, {"complete", "answer"})
    BY <2>1, <2>5 DEF Told
  <2>8. ASSUME log[r] # << >>, status[r] # 0, ~ Struck(r, Telling)
        PROVE  Logged(r, IF status[r] = 200 THEN Completed ELSE Failed)
    <3>1. /\ ~ Struck(r, {"complete"}) /\ ~ Struck(r, {"answer"})
          /\ ~ Struck(r, {"start", "failing"})
      BY <2>5, <2>8 DEF Telling
    <3> QED
      BY <2>1, <2>4, <2>8, <3>1 DEF Told
  <2> QED
    BY <2>2, <2>3, <2>4, <2>6, <2>7, <2>8 DEF Rising
<1>3. Init => AllTold
  <2> SUFFICES ASSUME Init, NEW r \in Requests PROVE Told(r)
    BY Zenon DEF AllTold
  <2>1. log[r] = << >> /\ pc[r] = "idle" /\ cause[r] = "none" /\ status[r] = 0
    BY DEF Init
  <2> QED
    BY <2>1 DEF Told
<1> QED
  BY <1>1, <1>2, <1>3, LogInductive, ToldInductive, Typing, PTL DEF Spec
=============================================================================
