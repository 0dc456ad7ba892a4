---------------------------- MODULE ArtifactStore ----------------------------
(***************************************************************************)
(* What ArtifactStorage promises its callers: a call takes effect in one    *)
(* instant between its start and its answer, or not at all.  Locks,         *)
(* temporary files and the steps of a write are not seen here.              *)
(***************************************************************************)
EXTENDS Naturals

CONSTANTS Writers, Nobody

VARIABLES
  op,      \* what each call does: append an event, create or replace the artifact
  status,  \* what its caller knows of it, and whether it has taken effect
  log,     \* how often the event of each call is in the log
  artifact \* the call whose artifact a reader finds

storeVars == <<op, status, log, artifact>>

Init ==
  /\ op \in [Writers -> {"append", "create", "replace"}]
  /\ status = [w \in Writers |-> "idle"]
  /\ log = [w \in Writers |-> 0]
  /\ artifact = Nobody

Turns(w, from, to) ==
  /\ status[w] \in from
  /\ \E s \in to : status' = [status EXCEPT ![w] = s]
  /\ UNCHANGED op

Begin(w) ==
  /\ Turns(w, {"idle"}, {"open", "failed"})
  /\ UNCHANGED <<log, artifact>>

\* The instant of the effect; the call may fail all the same.
TakeEffect(w) ==
  /\ Turns(w, {"open"}, {"effective", "saved", "failing"})
  /\ \/ /\ op[w] = "append"
        /\ log' = [log EXCEPT ![w] = @ + 1]
        /\ UNCHANGED artifact
     \/ /\ op[w] # "append"
        /\ op[w] = "replace" \/ artifact = Nobody
        /\ artifact' = w
        /\ UNCHANGED log

\* Only a call that has taken effect is reported as saved.
Answer(w) ==
  /\ \/ Turns(w, {"effective"}, {"saved"})
     \/ Turns(w, {"open", "effective"}, {"failing", "failed"})
     \/ Turns(w, {"failing"}, {"failed"})
  /\ UNCHANGED <<log, artifact>>

Die(W) ==
  /\ \A w \in W : status[w] \notin {"saved", "failed", "dead"}
  /\ status' = [w \in Writers |-> IF w \in W THEN "dead" ELSE status[w]]
  /\ UNCHANGED <<op, log, artifact>>

Next ==
  \/ \E w \in Writers : Begin(w) \/ TakeEffect(w) \/ Answer(w)
  \/ \E W \in SUBSET Writers : Die(W)

Spec == Init /\ [][Next]_storeVars
=============================================================================
