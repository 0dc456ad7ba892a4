----------------------------- MODULE PlanSearch -----------------------------
(***************************************************************************)
(* What a generation worker promises: it may find better and better plans,  *)
(* and answers once, with a plan that is the best it found, with a failure,  *)
(* or with the reason it was stopped for.  GenerationPipeline implements it. *)
(***************************************************************************)
EXTENDS Naturals

CONSTANTS Scores,       \* ranks of plan scores, from 1
          Usable,       \* the least score of a plan worth returning
          Presentable   \* the score at which the search is over

VARIABLES cancelled,  \* the cancellation event is set
          expired,    \* the pipeline's own deadline has passed
          best,       \* score of the best plan so far, 0 for none
          answer      \* the worker's final message

vars == <<cancelled, expired, best, answer>>

NoAnswer == [kind |-> "none", score |-> 0]

Init == /\ cancelled = FALSE
        /\ expired = FALSE
        /\ best = 0
        /\ answer = NoAnswer

Cancel == /\ cancelled' = TRUE
          /\ UNCHANGED <<expired, best, answer>>

Expire == /\ expired' = TRUE
          /\ UNCHANGED <<cancelled, best, answer>>

Improve == /\ answer = NoAnswer
           /\ best' \in Scores
           /\ best' > best
           /\ best' >= Usable
           /\ UNCHANGED <<cancelled, expired, answer>>

\* A plan with the best score so far, the one that ends the search included.
Deliver == /\ answer = NoAnswer
           /\ best' \in Scores
           /\ best' >= best
           /\ best' >= Usable
           /\ answer' = [kind |-> IF best' >= Presentable THEN "presentable"
                                                          ELSE "usable",
                         score |-> best']
           /\ UNCHANGED <<cancelled, expired>>

Fail == /\ answer = NoAnswer
        /\ answer' = [kind |-> "error", score |-> 0]
        /\ UNCHANGED <<cancelled, expired, best>>

\* The best plan may come along.
Stop == /\ answer = NoAnswer
        /\ \/ cancelled /\ answer' \in [kind : {"cancelled"}, score : {0, best}]
           \/ expired /\ answer' \in [kind : {"timeout"}, score : {0, best}]
        /\ UNCHANGED <<cancelled, expired, best>>

Next == Cancel \/ Expire \/ Improve \/ Deliver \/ Fail \/ Stop

\* The worker answers.
Spec == Init /\ [][Next]_vars /\ WF_vars(Deliver \/ Fail \/ Stop)
=============================================================================
