------------------------- MODULE GenerationPipeline -------------------------
(***************************************************************************)
(* The search a worker process runs: run_generation_pipeline with           *)
(* _generate_attempt (app/pipeline/generation/pipeline.py) and the final    *)
(* message of run_generation_worker (app/jobs/worker.py).                   *)
(*                                                                          *)
(* The pipeline looks at the cancellation event and at its clock only at    *)
(* its checkpoints, so an action is the code from one checkpoint up to the  *)
(* next.  The algorithms of fpg_core return one of their outcomes or raise. *)
(***************************************************************************)
EXTENDS Naturals, FiniteSets

CONSTANTS Scores,           \* ranks of plan scores, from 1
          Usable,           \* usable_floor_plan_score
          Presentable,      \* presentable_floor_plan_score
          RequireCritical,  \* require_final_critical_pass
          TrialCount,       \* candidate_search.trial_count
          SolverRuns        \* solver_runs_per_candidate

ASSUME ScoresAssumption == Scores \subseteq Nat \ {0}
ASSUME LimitsAssumption == /\ Usable \in Nat /\ Presentable \in Nat
                           /\ RequireCritical \in BOOLEAN
                           /\ TrialCount \in Nat \ {0}
                           /\ SolverRuns \in Nat

VARIABLES
  cancelled,  \* the cancellation event is set
  expired,    \* the deadline of the pipeline has passed
  pc,         \* the next checkpoint
  trials,     \* trials the search session counts
  pending,    \* it has suggested a trial that is not settled
  run,        \* solver runs begun for the candidate
  best,       \* score of best, 0 for None
  plans,      \* every plan that was scored
  answer      \* the final message of the worker

signals == <<cancelled, expired>>
session == <<trials, pending>>
vars == <<cancelled, expired, pc, trials, pending, run, best, plans, answer>>

\* The stages of an attempt that can fail and let the search go on, each with
\* the stage after it.
After == [initial_generation |-> "refinement_a",
          refinement_a       |-> "refinement_b",
          refinement_b       |-> "post_processing",
          post_processing    |-> "openings",
          openings           |-> "final_scoring"]
StageNames == DOMAIN After
Places == {"preprocessing", "search", "circulation", "scoring", "attempt",
           "final_scoring", "done"} \cup StageNames

Plans == [score : Scores, critical : BOOLEAN]
Kinds == {"presentable", "usable", "error", "cancelled", "timeout"}
NoAnswer == [kind |-> "none", score |-> 0]
Answers == [kind : Kinds, score : Scores \cup {0}] \cup {NoAnswer}

Init ==
  /\ cancelled = FALSE
  /\ expired = FALSE
  /\ pc = "preprocessing"
  /\ trials = 0
  /\ pending = FALSE
  /\ run = 0
  /\ best = 0
  /\ plans = {}
  /\ answer = NoAnswer

(***************************************************************************)
(* Checkpoints and answers                                                 *)
(***************************************************************************)

\* Mutant: checkpoints look at the deadline alone.
ClearDeadlineOnly == ~ expired

Clear == ~ cancelled /\ ~ expired

\* Mutant: every stop is reported as a timeout.
CauseTimeout == "timeout"

Cause == IF cancelled THEN "cancelled" ELSE "timeout"

Answer(kind, score) ==
  /\ pc' = "done"
  /\ answer' = [kind |-> kind, score |-> score]

\* A checkpoint outside the handlers raises: the best plan is not attached.
Stop(p) ==
  /\ pc = p
  /\ ~ Clear
  /\ Answer(Cause, 0)
  /\ UNCHANGED <<signals, session, run, best, plans>>

\* An exception no handler expects ends the pipeline.
Raise(p) ==
  /\ pc = p
  /\ Clear
  /\ Answer("error", 0)
  /\ UNCHANGED <<signals, session, run, best, plans>>

\* From checkpoint p to checkpoint q.
Proceed(p, q) ==
  /\ pc = p
  /\ Clear
  /\ pc' = q
  /\ UNCHANGED <<signals, answer>>

(***************************************************************************)
(* The search for candidates                                               *)
(***************************************************************************)

Preprocess ==
  \/ Stop("preprocessing")
  \/ Raise("preprocessing")
  \/ /\ Proceed("preprocessing", "search")
     /\ UNCHANGED <<session, run, best, plans>>

\* The session refuses a second trial while one is pending.
AskTrial ==
  \/ trials < TrialCount /\ (Stop("search") \/ Raise("search"))
  \/ /\ trials < TrialCount
     /\ ~ pending
     /\ pending' = TRUE
     /\ Proceed("search", "circulation")
     /\ UNCHANGED <<trials, run, best, plans>>

Exhausted ==
  /\ pc = "search"
  /\ trials >= TrialCount
  /\ IF best = 0 THEN Answer("error", 0) ELSE Answer("usable", best)
  /\ UNCHANGED <<signals, session, run, best, plans>>

\* Mutant: the failed trial stays pending.
FailTrialForgotten ==
  /\ pc \in {"circulation", "scoring"}
  /\ pc' = "search"
  /\ UNCHANGED <<signals, trials, pending, run, best, plans, answer>>

\* Circulation, saving it, scoring, or one of their checkpoints raised: the
\* handler takes a stop for a failure.  The session may count the trial or not.
FailTrial ==
  /\ pc \in {"circulation", "scoring"}
  /\ pc' = "search"
  /\ pending' = FALSE
  /\ trials' \in {trials, trials + 1}
  /\ UNCHANGED <<signals, run, best, plans, answer>>

RefineCirculation ==
  /\ Proceed("circulation", "scoring")
  /\ UNCHANGED <<session, run, best, plans>>

\* The trial is recorded; an accepted candidate goes to the solver, unless its
\* specification cannot be built, which no handler expects.
ScoreCandidate ==
  /\ \/ Proceed("scoring", "search")
     \/ SolverRuns > 0 /\ Proceed("scoring", "attempt")
     \/ pc = "scoring" /\ Clear /\ Answer("error", 0) /\ UNCHANGED signals
  /\ trials' = trials + 1
  /\ pending' = FALSE
  /\ run' = 0
  /\ UNCHANGED <<best, plans>>

(***************************************************************************)
(* The attempts for a candidate                                            *)
(***************************************************************************)

NextRun == IF run < SolverRuns THEN "attempt" ELSE "search"

BeginAttempt ==
  \/ Stop("attempt")
  \/ /\ Proceed("attempt", "initial_generation")
     /\ run' = run + 1
     /\ UNCHANGED <<session, best, plans>>

\* A checkpoint inside an attempt raises: the handler attaches the best plan.
StopAttempt ==
  /\ pc \in StageNames \cup {"final_scoring"}
  /\ ~ Clear
  /\ Answer(Cause, best)
  /\ UNCHANGED <<signals, session, run, best, plans>>

\* Infeasible, no plan, post-processing or openings failed: the next run.
FailAttempt ==
  \E stage \in StageNames :
    /\ Proceed(stage, NextRun)
    /\ UNCHANGED <<session, run, best, plans>>

RunStage ==
  \E stage \in StageNames :
    \/ Raise(stage)
    \/ /\ Proceed(stage, After[stage])
       /\ UNCHANGED <<session, run, best, plans>>

IsUsable(plan) ==
  /\ RequireCritical => plan.critical
  /\ plan.score >= Usable

\* Mutant: the last usable plan replaces the best one.
KeepsLast(plan) == IsUsable(plan)

Better(plan) == IsUsable(plan) /\ (best = 0 \/ plan.score > best)

\* Mutant: a plan need not be usable to end the search.
EndsSearchUnusable(plan) == plan.score >= Presentable

EndsSearch(plan) == IsUsable(plan) /\ plan.score >= Presentable

ScorePlan ==
  \/ Raise("final_scoring")
  \/ \E plan \in Plans :
       /\ pc = "final_scoring"
       /\ Clear
       /\ plans' = plans \cup {plan}
       /\ best' = IF Better(plan) THEN plan.score ELSE best
       /\ IF EndsSearch(plan)
          THEN Answer("presentable", plan.score)
          ELSE /\ pc' = NextRun
               /\ UNCHANGED answer
       /\ UNCHANGED <<signals, session, run>>

(***************************************************************************)
(* The environment                                                         *)
(***************************************************************************)

\* The manager sets the event, also when its own deadline passes.
Cancel ==
  /\ ~ cancelled
  /\ cancelled' = TRUE
  /\ UNCHANGED <<expired, pc, session, run, best, plans, answer>>

DeadlinePasses ==
  /\ ~ expired
  /\ expired' = TRUE
  /\ UNCHANGED <<cancelled, pc, session, run, best, plans, answer>>

Step ==
  \/ Preprocess \/ AskTrial \/ Exhausted \/ FailTrial \/ RefineCirculation
  \/ ScoreCandidate \/ BeginAttempt \/ StopAttempt \/ FailAttempt \/ RunStage
  \/ ScorePlan

Next == Step \/ Cancel \/ DeadlinePasses

\* The process runs, fpg_core returns and time passes.
Fairness == WF_vars(Step) /\ WF_vars(DeadlinePasses)

Spec     == Init /\ [][Next]_vars
FairSpec == Spec /\ Fairness

(***************************************************************************)
(* Properties                                                              *)
(***************************************************************************)

\* Whichever way a trial ends, also by a checkpoint inside it, the session has
\* no trial pending when it is asked for the next.
TrialSettled == pending <=> pc \in {"circulation", "scoring"}

\* The types, and the settled trials.
TypeOK ==
  /\ cancelled \in BOOLEAN
  /\ expired \in BOOLEAN
  /\ pc \in Places
  /\ trials \in 0 .. TrialCount
  /\ pending \in BOOLEAN
  /\ run \in 0 .. SolverRuns
  /\ best \in Scores \cup {0}
  /\ plans \subseteq Plans
  /\ answer \in Answers
  /\ TrialSettled

\* However candidates, runs and failures alternate, the plan kept is one that
\* was scored, is usable, and is beaten by no other usable plan.
BestIsBest ==
  /\ best # 0 => \E plan \in plans : IsUsable(plan) /\ plan.score = best
  /\ \A plan \in plans : IsUsable(plan) => plan.score <= best

\* A delivered plan is the best one scored, called presentable exactly when it
\* reaches that score; and a search that found one never goes on.
DeliversBest ==
  /\ answer.kind \in {"presentable", "usable"} => answer.score = best /\ best # 0
  /\ best >= Presentable /\ best # 0 <=> answer.kind = "presentable"

\* Once the event is set or the deadline has passed, a step of the worker is
\* its answer, or gives up the trial at hand: nothing new is begun.
StopsPromptly ==
  [][(cancelled \/ expired) /\ pc' # pc =>
       \/ answer' # NoAnswer
       \/ pc \in {"circulation", "scoring"} /\ pc' = "search"]_vars

Search == INSTANCE PlanSearch

\* The worker answers, with the best plan, a failure, or a stop that was asked
\* for.
ImplementsPlanSearch == Search!Spec

(***************************************************************************)
(* What docs/API.md says and the code does not keep                        *)
(***************************************************************************)

\* docs/API.md:427: the terminal event has the best result when available.
StopDeliversBest ==
  answer.kind \in {"cancelled", "timeout"} => answer.score = best
=============================================================================
