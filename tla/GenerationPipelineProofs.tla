----------------------- MODULE GenerationPipelineProofs -----------------------
(***************************************************************************)
(* Proofs about GenerationPipeline, for every set of scores, all thresholds, *)
(* and any number of trials and solver runs.                                *)
(***************************************************************************)
EXTENDS GenerationPipeline, TLAPS

\* A worker that has not answered is at a checkpoint.
Undecided == answer = NoAnswer <=> pc # "done"

\* A trial is suggested, and a run begun, only while there is one left.
RoomLeft ==
  /\ pending => trials < TrialCount
  /\ pc = "attempt" => run < SolverRuns

IInv == TypeOK /\ Undecided /\ RoomLeft /\ BestIsBest /\ DeliversBest /\ TrialSettled

USE ScoresAssumption, LimitsAssumption

\* The stages of an attempt and what follows them.
LEMMA StagesFacts ==
  /\ StageNames = {"initial_generation", "refinement_a", "refinement_b",
                   "post_processing", "openings"}
  /\ \A stage \in StageNames :
       After[stage] \in (StageNames \cup {"final_scoring"})
BY DEF StageNames, After

\* Scores are numbers above 0, the score of no plan.
LEMMA ScoreFacts ==
  /\ \A plan \in Plans : plan.score \in Scores
  /\ \A n \in Scores : n \in Nat /\ n # 0
  /\ \A n \in Scores \cup {0} : n \in Nat
BY DEF Plans

\* The initial state satisfies the invariant.
LEMMA Initially == Init => IInv
<1> SUFFICES ASSUME Init PROVE IInv
  OBVIOUS
<1>1. TypeOK
  <2>1. trials \in 0 .. TrialCount /\ run \in 0 .. SolverRuns
    BY DEF Init
  <2>2. pc \in Places /\ answer \in Answers
    BY DEF Init, Places, Answers
  <2> QED BY <2>1, <2>2 DEF Init, TypeOK, TrialSettled
<1>2. Undecided /\ TrialSettled
  BY DEF Init, Undecided, TrialSettled
<1>3. RoomLeft
  BY DEF Init, RoomLeft
<1>4. BestIsBest
  BY DEF Init, BestIsBest
<1>5. DeliversBest
  BY DEF Init, DeliversBest, NoAnswer
<1> QED BY <1>1, <1>2, <1>3, <1>4, <1>5 DEF IInv

\* A step at which the pipeline stops or raises: nothing but the answer changes.
LEMMA AnswersKeep ==
  ASSUME IInv, NEW kind \in {"error", "cancelled", "timeout"}, NEW score \in {0, best},
         pc \notin {"circulation", "scoring", "done"},
         Answer(kind, score), UNCHANGED <<signals, session, run, best, plans>>
  PROVE  IInv'
BY DEF IInv, TypeOK, Undecided, RoomLeft, BestIsBest, DeliversBest, TrialSettled,
  Answer, signals, session, Places, Kinds, Answers, NoAnswer, IsUsable, Plans

\* A step from one checkpoint to another that keeps trials and plans.
LEMMA ProceedKeeps ==
  ASSUME IInv, NEW p \in Places, NEW q \in Places \ {"done", "circulation", "scoring", "attempt"},
         p \notin {"circulation", "scoring", "done"},
         Proceed(p, q), UNCHANGED <<session, run, best, plans>>
  PROVE  IInv'
BY DEF IInv, TypeOK, Undecided, RoomLeft, BestIsBest, DeliversBest, TrialSettled,
  Proceed, signals, session, IsUsable, Plans

\* Every step preserves the invariant.
LEMMA Inductive == IInv /\ [Next]_vars => IInv'
<1> SUFFICES ASSUME IInv, [Next]_vars PROVE IInv'
  OBVIOUS
<1> USE DEF IInv
<1>1. CASE Preprocess
  BY <1>1, AnswersKeep, ProceedKeeps DEF Preprocess, Stop, Raise, Cause, Places
<1>2. CASE AskTrial
  <2>1. CASE trials < TrialCount /\ (Stop("search") \/ Raise("search"))
    BY <2>1, AnswersKeep DEF Stop, Raise, Cause
  <2>2. CASE /\ trials < TrialCount
             /\ ~ pending
             /\ pending' = TRUE
             /\ Proceed("search", "circulation")
             /\ UNCHANGED <<trials, run, best, plans>>
    BY <2>2 DEF Proceed, signals, TypeOK, Undecided, RoomLeft, BestIsBest,
      DeliversBest, TrialSettled, Places, IsUsable
  <2> QED BY <1>2, <2>1, <2>2 DEF AskTrial
<1>3. CASE Exhausted
  BY <1>3 DEF Exhausted, Answer, signals, session, TypeOK, Undecided, RoomLeft,
    BestIsBest, DeliversBest, TrialSettled, Places, Kinds, Answers, NoAnswer, IsUsable
<1>4. CASE FailTrial
  <2>1. TypeOK'
    <3>1. trials' \in 0 .. TrialCount /\ run' \in 0 .. SolverRuns
      BY <1>4 DEF FailTrial, signals, TypeOK, RoomLeft, TrialSettled
    <3>2. pc' \in Places
      BY <1>4 DEF FailTrial, signals, Places
    <3> QED BY <1>4, <3>1, <3>2 DEF FailTrial, signals, TypeOK, TrialSettled
  <2>2. Undecided'
    BY <1>4 DEF FailTrial, signals, Undecided
  <2>3. RoomLeft'
    BY <1>4 DEF FailTrial, signals, RoomLeft
  <2>4. BestIsBest'
    BY <1>4 DEF FailTrial, signals, BestIsBest
  <2>5. DeliversBest'
    BY <1>4 DEF FailTrial, signals, DeliversBest
  <2>6. TrialSettled'
    BY <1>4 DEF FailTrial, signals, TrialSettled
  <2> QED BY <2>1, <2>2, <2>3, <2>4, <2>5, <2>6
<1>5. CASE RefineCirculation
  BY <1>5 DEF RefineCirculation, Proceed, signals, session, TypeOK, Undecided,
    RoomLeft, BestIsBest, DeliversBest, TrialSettled, Places, IsUsable
<1>6. CASE ScoreCandidate
  <2>1. TypeOK'
    <3>1. trials' \in 0 .. TrialCount /\ run' \in 0 .. SolverRuns
      BY <1>6 DEF ScoreCandidate, Proceed, signals, TypeOK, RoomLeft, TrialSettled
    <3>2. pc' \in Places /\ answer' \in Answers
      BY <1>6 DEF ScoreCandidate, Proceed, Answer, TypeOK, Places, Kinds, Answers
    <3> QED BY <1>6, <3>1, <3>2 DEF ScoreCandidate, Proceed, Answer, signals, TypeOK, TrialSettled
  <2>2. Undecided'
    BY <1>6 DEF ScoreCandidate, Proceed, Answer, signals, Undecided, NoAnswer
  <2>3. RoomLeft'
    BY <1>6 DEF ScoreCandidate, Proceed, Answer, signals, RoomLeft, TypeOK
  <2>4. BestIsBest'
    BY <1>6 DEF ScoreCandidate, Proceed, signals, BestIsBest
  <2>5. DeliversBest'
    BY <1>6 DEF ScoreCandidate, Proceed, Answer, signals, DeliversBest, Undecided, NoAnswer
  <2>6. TrialSettled'
    BY <1>6 DEF ScoreCandidate, Proceed, Answer, signals, TrialSettled
  <2> QED BY <2>1, <2>2, <2>3, <2>4, <2>5, <2>6
<1>7. CASE BeginAttempt
  <2>1. CASE Stop("attempt")
    BY <2>1, AnswersKeep DEF Stop, Cause
  <2>2. CASE /\ Proceed("attempt", "initial_generation")
             /\ run' = run + 1
             /\ UNCHANGED <<session, best, plans>>
    BY <2>2, StagesFacts DEF Proceed, signals, session, TypeOK, Undecided, RoomLeft,
      BestIsBest, DeliversBest, TrialSettled, Places, IsUsable
  <2> QED BY <1>7, <2>1, <2>2 DEF BeginAttempt
<1>8. CASE StopAttempt
  BY <1>8, StagesFacts, AnswersKeep DEF StopAttempt, Cause
<1>9. CASE FailAttempt
  BY <1>9, StagesFacts DEF FailAttempt, NextRun, Proceed, signals, session, TypeOK,
    Undecided, RoomLeft, BestIsBest, DeliversBest, TrialSettled, Places, IsUsable
<1>10. CASE RunStage
  <2> PICK stage \in StageNames :
        \/ Raise(stage)
        \/ Proceed(stage, After[stage]) /\ UNCHANGED <<session, run, best, plans>>
    BY <1>10 DEF RunStage
  <2>1. CASE Raise(stage)
    BY <2>1, StagesFacts, AnswersKeep DEF Raise
  <2>2. CASE Proceed(stage, After[stage]) /\ UNCHANGED <<session, run, best, plans>>
    BY <2>2, StagesFacts, ProceedKeeps DEF Places
  <2> QED BY <2>1, <2>2
<1>11. CASE ScorePlan
  <2>1. CASE Raise("final_scoring")
    BY <2>1, AnswersKeep DEF Raise
  <2>2. CASE ~ Raise("final_scoring")
    <3> PICK plan \in Plans :
          /\ pc = "final_scoring"
          /\ Clear
          /\ plans' = plans \cup {plan}
          /\ best' = IF Better(plan) THEN plan.score ELSE best
          /\ IF EndsSearch(plan)
             THEN Answer("presentable", plan.score)
             ELSE /\ pc' = NextRun
                  /\ UNCHANGED answer
          /\ UNCHANGED <<signals, session, run>>
      BY <1>11, <2>2 DEF ScorePlan
    <3>1. /\ plan.score \in Scores /\ plan.score \in Nat /\ plan.score # 0
          /\ best \in Nat
      BY ScoreFacts DEF TypeOK
    <3>2. pc \notin {"circulation", "scoring", "done", "attempt"} /\ answer = NoAnswer
      BY DEF Undecided
    <3>3. best # 0 => best < Presentable
      BY <3>1, <3>2 DEF DeliversBest, NoAnswer
    <3>4. BestIsBest'
      <4>1. CASE Better(plan)
        <5>1. best' = plan.score /\ plan \in plans' /\ IsUsable(plan)
          BY <4>1 DEF Better
        <5>2. ASSUME NEW other \in plans', IsUsable(other)
              PROVE  other.score <= best'
          <6>1. CASE other = plan
            BY <3>1, <5>1, <6>1
          <6>2. CASE other \in plans
            <7>1. other.score \in Nat /\ other.score <= best
              BY <5>2, <6>2, ScoreFacts DEF BestIsBest, TypeOK
            <7> QED BY <3>1, <4>1, <5>1, <7>1 DEF Better
          <6> QED BY <5>2, <6>1, <6>2
        <5> QED BY <5>1, <5>2 DEF BestIsBest, IsUsable
      <4>2. CASE ~ Better(plan)
        BY <3>1, <4>2 DEF BestIsBest, Better, IsUsable
      <4> QED BY <4>1, <4>2
    <3>5. CASE EndsSearch(plan)
      <4>1. best' = plan.score
        BY <3>1, <3>3, <3>5 DEF EndsSearch, Better
      <4> QED
        BY <3>1, <3>2, <3>4, <3>5, <4>1 DEF EndsSearch, Answer, signals, session,
          TypeOK, Undecided, RoomLeft, DeliversBest, TrialSettled, Places, Kinds, Answers, NoAnswer
    <3>6. CASE ~ EndsSearch(plan)
      <4>1. best' # 0 => best' < Presentable
        BY <3>1, <3>3, <3>6 DEF EndsSearch, Better
      <4> QED
        BY <3>1, <3>2, <3>4, <3>6, <4>1 DEF NextRun, signals, session, TypeOK,
          Undecided, RoomLeft, DeliversBest, TrialSettled, Places, NoAnswer
    <3> QED BY <3>5, <3>6
  <2> QED BY <2>1, <2>2
<1>12. CASE Cancel \/ DeadlinePasses
  <2>1. TypeOK'
    <3>1. /\ cancelled' \in BOOLEAN /\ expired' \in BOOLEAN
          /\ UNCHANGED <<pc, session, run, best, plans, answer>>
      BY <1>12 DEF Cancel, DeadlinePasses, TypeOK
    <3>2. TrialSettled'
      BY <3>1 DEF session, TrialSettled
    <3> QED BY <3>1, <3>2 DEF session, TypeOK
  <2>2. Undecided'
    BY <1>12 DEF Cancel, DeadlinePasses, session, Undecided
  <2>3. RoomLeft'
    BY <1>12 DEF Cancel, DeadlinePasses, session, RoomLeft
  <2>4. BestIsBest'
    BY <1>12 DEF Cancel, DeadlinePasses, session, BestIsBest
  <2>5. DeliversBest'
    BY <1>12 DEF Cancel, DeadlinePasses, session, DeliversBest
  <2>6. TrialSettled'
    BY <1>12 DEF Cancel, DeadlinePasses, session, TrialSettled
  <2> QED BY <2>1, <2>2, <2>3, <2>4, <2>5, <2>6
<1>13. CASE UNCHANGED vars
  BY <1>13 DEF vars, TypeOK, Undecided, RoomLeft, BestIsBest, DeliversBest,
    TrialSettled, IsUsable
<1> QED
  BY <1>1, <1>2, <1>3, <1>4, <1>5, <1>6, <1>7, <1>8, <1>9, <1>10, <1>11, <1>12, <1>13
    DEF Next, Step

\* The invariant holds in every state of the search.
THEOREM Invariance == Spec => []IInv
BY Initially, Inductive, PTL DEF Spec

\* However the search goes, its state has the types the code gives it.
THEOREM Typing == Spec => []TypeOK
BY Invariance, PTL DEF IInv

\* The plan kept is usable and no usable plan scored so far beats it.
THEOREM BestKept == Spec => []BestIsBest
BY Invariance, PTL DEF IInv

\* The plan delivered is the best of the search.
THEOREM BestDelivered == Spec => []DeliversBest
BY Invariance, PTL DEF IInv

\* The search session is never asked for a trial while one is pending.
THEOREM SessionRespected == Spec => []TrialSettled
BY Invariance, PTL DEF IInv

\* A step that keeps the signals, the best plan and the answer is a stutter.
LEMMA Stutters ==
  ASSUME UNCHANGED <<signals, best, answer>>
  PROVE  [Search!Next]_Search!vars
BY DEF signals, Search!vars

\* Stopping, at a checkpoint inside an attempt or outside.
LEMMA StopImplemented ==
  ASSUME IInv, ~ Clear, pc # "done", NEW score \in {0, best},
         Answer(Cause, score), UNCHANGED <<signals, best>>
  PROVE  Search!Next
BY DEF IInv, TypeOK, Undecided, Clear, Cause, Answer, NoAnswer, signals, Search!Next,
  Search!Stop, Search!NoAnswer

\* Failing, by an exception or because no usable plan was found.
LEMMA FailImplemented ==
  ASSUME IInv, pc # "done", Answer("error", 0), UNCHANGED <<signals, best>>
  PROVE  Search!Next
BY DEF IInv, Undecided, Answer, NoAnswer, signals, Search!Next, Search!Fail,
  Search!NoAnswer

\* Every step of the pipeline is a step of the abstract search or a stutter.
LEMMA StepImplemented == IInv /\ IInv' /\ [Next]_vars => [Search!Next]_Search!vars
<1> SUFFICES ASSUME IInv, IInv', [Next]_vars PROVE [Search!Next]_Search!vars
  OBVIOUS
<1>1. CASE Preprocess
  BY <1>1, Stutters, StopImplemented, FailImplemented
    DEF Preprocess, Stop, Raise, Proceed
<1>2. CASE AskTrial
  BY <1>2, Stutters, StopImplemented, FailImplemented DEF AskTrial, Stop, Raise, Proceed
<1>3. CASE Exhausted
  <2>1. CASE best = 0
    BY <1>3, <2>1, FailImplemented DEF Exhausted
  <2>2. CASE best # 0
    <3>1. best \in Scores /\ best \in Nat /\ answer = NoAnswer
      BY <1>3, <2>2, ScoreFacts DEF Exhausted, IInv, TypeOK, Undecided
    <3>2. best < Presentable
      BY <2>2, <3>1 DEF IInv, DeliversBest, NoAnswer
    <3>3. \E plan \in plans : plan.score = best /\ plan.score >= Usable
      BY <2>2 DEF IInv, BestIsBest, IsUsable
    <3> QED
      BY <1>3, <2>2, <3>1, <3>2, <3>3 DEF Exhausted, Answer, NoAnswer, signals,
        Search!Next, Search!Deliver, Search!NoAnswer
  <2> QED BY <2>1, <2>2
<1>4. CASE FailTrial \/ RefineCirculation \/ ScoreCandidate \/ FailAttempt
  BY <1>4, Stutters, FailImplemented
    DEF FailTrial, RefineCirculation, ScoreCandidate, FailAttempt, Proceed
<1>5. CASE BeginAttempt
  BY <1>5, Stutters, StopImplemented DEF BeginAttempt, Stop, Proceed
<1>6. CASE StopAttempt
  BY <1>6, StagesFacts, StopImplemented DEF StopAttempt
<1>7. CASE RunStage
  BY <1>7, StagesFacts, Stutters, FailImplemented DEF RunStage, Raise, Proceed
<1>8. CASE ScorePlan
  <2>1. CASE Raise("final_scoring")
    BY <2>1, FailImplemented DEF Raise
  <2>2. CASE ~ Raise("final_scoring")
    <3> PICK plan \in Plans :
          /\ pc = "final_scoring"
          /\ best' = IF Better(plan) THEN plan.score ELSE best
          /\ IF EndsSearch(plan)
             THEN Answer("presentable", plan.score)
             ELSE UNCHANGED answer
          /\ UNCHANGED signals
      BY <1>8, <2>2 DEF ScorePlan
    <3>1. /\ plan.score \in Scores /\ plan.score \in Nat /\ plan.score # 0
          /\ best \in Nat /\ answer = NoAnswer
      BY ScoreFacts DEF IInv, TypeOK, Undecided
    <3>2. best # 0 => best < Presentable
      BY <3>1 DEF IInv, DeliversBest, NoAnswer
    <3>3. CASE EndsSearch(plan)
      <4>1. best' = plan.score /\ plan.score >= best /\ plan.score >= Usable
        BY <3>1, <3>2, <3>3 DEF EndsSearch, IsUsable, Better
      <4> QED
        BY <3>1, <3>3, <4>1 DEF EndsSearch, Answer, NoAnswer, signals, Search!Next,
          Search!Deliver, Search!NoAnswer
    <3>4. CASE ~ EndsSearch(plan) /\ Better(plan)
      <4>1. best' = plan.score /\ plan.score > best /\ plan.score >= Usable
        BY <3>1, <3>4 DEF IsUsable, Better
      <4> QED
        BY <3>1, <3>4, <4>1 DEF NoAnswer, signals, Search!Next, Search!Improve,
          Search!NoAnswer
    <3>5. CASE ~ EndsSearch(plan) /\ ~ Better(plan)
      BY <3>5, Stutters
    <3> QED BY <3>3, <3>4, <3>5
  <2> QED BY <2>1, <2>2
<1>9. CASE Cancel
  BY <1>9 DEF Cancel, Search!Next, Search!Cancel
<1>10. CASE DeadlinePasses
  BY <1>10 DEF DeadlinePasses, Search!Next, Search!Expire
<1>11. CASE UNCHANGED vars
  BY <1>11, Stutters DEF vars, signals
<1> QED
  BY <1>1, <1>2, <1>3, <1>4, <1>5, <1>6, <1>7, <1>8, <1>9, <1>10, <1>11 DEF Next, Step

\* The pipeline implements the abstract search: it answers once, with the best
\* usable plan, a failure, or a stop that was asked for.
THEOREM Refinement == Spec => Search!Init /\ [][Search!Next]_Search!vars
<1>1. Init => Search!Init
  BY DEF Init, NoAnswer, Search!Init, Search!NoAnswer
<1> QED
  BY <1>1, Invariance, StepImplemented, PTL DEF Spec

\* Once a stop is asked for, each step answers or gives up the trial at hand.
THEOREM PromptStop == Spec => StopsPromptly
<1> DEFINE Prompt == (cancelled \/ expired) /\ pc' # pc =>
                       \/ answer' # NoAnswer
                       \/ pc \in {"circulation", "scoring"} /\ pc' = "search"
<1>1. ASSUME NEW kind \in Kinds, NEW score, Answer(kind, score)
      PROVE  Prompt
  BY <1>1 DEF Answer, NoAnswer, Kinds
<1>2. ASSUME Clear
      PROVE  Prompt
  BY <1>2 DEF Clear
<1>3. ASSUME Next
      PROVE  Prompt
  <2>1. CASE Preprocess \/ AskTrial \/ BeginAttempt
    BY <2>1, <1>1, <1>2 DEF Preprocess, AskTrial, BeginAttempt, Stop, Raise, Proceed,
      Cause, Kinds
  <2>2. CASE Exhausted \/ StopAttempt
    BY <2>2, <1>1 DEF Exhausted, StopAttempt, Cause, Kinds
  <2>3. CASE FailTrial
    BY <2>3 DEF FailTrial
  <2>4. CASE RefineCirculation \/ ScoreCandidate \/ FailAttempt \/ RunStage \/ ScorePlan
    BY <2>4, <1>2
      DEF RefineCirculation, ScoreCandidate, FailAttempt, RunStage, ScorePlan, Proceed, Raise
  <2>5. CASE Cancel \/ DeadlinePasses
    BY <2>5 DEF Cancel, DeadlinePasses
  <2> QED BY <1>3, <2>1, <2>2, <2>3, <2>4, <2>5 DEF Next, Step
<1>4. [Next]_vars => [Prompt]_vars
  BY <1>3
<1> QED
  BY <1>4, PTL DEF Spec, StopsPromptly
=============================================================================
