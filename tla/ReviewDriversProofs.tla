-------------------------- MODULE ReviewDriversProofs --------------------------
(***************************************************************************)
(* What the two drivers of the FSM promise, for every corpus, every diff   *)
(* and every bound, each from the invariant of ReviewFsmProofs.            *)
(*                                                                         *)
(* run_review (ReviewRunner, Spec): the specialist pool runs once and      *)
(* nothing it returned is lost on the way to the verdict, the coverage     *)
(* floor holds, a GO is earned.  The agent (ReviewOrchestrator,            *)
(* AgentSpec): the panel fails closed, no picked leaf disappears in the    *)
(* loop, an impasse is earned, every state finds its inputs.  Both keep    *)
(* the promise of ReviewLifecycle.                                         *)
(***************************************************************************)
EXTENDS ReviewRunner, ReviewOrchestrator, ReviewFsmProofs

-----------------------------------------------------------------------------
(* run_review: the invariant.                                              *)

\* The states past the dispatch of the batches.
PastDispatch ==
  {"merge_specialist_outputs"} \cup PastMerge \cup {"synthesize_release_readiness"}

\* No panel rejects anything here; run_review's counters stay in their
\* ranges, and it returns only from terminal.
DriverInv ==
  /\ \A s \in DOMAIN rejections : rejections[s] = 0
  /\ steps \in 0..MaxSteps /\ attempt \in 0..MaxRetries
  /\ outcome \in {"running", "returned", "faulted", "raised", "max_steps_exceeded"}
  /\ outcome = "returned" => state = "terminal"

\* The floor: a leaf is activated until one is picked.
FloorInv ==
  /\ state \in {"tree_descend", "llm_trim"} => activated # {}
  /\ state \in PastTrim => picked # {}

\* The pool runs once, before the merge, for the picked leaves, and a verdict
\* that is not a detour's has its results.
PoolInv ==
  /\ pools \in {0, 1}
  /\ pools = 0 => unit_results = <<>> /\ loop_iters = <<>> /\ iteration_n = 0
  /\ pools = 1 =>
       /\ state \in {LoopState} \cup PastDispatch \cup PastVerdict
       /\ unit_results \in [picked -> Outputs] /\ Planned = picked /\ picked # {}
  /\ state \in PastDispatch => pools = 1
  /\ verdict \in {"GO", "NO-GO"} /\ triaged # "trivial" => pools = 1

\* Iteration i commits the results of batch i; the loop goes on exactly while
\* there are batches and iterations left.
IterationInv ==
  /\ \A i \in DOMAIN loop_iters :
       i \in DOMAIN batches /\ loop_iters[i] = [leaf \in batches[i] |-> unit_results[leaf]]
  /\ iteration_n \in 0..MaxIterations
  /\ state = LoopState =>
       /\ Len(loop_iters) < Len(batches) /\ Len(loop_iters) < MaxIterations
       /\ iteration_n = IF loop_iters = <<>> THEN 0 ELSE Len(loop_iters) + 1
  /\ state = "merge_specialist_outputs" =>
       Len(loop_iters) = Len(batches) \/ Len(loop_iters) >= MaxIterations

\* The merge hands on what the pool returned, or what the aggregate budget
\* leaves of it.
MergedInv == state \in Merged /\ pools = 1 => merged \in WithinBudget(unit_results)

RunnerInv == FsmInv /\ DriverInv /\ FloorInv /\ PoolInv /\ IterationInv /\ MergedInv

-----------------------------------------------------------------------------
(* The steps of run_review.                                                *)

\* _coverage_floor: an answer is empty only when no leaf is activated.
LEMMA FlooredIsPicked ==
  ASSUME activated \subseteq Leaves, activated # {}, NEW answer \in SUBSET Leaves,
         NEW leaves \in Floored(answer)
  PROVE  leaves # {} /\ leaves \subseteq Leaves
<1>1. CASE answer # {}
  BY <1>1 DEF Floored
<1>2. CASE answer = {}
  <2>1. IsFiniteSet(activated)
    BY LeavesAssumption, FS_Subset
  <2>2. Cardinality(activated) \in Nat /\ Cardinality(activated) # 0
    BY <2>1, FS_CardinalityType, FS_EmptySet
  <2>3. leaves \subseteq activated /\ Cardinality(leaves) # 0
    BY <1>2, <2>2, RunnerAssumption DEF Floored
  <2>4. leaves # {}
    BY <2>3, FS_EmptySet
  <2>5. QED
    BY <2>3, <2>4
<1>3. QED
  BY <1>1, <1>2

\* What a worker step does: a commit with an answer that keeps to the floor.
FlooredCommit ==
  /\ WorkerCommit
  /\ state = "llm_trim" /\ activated # {} => picked' # {}
  /\ UNCHANGED <<iteration_n, pools, unit_results, outcome>>

LEMMA WorkerIsCommit ==
  ASSUME FsmInv, WorkerAnswers \/ (WorkerExhausted /\ outcome' = outcome)
  PROVE  FlooredCommit
<1>1. tier \in Tiers \cup {"none", "cheap"} /\ activated \subseteq Leaves
  BY DEF FsmInv, FsmTypeInv, RoutingType
<1>2. CASE WorkerAnswers
  <2>1. PICK stamp \in Tiers \cup {"none", "cheap"} :
          \/ ScanProject(stamp)
          \/ \E any_candidates \in BOOLEAN : TreeDescend(any_candidates, stamp)
          \/ \E answer \in SUBSET Leaves, rescues \in Rescues : \E leaves \in Floored(answer) :
               LlmTrim(leaves, rescues, stamp)
          \/ ToolDiscovery(stamp)
          \/ \E kept \in SUBSET findings : RankFindings(kept, stamp)
    BY <1>1, <1>2 DEF WorkerAnswers, Stamps
  <2>2. UNCHANGED <<iteration_n, pools, unit_results, outcome>>
    BY <1>2 DEF WorkerAnswers
  <2>3. CASE \E answer \in SUBSET Leaves, rescues \in Rescues : \E leaves \in Floored(answer) :
               LlmTrim(leaves, rescues, stamp)
    <3>1. PICK answer \in SUBSET Leaves, rescues \in Rescues, leaves \in SUBSET Leaves :
            leaves \in Floored(answer) /\ LlmTrim(leaves, rescues, stamp)
      BY <2>3, <1>1 DEF Floored
    <3>2. rescues \in SUBSET (Leaves \X Files)
      BY <3>1, ScopeAssumption
    <3>3. WorkerCommit
      BY <2>1, <3>1, <3>2 DEF WorkerCommit
    <3>4. activated # {} => picked' # {}
      BY <1>1, <3>1, FlooredIsPicked DEF LlmTrim
    <3>5. QED
      BY <2>2, <3>3, <3>4 DEF FlooredCommit
  <2>4. CASE ~ \E answer \in SUBSET Leaves, rescues \in Rescues : \E leaves \in Floored(answer) :
                 LlmTrim(leaves, rescues, stamp)
    <3>1. WorkerCommit
      BY <2>1, <2>4 DEF WorkerCommit
    <3>2. state # "llm_trim"
      BY <2>1, <2>4 DEF ScanProject, TreeDescend, ToolDiscovery, RankFindings
    <3>3. QED
      BY <2>2, <3>1, <3>2 DEF FlooredCommit
  <2>5. QED
    BY <2>3, <2>4
<1>3. CASE WorkerExhausted /\ outcome' = outcome
  <2>1. ToolDiscovery(tier) /\ UNCHANGED <<iteration_n, pools, unit_results, outcome>>
    BY <1>3 DEF WorkerExhausted, End, Step
  <2>2. WorkerCommit
    BY <1>1, <2>1 DEF WorkerCommit
  <2>3. QED
    BY <2>1, <2>2 DEF FlooredCommit, ToolDiscovery
<1>4. QED
  BY <1>2, <1>3

\* What every step does to the FSM and to the pool's results.
LEMMA NextKinds ==
  ASSUME RunnerInv, [Next]_vars
  PROVE  \/ FlooredCommit /\ outcome = "running"
         \/ LoopIteration
         \/ InlineStep
         \/ UNCHANGED <<fsmVars, iteration_n, pools, unit_results>>
<1> USE DEF RunnerInv
<1>1. CASE WorkerAnswers
  BY <1>1, WorkerIsCommit DEF WorkerAnswers, Step
<1>2. CASE WorkerExhausted
  BY <1>2, WorkerIsCommit DEF WorkerExhausted, Step, End
<1>3. CASE \/ WorkerInvalid \/ WorkerRaises \/ WorkerRetries \/ InlineFaults \/ Return
           \/ StepsExceeded \/ Ended \/ UNCHANGED vars
  BY <1>3 DEF WorkerInvalid, WorkerRaises, WorkerRetries, InlineFaults, Return, StepsExceeded, Ended,
              End, vars, runnerVars
<1>4. QED
  BY <1>1, <1>2, <1>3 DEF Next

\* The batch the loop is at is the one after those it committed; all of them
\* take their results from the one pool run.
LEMMA IterationEffect ==
  ASSUME RunnerInv, LoopIteration
  PROVE  LET k == Len(loop_iters) + 1
         IN  /\ k \in DOMAIN batches /\ k <= MaxIterations
             /\ pools' = 1 /\ unit_results' \in [picked -> Outputs]
             /\ unit_results # <<>> => UNCHANGED unit_results
             /\ CommitIteration([leaf \in batches[k] |-> unit_results'[leaf]], k = Len(batches))
             /\ iteration_n' = IF state' = LoopState THEN k + 1 ELSE 0
             /\ state = LoopState /\ UNCHANGED outcome
<1> DEFINE k == Len(loop_iters) + 1
<1>1. state = LoopState
  BY DEF LoopIteration
<1>2. loop_iters \in Seq(Payloads) /\ batches \in Seq(SUBSET Leaves)
  BY DEF RunnerInv, FsmInv, FsmTypeInv, DispatchType
<1>3. /\ Len(loop_iters) < Len(batches) /\ Len(loop_iters) < MaxIterations
      /\ iteration_n = IF loop_iters = <<>> THEN 0 ELSE Len(loop_iters) + 1
  BY <1>1 DEF RunnerInv, IterationInv
<1>4. (IF iteration_n = 0 THEN 1 ELSE iteration_n) = k
  BY <1>2, <1>3
<1>5. k \in DOMAIN batches /\ k <= MaxIterations
  BY <1>2, <1>3, BoundsAssumption
<1>6. Planned = picked /\ picked # {}
  BY <1>1 DEF RunnerInv, FsmInv, ReviewInv, FloorInv, PastTrim, PastTools, PastPlan
<1>7. PICK results \in [Planned -> Outputs] :
        (unit_results # <<>> => results = unit_results) /\ PoolOnce(results)
  BY DEF LoopIteration
<1>8. pools' = 1 /\ unit_results' = results
  <2>1. pools = 0 \/ (pools = 1 /\ unit_results # <<>>)
    BY <1>6 DEF RunnerInv, PoolInv
  <2>2. pools = 0 => unit_results = <<>>
    BY DEF RunnerInv, PoolInv
  <2>3. QED
    BY <1>7, <2>1, <2>2 DEF PoolOnce
<1>9. /\ CommitIteration([leaf \in batches[k] |-> unit_results'[leaf]], k = Len(batches))
      /\ iteration_n' = IF state' = LoopState THEN k + 1 ELSE 0
      /\ UNCHANGED outcome
  BY <1>4 DEF LoopIteration, LoopDone
<1>10. QED
  BY <1>1, <1>5, <1>6, <1>7, <1>8, <1>9

\* An iteration is a step of the FSM.
LEMMA IterationIsFsmStep ==
  ASSUME RunnerInv, LoopIteration
  PROVE  FsmStep
<1> DEFINE k == Len(loop_iters) + 1
           payload == [leaf \in batches[k] |-> unit_results'[leaf]]
<1>1. /\ k \in DOMAIN batches /\ unit_results' \in [picked -> Outputs]
      /\ CommitIteration(payload, k = Len(batches))
      /\ state = LoopState
  BY IterationEffect
<1>2. Planned = picked /\ picked \subseteq Leaves
  BY <1>1 DEF RunnerInv, FsmInv, FsmTypeInv, RoutingType, ReviewInv, PastPlan
<1>3. batches[k] \subseteq picked
  BY <1>1, <1>2 DEF Planned
<1>4. payload \in Payloads
  BY <1>1, <1>2, <1>3 DEF Payloads
<1>5. QED
  BY <1>1, <1>4 DEF FsmStep, LoopCommit

LEMMA NextFsmInv ==
  ASSUME RunnerInv, [Next]_vars
  PROVE  FsmInv'
<1>1. FsmStep \/ UNCHANGED fsmVars
  BY NextKinds, IterationIsFsmStep DEF FlooredCommit, InlineStep, FsmStep
<1>2. QED
  BY <1>1, StepFsmInv, FsmStandsStill DEF RunnerInv

\* verifier_stuck is out of run_review's reach, and its counters keep to
\* their bounds.
LEMMA NextDriverInv ==
  ASSUME RunnerInv, [Next]_vars
  PROVE  DriverInv'
<1> USE DEF RunnerInv, DriverInv
<1>1. \A s \in DOMAIN rejections' : rejections'[s] = 0
  <2>1. FsmStep => StepEffect
    BY StepEffects
  <2>2. UNCHANGED fsmVars => UNCHANGED rejections
    BY DEF fsmVars
  <2>3. FsmStep \/ UNCHANGED fsmVars
    BY NextKinds, IterationIsFsmStep DEF FlooredCommit, InlineStep, FsmStep
  <2>4. rejections \in [WorkerStates \cup {LoopState} -> 0..RejectionLimit]
    BY DEF FsmInv, FsmTypeInv, RunType
  <2>5. QED
    BY <2>1, <2>2, <2>3, <2>4 DEF StepEffect
<1>2. steps' \in 0..MaxSteps /\ attempt' \in 0..MaxRetries
  BY RunnerAssumption
  DEF Next, WorkerAnswers, WorkerInvalid, WorkerRaises, WorkerRetries, WorkerExhausted,
      LoopIteration, InlineStep, InlineFaults, Return, StepsExceeded, Ended, Step, End, vars,
      runnerVars
<1>3. /\ outcome' \in {"running", "returned", "faulted", "raised", "max_steps_exceeded"}
      /\ outcome' = "returned" => state' = "terminal"
  BY DEF Next, WorkerAnswers, WorkerInvalid, WorkerRaises, WorkerRetries, WorkerExhausted,
      LoopIteration, InlineStep, InlineFaults, Return, StepsExceeded, Ended, Step, End, vars,
      runnerVars, fsmVars
<1>4. QED
  BY <1>1, <1>2, <1>3

\* A leaf is activated before the descent, and picked at the trim.
LEMMA NextFloorInv ==
  ASSUME RunnerInv, [Next]_vars
  PROVE  FloorInv'
<1> USE DEF RunnerInv, FloorInv, PastTrim, PastTools, PastPlan, PastMerge, PastCollect, LoopState,
            routingVars, dispatchVars, verdictVars, Route
<1>1. CASE FlooredCommit
  BY <1>1 DEF FlooredCommit, WorkerCommit, ScanProject, TreeDescend, LlmTrim, ToolDiscovery,
              RankFindings
<1>2. CASE LoopIteration
  BY <1>2, IterationEffect DEF CommitIteration
<1>3. CASE InlineStep
  BY <1>3 DEF InlineStep, InlineHandler, RiskTierTriage, ActivateLeaves, PlanSpecialistBatches,
              CollectFindings, MergeSpecialistOutputs, VerifyCoverage, SynthesizeReleaseReadiness,
              ShortCircuitExit, StageAEmpty, VerifierStuck, WriteRunDirectory, EmitStdout
<1>4. CASE UNCHANGED fsmVars
  BY <1>4 DEF fsmVars
<1>5. QED
  BY <1>1, <1>2, <1>3, <1>4, NextKinds

\* What the handlers other than the planner do to the variables of PoolInv.
HandlerEffect ==
  /\ state # LoopState /\ UNCHANGED <<batches, picked, loop_iters>>
  /\ state' \in PastDispatch <=> state \in PastDispatch \ {"synthesize_release_readiness"}
  /\ state \in {"synthesize_release_readiness"} \cup PastVerdict => state' \in PastVerdict
  /\ state # "risk_tier_triage" => UNCHANGED triaged
  /\ \/ UNCHANGED verdict
     \/ state = "synthesize_release_readiness"
     \/ verdict' = "CONDITIONAL"
     \/ verdict' = "GO" /\ triaged' = "trivial"

LEMMA HandlerEffects ==
  ASSUME FsmInv, DriverInv, InlineHandler, state # "plan_specialist_batches"
  PROVE  HandlerEffect
<1> USE DEF HandlerEffect, PastDispatch, PastMerge, PastCollect, PastVerdict, PastManifest,
            LoopState, routingVars, dispatchVars, verdictVars
<1>1. state # "verifier_stuck"
  BY BoundsAssumption DEF FsmInv, ImpasseInv, DriverInv, FsmTypeInv, RunType
<1>2. ASSUME NEW t \in Tiers, NEW overrides \in BOOLEAN, RiskTierTriage(t, overrides)
      PROVE  HandlerEffect
  BY <1>2 DEF RiskTierTriage
<1>3. ASSUME NEW matching \in SUBSET Leaves, ActivateLeaves(matching)
      PROVE  HandlerEffect
  BY <1>3 DEF ActivateLeaves
<1>4. ASSUME NEW duplicates \in [Files -> LeafPartitions], CollectFindings(duplicates)
      PROVE  HandlerEffect
  <2>1. /\ state = "collect_findings" /\ state' = "rank_findings"
        /\ UNCHANGED <<routingVars, dispatchVars, verdictVars>>
    BY <1>4 DEF CollectFindings
  <2>2. QED
    BY <2>1
<1>5. CASE MergeSpecialistOutputs
  BY <1>5 DEF MergeSpecialistOutputs
<1>6. CASE VerifyCoverage
  BY <1>6 DEF VerifyCoverage
<1>7. CASE SynthesizeReleaseReadiness
  BY <1>7 DEF SynthesizeReleaseReadiness
<1>8. CASE ShortCircuitExit
  <2>1. triaged = "trivial"
    BY <1>8 DEF ShortCircuitExit, FsmInv, ReviewInv
  <2>2. QED
    BY <1>8, <2>1 DEF ShortCircuitExit
<1>9. CASE StageAEmpty
  BY <1>9 DEF StageAEmpty
<1>10. CASE WriteRunDirectory
  BY <1>10 DEF WriteRunDirectory
<1>11. CASE EmitStdout
  BY <1>11 DEF EmitStdout
<1>12. CASE \E order \in Orders(picked) : PlanSpecialistBatches(order)
  BY <1>12 DEF PlanSpecialistBatches
<1>13. CASE VerifierStuck
  BY <1>1, <1>13 DEF VerifierStuck
<1>14. QED
  BY <1>2, <1>3, <1>4, <1>5, <1>6, <1>7, <1>8, <1>9, <1>10, <1>11, <1>12, <1>13 DEF InlineHandler

\* The planner is the handler of its state, and no other's.
LEMMA PlannerPlans ==
  ASSUME InlineHandler, state = "plan_specialist_batches"
  PROVE  \E order \in Orders(picked) : PlanSpecialistBatches(order)
BY DEF InlineHandler, RiskTierTriage, ActivateLeaves, CollectFindings, MergeSpecialistOutputs,
       VerifyCoverage, SynthesizeReleaseReadiness, ShortCircuitExit, StageAEmpty, VerifierStuck,
       WriteRunDirectory, EmitStdout

\* There is always something to dispatch: a leaf is picked.
LEMMA PlansSomething ==
  ASSUME RunnerInv, [Next]_vars, NEW order \in Orders(picked), PlanSpecialistBatches(order)
  PROVE  Planned' = picked' /\ picked' # {} /\ batches' # <<>>
<1>1. PastPlan \subseteq PastTrim
  BY DEF PastTrim, PastTools
<1>2. FsmInv' /\ FloorInv' /\ state' \in PastPlan
  BY NextFsmInv, NextFloorInv DEF PlanSpecialistBatches, PastPlan, PastMerge, PastCollect, PastVerdict,
     PastManifest, LoopState
<1>3. Planned' = picked' /\ picked' # {}
  BY <1>1, <1>2 DEF FsmInv, ReviewInv, FloorInv
<1>4. QED
  BY <1>3 DEF Planned

\* No handler but the planner goes to the loop or past it to the merge.
LEMMA HandlersReturn ==
  ASSUME InlineHandler, state # "plan_specialist_batches"
  PROVE  state' \notin {LoopState, "merge_specialist_outputs"}
BY DEF InlineHandler, RiskTierTriage, ActivateLeaves, PlanSpecialistBatches, CollectFindings,
       MergeSpecialistOutputs, VerifyCoverage, SynthesizeReleaseReadiness, ShortCircuitExit,
       StageAEmpty, VerifierStuck, WriteRunDirectory, EmitStdout, LoopState

\* The handlers leave the pool's results to the merge.
LEMMA NextPoolInv ==
  ASSUME RunnerInv, [Next]_vars
  PROVE  PoolInv'
<1> USE DEF RunnerInv, PastDispatch, PastMerge, PastCollect, PastVerdict, PastManifest,
            LoopState, routingVars, dispatchVars, verdictVars, Route
<1>1. CASE FlooredCommit
  <2>1. UNCHANGED batches
    BY <1>1 DEF FlooredCommit, WorkerCommit, ScanProject, TreeDescend, LlmTrim, ToolDiscovery,
                RankFindings
  <2>2. Planned' = Planned
    BY <2>1 DEF Planned
  <2>3. \A s \in WorkerStates : ~(rejections[s] >= RejectionLimit)
    BY BoundsAssumption DEF DriverInv, FsmInv, FsmTypeInv, RunType
  <2>4. CASE state = "rank_findings"
    <3>1. state' = "verify_coverage" /\ UNCHANGED <<picked, loop_iters, verdict, triaged>>
      BY <1>1, <2>3, <2>4 DEF FlooredCommit, WorkerCommit, ScanProject, TreeDescend, LlmTrim,
                              ToolDiscovery, RankFindings, WorkerStates
    <3>2. QED
      BY <1>1, <2>2, <2>4, <3>1 DEF FlooredCommit, PoolInv
  <2>5. CASE state # "rank_findings"
    <3>1. /\ state \in WorkerStates \ {"rank_findings"} /\ UNCHANGED <<loop_iters, verdict, triaged>>
          /\ state' \notin PastDispatch
      BY <1>1, <2>5 DEF FlooredCommit, WorkerCommit, ScanProject, TreeDescend, LlmTrim,
                        ToolDiscovery, RankFindings, WorkerStates
    <3>2. pools = 0
      BY <3>1 DEF WorkerStates, PoolInv
    <3>3. QED
      BY <1>1, <3>1, <3>2 DEF FlooredCommit, PoolInv
  <2>6. QED
    BY <2>4, <2>5
<1>2. CASE LoopIteration
  <2>1. /\ state = LoopState /\ pools' = 1 /\ unit_results' \in [picked -> Outputs]
        /\ state' \in {LoopState, "merge_specialist_outputs"}
        /\ UNCHANGED <<picked, batches, verdict>>
    BY <1>2, IterationEffect, BoundsAssumption DEF CommitIteration, DriverInv, FsmInv, FsmTypeInv,
       RunType
  <2>2. Planned' = Planned /\ Planned = picked /\ picked # {}
    BY <2>1 DEF Planned, FsmInv, ReviewInv, PastPlan, FloorInv, PastTrim, PastTools
  <2>3. QED
    BY <2>1, <2>2 DEF PoolInv
<1>3. CASE InlineStep
  <2>1. CASE state = "plan_specialist_batches"
    <3>1. PICK order \in Orders(picked) : PlanSpecialistBatches(order)
      BY <1>3, <2>1, PlannerPlans DEF InlineStep
    <3>2. Planned' = picked' /\ picked' # {} /\ batches' # <<>>
      BY <3>1, PlansSomething
    <3>3. state' = LoopState /\ UNCHANGED <<verdict, triaged, loop_iters>> /\ pools = 0
      BY <3>1, <3>2 DEF PlanSpecialistBatches, PoolInv
    <3>4. QED
      BY <1>3, <3>3 DEF InlineStep, PoolInv
  <2>2. CASE state # "plan_specialist_batches"
    <3>1. HandlerEffect /\ UNCHANGED <<pools, unit_results, iteration_n>>
      BY <1>3, <2>2, HandlerEffects DEF InlineStep
    <3>2. Planned' = Planned
      BY <3>1 DEF HandlerEffect, Planned
    <3>3. state \notin PastVerdict => verdict = "none"
      BY DEF FsmInv, ReportInv
    <3>4. pools = 1 => state # "risk_tier_triage"
      BY DEF PoolInv
    <3>5. QED
      BY <3>1, <3>2, <3>3, <3>4 DEF HandlerEffect, PoolInv
  <2>3. QED
    BY <2>1, <2>2
<1>4. CASE UNCHANGED <<fsmVars, iteration_n, pools, unit_results>>
  <2>1. UNCHANGED <<state, batches, picked, loop_iters, verdict, triaged>>
    BY <1>4 DEF fsmVars
  <2>2. Planned' = Planned
    BY <2>1 DEF Planned
  <2>3. QED
    BY <1>4, <2>1, <2>2 DEF PoolInv
<1>5. QED
  BY <1>1, <1>2, <1>3, <1>4, NextKinds

\* Every iteration commits its own batch, and the engine leaves the loop after
\* the last batch or at its cap.
LEMMA NextIterationInv ==
  ASSUME RunnerInv, [Next]_vars
  PROVE  IterationInv'
<1> USE DEF RunnerInv, LoopState
<1>1. CASE FlooredCommit
  <2>1. /\ UNCHANGED <<batches, loop_iters, iteration_n, unit_results>>
        /\ state' \notin {LoopState, "merge_specialist_outputs"}
    BY <1>1 DEF FlooredCommit, WorkerCommit, ScanProject, TreeDescend, LlmTrim, ToolDiscovery,
                RankFindings, Route, dispatchVars
  <2>2. QED
    BY <2>1 DEF IterationInv
<1>2. CASE LoopIteration
  <2> DEFINE k == Len(loop_iters) + 1
             payload == [leaf \in batches[k] |-> unit_results'[leaf]]
  <2>1. /\ k \in DOMAIN batches /\ k <= MaxIterations
        /\ unit_results # <<>> => UNCHANGED unit_results
        /\ CommitIteration(payload, k = Len(batches))
        /\ iteration_n' = IF state' = LoopState THEN k + 1 ELSE 0
    BY <1>2, IterationEffect
  <2>2. loop_iters \in Seq(Payloads) /\ batches \in Seq(SUBSET Leaves)
    BY DEF FsmInv, FsmTypeInv, DispatchType
  <2>3. /\ loop_iters' = Append(loop_iters, payload) /\ UNCHANGED batches
        /\ state' = IF k = Len(batches) \/ k >= MaxIterations
                    THEN "merge_specialist_outputs" ELSE LoopState
    <3>1. rejections[state] = 0 /\ state = LoopState
      BY <2>1 DEF CommitIteration, DriverInv, FsmInv, FsmTypeInv, RunType
    <3>2. Route(state, "merge_specialist_outputs") = "merge_specialist_outputs"
      BY <3>1, BoundsAssumption DEF Route
    <3>3. loop_iters' = Append(loop_iters, payload) /\ UNCHANGED batches
      BY <2>1 DEF CommitIteration
    <3>4. Len(loop_iters') = k
      BY <2>2, <3>3
    <3>5. QED
      BY <2>1, <3>1, <3>2, <3>3, <3>4 DEF CommitIteration
  <2>4. ASSUME NEW i \in DOMAIN loop_iters'
        PROVE  i \in DOMAIN batches' /\ loop_iters'[i] = [leaf \in batches'[i] |-> unit_results'[leaf]]
    <3>1. CASE i = k
      BY <2>1, <2>2, <2>3, <3>1
    <3>2. CASE i # k
      <4>1. i \in DOMAIN loop_iters /\ loop_iters'[i] = loop_iters[i]
        BY <2>2, <2>3, <2>4, <3>2
      <4>2. loop_iters # <<>>
        BY <4>1
      <4>3. unit_results \in [picked -> Outputs] /\ picked # {}
        BY <4>2 DEF PoolInv
      <4>4. unit_results # <<>>
        BY <4>3
      <4>5. QED
        BY <2>1, <2>3, <4>1, <4>4 DEF IterationInv
    <3>3. QED
      BY <3>1, <3>2
  <2>5. Len(loop_iters') = k /\ loop_iters' # <<>> /\ k \in Nat /\ k <= Len(batches)
    BY <2>1, <2>2, <2>3
  <2>6. iteration_n' \in 0..MaxIterations
    BY <2>1, <2>3, <2>5, BoundsAssumption
  <2>7. QED
    BY <2>1, <2>2, <2>3, <2>4, <2>5, <2>6, BoundsAssumption DEF IterationInv
<1>3. CASE InlineStep
  <2>1. CASE state = "plan_specialist_batches"
    <3>1. PICK order \in Orders(picked) : PlanSpecialistBatches(order)
      BY <1>3, <2>1, PlannerPlans DEF InlineStep
    <3>2. batches' # <<>> /\ batches' \in Seq(SUBSET Leaves)
      BY <1>3, <3>1, PlansSomething, NextFsmInv DEF FsmInv, FsmTypeInv, DispatchType
    <3>3. pools = 0
      BY <2>1 DEF PoolInv, PastDispatch, PastMerge, PastCollect, PastVerdict, PastManifest
    <3>4. loop_iters = <<>> /\ iteration_n = 0
      BY <3>3 DEF PoolInv
    <3>5. state' = LoopState /\ loop_iters' = <<>> /\ iteration_n' = 0
      BY <1>3, <3>1, <3>2, <3>4 DEF PlanSpecialistBatches, InlineStep
    <3>6. Len(batches') > 0 /\ Len(batches') \in Nat
      BY <3>2
    <3>7. QED
      BY <3>5, <3>6, BoundsAssumption DEF IterationInv
  <2>2. CASE state # "plan_specialist_batches"
    <3>1. HandlerEffect /\ UNCHANGED <<unit_results, iteration_n>>
      BY <1>3, <2>2, HandlerEffects DEF InlineStep
    <3>2. state' \notin {LoopState, "merge_specialist_outputs"}
      BY <1>3, <2>2, HandlersReturn DEF InlineStep
    <3>3. QED
      BY <3>1, <3>2 DEF HandlerEffect, IterationInv
  <2>3. QED
    BY <2>1, <2>2
<1>4. CASE UNCHANGED <<fsmVars, iteration_n, pools, unit_results>>
  <2>1. UNCHANGED <<state, batches, loop_iters, unit_results, iteration_n>>
    BY <1>4 DEF fsmVars, dispatchVars
  <2>2. QED
    BY <2>1 DEF IterationInv
<1>5. QED
  BY <1>1, <1>2, <1>3, <1>4, NextKinds

\* With every batch committed or the loop cut short by the cap, the merge
\* finds for each leaf what the pool returned for it.
LEMMA NextMergedInv ==
  ASSUME RunnerInv, [Next]_vars
  PROVE  MergedInv'
<1> USE DEF RunnerInv, MergedInv, Merged
<1>1. CASE FlooredCommit
  <2>1. CASE state = "rank_findings"
    BY <1>1, <2>1 DEF FlooredCommit, WorkerCommit, ScanProject, TreeDescend, LlmTrim, ToolDiscovery,
                      RankFindings, dispatchVars
  <2>2. CASE state # "rank_findings"
    <3>1. state \in WorkerStates \ {"rank_findings"}
      BY <1>1, <2>2 DEF FlooredCommit, WorkerCommit, ScanProject, TreeDescend, LlmTrim,
                        ToolDiscovery, RankFindings, WorkerStates
    <3>2. pools = 0
      BY <3>1 DEF WorkerStates, PoolInv, PastDispatch, PastMerge, PastCollect, PastVerdict,
                  PastManifest, LoopState
    <3>3. QED
      BY <1>1, <3>2 DEF FlooredCommit
  <2>3. QED
    BY <2>1, <2>2
<1>2. CASE LoopIteration
  <2>1. state' \in {LoopState, "merge_specialist_outputs"}
    BY <1>2, IterationEffect, BoundsAssumption
    DEF CommitIteration, Route, DriverInv, FsmInv, FsmTypeInv, RunType
  <2>2. QED
    BY <2>1 DEF LoopState
<1>3. CASE InlineStep /\ MergeSpecialistOutputs
  <2>1. /\ state = "merge_specialist_outputs" /\ Planned \subseteq Committed
        /\ merged' \in WithinBudget(Folded) /\ UNCHANGED <<pools, unit_results>>
    BY <1>3 DEF InlineStep, MergeSpecialistOutputs, LoopDrained
  <2>2. unit_results \in [picked -> Outputs] /\ Planned = picked
    BY <2>1 DEF PoolInv, PastDispatch
  <2>3. Committed \subseteq Planned
    BY DEF IterationInv, Committed, Planned
  <2>4. loop_iters \in Seq(Payloads)
    BY DEF FsmInv, FsmTypeInv, DispatchType
  <2>5. ASSUME NEW leaf \in Committed
        PROVE  loop_iters[LastIteration(leaf)][leaf] = unit_results[leaf]
    <3>1. /\ LastIteration(leaf) \in DOMAIN loop_iters
          /\ leaf \in DOMAIN loop_iters[LastIteration(leaf)]
      BY <2>4, <2>5, LastIterationIs
    <3>2. loop_iters[LastIteration(leaf)] = [l \in batches[LastIteration(leaf)] |-> unit_results[l]]
      BY <3>1 DEF IterationInv
    <3>3. QED
      BY <3>1, <3>2
  <2>6. Folded = [leaf \in picked |-> unit_results[leaf]]
    BY <2>1, <2>2, <2>3, <2>5 DEF Folded
  <2>7. Folded = unit_results
    BY <2>2, <2>6
  <2>8. QED
    BY <2>1, <2>7
<1>4. CASE InlineStep /\ ~MergeSpecialistOutputs
  <2>1. CASE state = "plan_specialist_batches"
    <3>1. PICK order \in Orders(picked) : PlanSpecialistBatches(order)
      BY <1>4, <2>1, PlannerPlans DEF InlineStep
    <3>2. state' \notin Merged
      BY <3>1 DEF PlanSpecialistBatches, LoopState
    <3>3. QED
      BY <3>2
  <2>2. CASE state # "plan_specialist_batches"
    <3>1. HandlerEffect /\ UNCHANGED <<pools, unit_results>>
      BY <1>4, <2>2, HandlerEffects DEF InlineStep
    <3>2. state # "merge_specialist_outputs" /\ UNCHANGED merged
      BY <1>4, <2>2
      DEF InlineStep, InlineHandler, RiskTierTriage, ActivateLeaves, PlanSpecialistBatches,
          CollectFindings, VerifyCoverage, SynthesizeReleaseReadiness, ShortCircuitExit,
          StageAEmpty, VerifierStuck, WriteRunDirectory, EmitStdout, dispatchVars
    <3>3. pools = 1 => state \in Merged \cup {LoopState, "merge_specialist_outputs"}
      BY DEF PoolInv, PastDispatch, PastMerge, PastCollect, PastVerdict, PastManifest, LoopState
    <3>4. QED
      BY <3>1, <3>2, <3>3 DEF HandlerEffect
  <2>3. QED
    BY <2>1, <2>2
<1>5. CASE UNCHANGED <<fsmVars, iteration_n, pools, unit_results>>
  <2>1. UNCHANGED <<state, merged, pools, unit_results>>
    BY <1>5 DEF fsmVars, dispatchVars
  <2>2. QED
    BY <2>1
<1>6. QED
  BY <1>1, <1>2, <1>3, <1>4, <1>5, NextKinds

\* What every step does to the FSM and to the way run_review ends.
LEMMA OutcomeKinds ==
  ASSUME RunnerInv, [Next]_vars
  PROVE  \/ FsmStep /\ outcome = "running" /\ UNCHANGED outcome
         \/ /\ UNCHANGED fsmVars /\ outcome = "running"
            /\ outcome' \in {"faulted", "raised", "max_steps_exceeded"}
         \/ UNCHANGED fsmVars /\ outcome = "running" /\ state = "terminal" /\ outcome' = "returned"
         \/ UNCHANGED <<fsmVars, outcome>>
<1>1. CASE WorkerAnswers
  BY <1>1, WorkerIsCommit DEF RunnerInv, WorkerAnswers, Step, FlooredCommit, FsmStep
<1>2. CASE WorkerExhausted
  <2>1. CASE outcome' = outcome
    BY <1>2, <2>1, WorkerIsCommit DEF RunnerInv, WorkerExhausted, Step, FlooredCommit, FsmStep
  <2>2. CASE outcome' # outcome
    BY <1>2, <2>2 DEF WorkerExhausted, Step, End
  <2>3. QED
    BY <2>1, <2>2
<1>3. CASE LoopIteration
  BY <1>3, IterationIsFsmStep DEF LoopIteration, Step
<1>4. CASE InlineStep
  BY <1>4 DEF InlineStep, Step, FsmStep
<1>5. CASE WorkerInvalid \/ WorkerRaises \/ InlineFaults \/ StepsExceeded
  BY <1>5 DEF WorkerInvalid, WorkerRaises, InlineFaults, StepsExceeded, Step, End
<1>6. CASE Return
  BY <1>6 DEF Return, Step, End
<1>7. CASE WorkerRetries \/ Ended \/ UNCHANGED vars
  BY <1>7 DEF WorkerRetries, Ended, vars, runnerVars
<1>8. QED
  BY <1>1, <1>2, <1>3, <1>4, <1>5, <1>6, <1>7 DEF Next

LEMMA InitRunnerInv ==
  ASSUME RunnerInit
  PROVE  RunnerInv
<1>1. FsmInv
  BY InitFsmInv DEF RunnerInit
<1>2. DriverInv
  BY RunnerAssumption DEF RunnerInit, Init, DriverInv
<1>3. FloorInv /\ PoolInv /\ MergedInv
  BY DEF RunnerInit, Init, FloorInv, PoolInv, MergedInv, Merged, PastTrim, PastTools, PastPlan, PastMerge,
         PastCollect, PastDispatch, LoopState
<1>4. IterationInv
  <2>1. DOMAIN loop_iters = {}
    BY DEF RunnerInit, Init
  <2>2. QED
    BY <2>1, BoundsAssumption DEF RunnerInit, Init, IterationInv, LoopState
<1>5. QED
  BY <1>1, <1>2, <1>3, <1>4 DEF RunnerInv

LEMMA NextRunnerInv ==
  ASSUME RunnerInv, [Next]_vars
  PROVE  RunnerInv'
BY NextFsmInv, NextDriverInv, NextFloorInv, NextPoolInv, NextIterationInv, NextMergedInv DEF RunnerInv

-----------------------------------------------------------------------------
(* The theorems on run_review.                                             *)

\* The run's env and run_review's own variables stay in their ranges.
THEOREM RunnerTypes == Spec => []RunnerTypeOK
<1>1. RunnerInv => RunnerTypeOK
  <2> SUFFICES ASSUME RunnerInv
               PROVE  RunnerTypeOK
    OBVIOUS
  <2>1. unit_results \in [DOMAIN unit_results -> Outputs]
    <3>1. CASE pools = 0
      <4>1. unit_results = <<>> /\ DOMAIN unit_results = {}
        BY <3>1 DEF RunnerInv, PoolInv
      <4>2. QED
        BY <4>1
    <3>2. CASE pools = 1
      BY <3>2 DEF RunnerInv, PoolInv
    <3>3. QED
      BY <3>1, <3>2 DEF RunnerInv, PoolInv
  <2>2. QED
    BY <2>1, FsmTypes DEF RunnerInv, DriverInv, PoolInv, IterationInv, RunnerTypeOK
<1>2. QED
  BY <1>1, InitRunnerInv, NextRunnerInv, PTL DEF Spec

\* One pool run serves the whole loop of run_review, the loop commits every
\* batch up to the engine's cap, and past the merge the results judged are
\* those the pool returned, one for each picked leaf, but for the findings,
\* the least severe of a leaf first, that the aggregate budget takes.
THEOREM NothingIsLost == Spec => []NothingLost
<1>1. RunnerInv => NothingLost
  <2> SUFFICES ASSUME RunnerInv
               PROVE  NothingLost
    OBVIOUS
  <2>1. pools <= 1
    BY DEF RunnerInv, PoolInv
  <2>2. LoopDrains
    <3> SUFFICES ASSUME state = "merge_specialist_outputs", Len(loop_iters) = Len(batches)
                 PROVE  LoopDrained
      BY DEF RunnerInv, IterationInv, LoopDrains
    <3>1. DOMAIN loop_iters = DOMAIN batches
      BY DEF RunnerInv, FsmInv, FsmTypeInv, DispatchType
    <3>2. \A i \in DOMAIN batches : DOMAIN loop_iters[i] = batches[i]
      BY <3>1 DEF RunnerInv, IterationInv
    <3>3. QED
      BY <3>1, <3>2 DEF LoopDrained, Planned, Committed
  <2>3. ASSUME state \in Merged, pools = 1
        PROVE  /\ DOMAIN merged = picked
               /\ IF unit_results \in Oversized THEN merged \in Trimmings(unit_results)
                  ELSE merged = unit_results
    <3>1. merged \in WithinBudget(unit_results) /\ DOMAIN unit_results = picked
      BY <2>3 DEF RunnerInv, MergedInv, PoolInv
    <3>2. DOMAIN merged = picked
      BY <3>1, WithinBudgetKeepsLeaves
    <3>3. QED
      BY <3>1, <3>2 DEF WithinBudget
  <2>4. QED
    BY <2>1, <2>2, <2>3 DEF NothingLost
<1>2. QED
  BY <1>1, InitRunnerInv, NextRunnerInv, PTL DEF Spec

\* _coverage_floor: however the trim answers, a review that goes on has a
\* picked leaf, and no GO or NO-GO but the short circuit's comes without a
\* pool run.
THEOREM FloorIsHeld == Spec => []FloorHolds
<1>1. RunnerInv => FloorHolds
  BY DEF RunnerInv, FloorInv, PoolInv, PastTrim, PastTools, PastPlan, FloorHolds
<1>2. QED
  BY <1>1, InitRunnerInv, NextRunnerInv, PTL DEF Spec

\* A GO at the end of run_review is the short circuit of a trivial diff, or
\* every changed file is credited to two reviewers and no gate fails.
THEOREM GoIsAlwaysEarned == Spec => []GoIsEarned
<1>1. RunnerInv => GoIsEarned
  BY GoEarned DEF RunnerInv
<1>2. QED
  BY <1>1, InitRunnerInv, NextRunnerInv, PTL DEF Spec

\* run_review judges a run once, records the judgement once and returns only
\* a recorded verdict: it implements ReviewLifecycle.
THEOREM RunnerImplementsLifecycle == Spec => ImplementsLifecycle
<1>1. RunnerInit => Lifecycle!Init
  BY DEF RunnerInit, Init, Lifecycle!Init
<1>2. RunnerInv /\ [Next]_vars => [Lifecycle!Next]_Lifecycle!vars
  <2> SUFFICES ASSUME RunnerInv, [Next]_vars
               PROVE  [Lifecycle!Next]_Lifecycle!vars
    OBVIOUS
  <2> USE DEF Lifecycle!vars
  <2>1. CASE FsmStep /\ outcome = "running" /\ UNCHANGED outcome
    <3>1. CASE UNCHANGED <<verdict, manifests>>
      BY <2>1, <3>1
    <3>2. CASE /\ verdict = "none" /\ manifests = <<>>
               /\ verdict' \in {"GO", "CONDITIONAL", "NO-GO"} /\ UNCHANGED manifests
      <4>1. Lifecycle!Judge(verdict')
        BY <2>1, <3>2 DEF Lifecycle!Judge
      <4>2. QED
        BY <3>2, <4>1 DEF Lifecycle!Next
    <3>3. CASE /\ verdict # "none" /\ manifests = <<>> /\ UNCHANGED verdict
               /\ manifests' # <<>> /\ manifests'[Len(manifests')].verdict = verdict
      <4>1. Lifecycle!Record
        BY <2>1, <3>3 DEF Lifecycle!Record
      <4>2. QED
        BY <4>1 DEF Lifecycle!Next
    <3>4. QED
      BY <2>1, <3>1, <3>2, <3>3, JudgedThenRecorded DEF RunnerInv
  <2>2. CASE /\ UNCHANGED fsmVars /\ outcome = "running"
             /\ outcome' \in {"faulted", "raised", "max_steps_exceeded"}
    <3>1. Lifecycle!Break
      BY <2>2 DEF fsmVars, verdictVars, Lifecycle!Break
    <3>2. QED
      BY <3>1 DEF Lifecycle!Next
  <2>3. CASE UNCHANGED fsmVars /\ outcome = "running" /\ state = "terminal" /\ outcome' = "returned"
    <3>1. manifests # <<>>
      BY <2>3 DEF RunnerInv, FsmInv, ReportInv, PastManifest
    <3>2. Lifecycle!Deliver
      BY <2>3, <3>1 DEF fsmVars, verdictVars, Lifecycle!Deliver
    <3>3. QED
      BY <3>2 DEF Lifecycle!Next
  <2>4. CASE UNCHANGED <<fsmVars, outcome>>
    BY <2>4 DEF fsmVars, verdictVars
  <2>5. QED
    BY <2>1, <2>2, <2>3, <2>4, OutcomeKinds
<1>3. QED
  BY <1>1, <1>2, InitRunnerInv, NextRunnerInv, PTL
  DEF Spec, ImplementsLifecycle, Lifecycle!Spec

-----------------------------------------------------------------------------
(* The agent and the panel: the invariant.                                 *)

\* The invariant of the FSM, the panel's tally, and that only a run at
\* terminal has finished.
OrchestratorInv ==
  /\ FsmInv
  /\ panel \in BOOLEAN
  /\ fate \in {"running", "finished", "faulted"}
  /\ fate = "finished" => state = "terminal"

-----------------------------------------------------------------------------
(* The panel.                                                              *)

\* A slot counts as "passed" exactly when its dispatcher did return a vote
\* that says so: one that does not parse or an exception never does.
LEMMA PassedSlots ==
  ASSUME NEW raw \in [1..ParallelCount -> RawVotes]
  PROVE  CountOf(Votes(raw), {"passed"}) = CountOf(raw, {"passed", "passed_without_reason"})
<1>1. \A slot \in 1..ParallelCount :
        Votes(raw)[slot] \in {"passed"} <=> raw[slot] \in {"passed", "passed_without_reason"}
  BY DEF Votes, ParseVote
<1>2. DOMAIN Votes(raw) = 1..ParallelCount /\ DOMAIN raw = 1..ParallelCount
  BY DEF Votes
<1>3. {slot \in DOMAIN Votes(raw) : Votes(raw)[slot] \in {"passed"}}
        = {slot \in DOMAIN raw : raw[slot] \in {"passed", "passed_without_reason"}}
  BY <1>1, <1>2
<1>4. QED
  BY <1>3 DEF CountOf

\* When the engine accepts, a majority of the voters did say "passed".
LEMMA PanelsFailClosed ==
  /\ \A tally \in AcceptedPanels \cup RejectedPanels : tally \in BOOLEAN
  /\ \A tally \in AcceptedPanels : tally
<1>1. \A raw : Tally(raw) \in BOOLEAN
  BY DEF Tally, Majority
<1>2. ASSUME NEW tally \in AcceptedPanels
      PROVE  tally
  <2>1. PICK raw \in [1..ParallelCount -> RawVotes] : Accepts(raw) /\ tally = Tally(raw)
    BY <1>2 DEF AcceptedPanels, Panels
  <2>2. Majority(raw, {"passed", "passed_without_reason"})
    BY <2>1, PassedSlots DEF Accepts, Majority
  <2>3. QED
    BY <2>1, <2>2 DEF Tally
<1>3. QED
  BY <1>1, <1>2 DEF AcceptedPanels, RejectedPanels, Panels

-----------------------------------------------------------------------------
(* The steps of the agent's run.                                           *)

\* What the agent commits is a step of the FSM.
LEMMA AcceptedIsFsmStep ==
  ASSUME FsmInv, CommitAccepted
  PROVE  FsmStep
<1>1. tier \in Tiers \cup {"none", "cheap"}
  BY DEF FsmInv, FsmTypeInv, RoutingType
<1>2. \A rescues \in Rescues : rescues \in SUBSET (Leaves \X Files)
  BY ScopeAssumption
<1>3. WorkerCommit
  BY <1>1, <1>2 DEF CommitAccepted, WorkerCommit
<1>4. QED
  BY <1>3 DEF FsmStep

\* An iteration commits outputs of leaves, whichever of them the agent has.
LEMMA LoopIsFsmStep ==
  ASSUME FsmInv, CommitLoop
  PROVE  FsmStep
<1>1. PICK b \in DOMAIN batches, loop_done \in BOOLEAN :
        \E units \in SUBSET batches[b] :
          \E payload \in [units -> Outputs] : CommitIteration(payload, loop_done)
  BY DEF CommitLoop
<1>2. PICK units \in SUBSET batches[b] :
        \E payload \in [units -> Outputs] : CommitIteration(payload, loop_done)
  BY <1>1
<1>3. PICK payload \in [units -> Outputs] : CommitIteration(payload, loop_done)
  BY <1>2
<1>4. units \subseteq Leaves
  BY <1>1, <1>2 DEF FsmInv, FsmTypeInv, DispatchType
<1>5. payload \in Payloads
  BY <1>3, <1>4 DEF Payloads
<1>6. QED
  BY <1>1, <1>3, <1>5 DEF FsmStep, LoopCommit

\* A rejected commit moves only the count of its state, and stays below the
\* limit before it.
LEMMA RejectedKeepsFsmInv ==
  ASSUME FsmInv, CommitRejected
  PROVE  FsmInv'
<1> USE DEF CommitRejected, FsmInv, routingVars, dispatchVars, verdictVars
<1>1. rejections' \in [WorkerStates \cup {LoopState} -> 0..RejectionLimit]
  BY BoundsAssumption DEF FsmTypeInv, RunType
<1>2. KeysType'
  <2>1. Provides["verifier_stuck"] = ExitProvides["verifier_stuck"]
    BY DeclarationsAt, ReadsDomains
  <2>2. "verifier_rejection_counts" \in Provides["verifier_stuck"]
    BY <2>1 DEF ExitProvides
  <2>3. QED
    BY <2>2 DEF FsmTypeInv, KeysType, States, InlineStates
<1>3. FsmTypeInv'
  BY <1>1, <1>2 DEF FsmTypeInv, RoutingType, DispatchType, VerdictType, RunType
<1>4. KeysInv'
  BY DEF KeysInv
<1>5. ImpasseInv'
  BY DEF ImpasseInv, FsmTypeInv, RunType, WorkerStates, LoopState
<1>6. ReportInv'
  BY DEF ReportInv
<1>7. ReviewInv'
  <2>1. Planned' = Planned /\ Uncovered' = Uncovered /\ Earned' = Earned
    BY DEF Planned, Uncovered, Gap, Earned, Credited, GateFails
  <2>2. QED
    BY <2>1 DEF ReviewInv
<1>8. QED
  BY <1>3, <1>4, <1>5, <1>6, <1>7

\* The agent gives up only a worker at the limit.
LEMMA StuckKeepsFsmInv ==
  ASSUME FsmInv, DriveStuck
  PROVE  FsmInv'
<1> USE DEF DriveStuck, FsmInv, routingVars, dispatchVars, verdictVars, orchestratorVars
<1>1. FsmTypeInv'
  BY DEF FsmTypeInv, RoutingType, DispatchType, VerdictType, RunType, KeysType, States, InlineStates
<1>2. KeysInv'
  BY DEF KeysInv, PastScan, PastTriage, PastActivate, PastDescend, PastTrim, PastTools, PastPlan,
         PastMerge, PastCollect, LoopState
<1>3. ImpasseInv'
  BY DEF ImpasseInv
<1>4. ReportInv'
  BY DEF ReportInv, PastVerdict, PastManifest, WorkerStates
<1>5. ReviewInv'
  BY DEF ReviewInv, PastPlan, PastMerge, PastCollect, PastVerdict, PastManifest, LoopState
<1>6. QED
  BY <1>1, <1>2, <1>3, <1>4, <1>5

\* Every step of the run, by what it does to the FSM.
LEMMA AgentNextKinds ==
  ASSUME OrchestratorInv, [AgentNext]_agentVars
  PROVE  \/ FsmStep /\ Running /\ UNCHANGED fate /\ (CommitAccepted \/ state \notin WorkerStates)
         \/ CommitRejected
         \/ DriveStuck
         \/ UNCHANGED <<fsmVars, panel>>
            /\ (HandlerRaises \/ PanelRaises \/ Finish \/ UNCHANGED fate)
<1> USE DEF OrchestratorInv
<1>1. CASE CommitAccepted
  BY <1>1, AcceptedIsFsmStep DEF CommitAccepted
<1>2. CASE CommitLoop
  BY <1>2, LoopIsFsmStep DEF CommitLoop, CommitIteration, LoopState, WorkerStates
<1>3. CASE RunInline
  <2>1. state \notin WorkerStates
    BY <1>3 DEF RunInline, InlineHandler, RiskTierTriage, ActivateLeaves, PlanSpecialistBatches,
                CollectFindings, MergeSpecialistOutputs, VerifyCoverage, SynthesizeReleaseReadiness,
                ShortCircuitExit, StageAEmpty, VerifierStuck, WriteRunDirectory, EmitStdout,
                WorkerStates
  <2>2. QED
    BY <1>3, <2>1 DEF RunInline, FsmStep
<1>4. CASE HandlerRaises \/ PanelRaises \/ Finish
  BY <1>4 DEF HandlerRaises, PanelRaises, Finish
<1>5. CASE Stopped \/ UNCHANGED agentVars
  BY <1>5 DEF Stopped, agentVars, orchestratorVars
<1>6. QED
  BY <1>1, <1>2, <1>3, <1>4, <1>5 DEF AgentNext

LEMMA InitOrchestratorInv ==
  ASSUME OrchestratorInit
  PROVE  OrchestratorInv
BY InitFsmInv DEF OrchestratorInit, OrchestratorInv, NoPanel

LEMMA NextOrchestratorInv ==
  ASSUME OrchestratorInv, [AgentNext]_agentVars
  PROVE  OrchestratorInv'
<1> USE DEF OrchestratorInv
<1>1. FsmInv'
  BY AgentNextKinds, StepFsmInv, RejectedKeepsFsmInv, StuckKeepsFsmInv, FsmStandsStill
<1>2. panel' \in BOOLEAN
  <2>1. panel' \in {panel, NoPanel} \cup AcceptedPanels \cup RejectedPanels
    BY DEF AgentNext, agentVars, orchestratorVars, CommitAccepted, CommitRejected, DriveStuck,
           CommitLoop, RunInline, HandlerRaises, PanelRaises, Finish, Stopped
  <2>2. NoPanel \in BOOLEAN
    BY DEF NoPanel
  <2>3. QED
    BY <2>1, <2>2, PanelsFailClosed
<1>3. fate' \in {"running", "finished", "faulted"} /\ (fate' = "finished" => state' = "terminal")
  BY AgentNextKinds DEF Running, CommitRejected, DriveStuck, HandlerRaises, PanelRaises, Finish, orchestratorVars,
                   fsmVars
<1>4. QED
  BY <1>1, <1>2, <1>3

-----------------------------------------------------------------------------
(* The theorems on the agent's run.                                        *)

\* The engine's run and the panel's tally stay in their ranges (OrchestratorTypeOK).
THEOREM OrchestratorTypes == AgentSpec => []OrchestratorTypeOK
<1>1. OrchestratorInv => OrchestratorTypeOK
  BY FsmTypes DEF OrchestratorInv, OrchestratorTypeOK
<1>2. QED
  BY <1>1, InitOrchestratorInv, NextOrchestratorInv, PTL DEF AgentSpec

\* The majority of the panel cannot be bypassed: whatever the dispatchers
\* return or raise, no step takes a run out of a worker state, but into
\* verifier_stuck, unless two of the three did answer "passed", with a
\* reason or without.
THEOREM PanelFailsClosed == AgentSpec => FailClosed
<1>1. OrchestratorInv /\ [AgentNext]_agentVars =>
        [(state \in WorkerStates /\ state' \notin {state, "verifier_stuck"}) => panel']_agentVars
  <2> SUFFICES ASSUME OrchestratorInv, [AgentNext]_agentVars, state \in WorkerStates,
                      state' \notin {state, "verifier_stuck"}
               PROVE  panel'
    OBVIOUS
  <2>1. CommitAccepted
    BY AgentNextKinds DEF CommitRejected, DriveStuck, fsmVars
  <2>2. QED
    BY <2>1, PanelsFailClosed DEF CommitAccepted
<1>2. QED
  BY <1>1, InitOrchestratorInv, NextOrchestratorInv, PTL DEF AgentSpec, FailClosed

\* merge_specialist_outputs lets no run past it in which a picked leaf has
\* no output, however the agent left the loop.
THEOREM NoLeafLost == AgentSpec => []NoLeafDisappears
<1>1. OrchestratorInv => NoLeafDisappears
  BY DEF OrchestratorInv, FsmInv, ReviewInv, PastMerge, PastCollect, NoLeafDisappears
<1>2. QED
  BY <1>1, InitOrchestratorInv, NextOrchestratorInv, PTL DEF AgentSpec

\* A run reaches verifier_stuck only with a state at the rejection limit, and
\* the verdict without an impasse only with every picked leaf merged, the
\* coverage checked and every state below the limit.
THEOREM ImpasseEarned == AgentSpec => []ImpasseIsEarned
<1>1. OrchestratorInv => ImpasseIsEarned
  BY DEF OrchestratorInv, FsmInv, ReviewInv, ImpasseInv, WorkerStates, Uncovered, ImpasseIsEarned
<1>2. QED
  BY <1>1, InitOrchestratorInv, NextOrchestratorInv, PTL DEF AgentSpec

\* Every state finds in env the keys spec.py says it reads, with the one
\* exception InputsPresent names.
THEOREM InputsArePresent == AgentSpec => []InputsPresent
<1>1. OrchestratorInv => InputsPresent
  BY InputsThere DEF OrchestratorInv
<1>2. QED
  BY <1>1, InitOrchestratorInv, NextOrchestratorInv, PTL DEF AgentSpec

\* The agent's run is judged once, recorded once and delivered only when
\* recorded: it implements ReviewLifecycle.
THEOREM OrchestratorImplementsLifecycle == AgentSpec => AgentImplementsLifecycle
<1>1. OrchestratorInit => AgentLifecycle!Init
  BY DEF OrchestratorInit, Init, AgentLifecycle!Init
<1>2. OrchestratorInv /\ [AgentNext]_agentVars => [AgentLifecycle!Next]_AgentLifecycle!vars
  <2> SUFFICES ASSUME OrchestratorInv, [AgentNext]_agentVars
               PROVE  [AgentLifecycle!Next]_AgentLifecycle!vars
    OBVIOUS
  <2> USE DEF AgentLifecycle!vars
  <2>1. CASE FsmStep /\ Running /\ UNCHANGED fate
    <3>1. CASE UNCHANGED <<verdict, manifests>>
      BY <2>1, <3>1
    <3>2. CASE /\ verdict = "none" /\ manifests = <<>>
               /\ verdict' \in {"GO", "CONDITIONAL", "NO-GO"} /\ UNCHANGED manifests
      <4>1. AgentLifecycle!Judge(verdict')
        BY <2>1, <3>2 DEF Running, AgentLifecycle!Judge
      <4>2. QED
        BY <3>2, <4>1 DEF AgentLifecycle!Next
    <3>3. CASE /\ verdict # "none" /\ manifests = <<>> /\ UNCHANGED verdict
               /\ manifests' # <<>> /\ manifests'[Len(manifests')].verdict = verdict
      <4>1. AgentLifecycle!Record
        BY <2>1, <3>3 DEF Running, AgentLifecycle!Record
      <4>2. QED
        BY <4>1 DEF AgentLifecycle!Next
    <3>4. QED
      BY <2>1, <3>1, <3>2, <3>3, JudgedThenRecorded DEF OrchestratorInv
  <2>2. CASE CommitRejected \/ DriveStuck
    BY <2>2 DEF CommitRejected, DriveStuck, verdictVars, orchestratorVars
  <2>3. CASE UNCHANGED <<fsmVars, panel>> /\ (HandlerRaises \/ PanelRaises)
    <3>1. AgentLifecycle!Break
      BY <2>3 DEF HandlerRaises, PanelRaises, OrchestratorInv, Running, fsmVars, verdictVars, AgentLifecycle!Break
    <3>2. QED
      BY <3>1 DEF AgentLifecycle!Next
  <2>4. CASE UNCHANGED <<fsmVars, panel>> /\ Finish
    <3>1. manifests # <<>>
      BY <2>4 DEF Finish, OrchestratorInv, FsmInv, ReportInv, PastManifest
    <3>2. AgentLifecycle!Deliver
      BY <2>4, <3>1 DEF Finish, Running, fsmVars, verdictVars, AgentLifecycle!Deliver
    <3>3. QED
      BY <3>2 DEF AgentLifecycle!Next
  <2>5. CASE UNCHANGED <<fsmVars, panel>> /\ UNCHANGED fate
    BY <2>5 DEF fsmVars, verdictVars
  <2>6. QED
    BY <2>1, <2>2, <2>3, <2>4, <2>5, AgentNextKinds
<1>3. QED
  BY <1>1, <1>2, InitOrchestratorInv, NextOrchestratorInv, PTL
  DEF AgentSpec, AgentImplementsLifecycle, AgentLifecycle!Spec
=============================================================================
