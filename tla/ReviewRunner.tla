----------------------------- MODULE ReviewRunner -----------------------------
(***************************************************************************)
(* run_review of code_review/runner.py: the programmatic driver of the FSM *)
(* of ReviewFsm, with its worker retries (_call_worker_resilient), its     *)
(* degradable workers, its coverage floor and its one run of the           *)
(* specialist pool (module SpecialistPool).  No verifier panel takes part. *)
(*                                                                         *)
(* An iteration of the for loop is one step, except that each failed       *)
(* attempt at a worker call is a step of its own.                          *)
(***************************************************************************)
EXTENDS ReviewFsm

CONSTANTS
  Cap,         \* env["cap"], the tier's limit on the picked leaves
  MaxRetries,  \* max_retries
  MaxSteps     \* _MAX_STEPS

ASSUME RunnerAssumption == Cap \in Nat \ {0} /\ MaxRetries \in Nat /\ MaxSteps \in Nat

VARIABLES
  steps,         \* iterations of the for loop
  attempt,       \* failed attempts at the current worker call
  iteration_n,   \* the loop iteration, 0 for None
  pools,         \* how often the specialist pool was run
  unit_results,  \* what it returned, by leaf
  outcome        \* "running", or how run_review ended

runnerVars == <<steps, attempt, iteration_n, pools, unit_results, outcome>>
vars == <<fsmVars, runnerVars>>

RunnerInit ==
  /\ Init
  /\ steps = 0 /\ attempt = 0 /\ iteration_n = 0
  /\ pools = 0 /\ unit_results = <<>>
  /\ outcome = "running"

\* One more iteration of the for loop.
Step ==
  /\ outcome = "running" /\ steps < MaxSteps
  /\ steps' = steps + 1

-----------------------------------------------------------------------------
(* Worker states.                                                          *)

\* Mutant: the floor gone.
NoFloor(answer) == {answer}

\* What _coverage_floor makes of the trim answer: an empty one is replaced by
\* the cap best of the activated leaves, if there are any.
Floored(answer) ==
  IF answer # {} \/ activated = {} THEN {answer}
  ELSE {top \in SUBSET activated :
          Cardinality(top) = IF Cardinality(activated) <= Cap THEN Cardinality(activated) ELSE Cap}

\* dispatch.py stamps the outputs of every worker call with the cost tier
\* "cheap", and env = {**env, **outputs} puts the stamp over env["tier"]; a
\* hook of the caller's own need not stamp.
Stamps == {"cheap", tier}

\* The call answers and the engine accepts the outputs.
WorkerAnswers ==
  /\ Step
  /\ \E stamp \in Stamps :
       \/ ScanProject(stamp)
       \/ \E any_candidates \in BOOLEAN : TreeDescend(any_candidates, stamp)
       \/ \E answer \in SUBSET Leaves, rescues \in Rescues : \E leaves \in Floored(answer) :
            LlmTrim(leaves, rescues, stamp)
       \/ ToolDiscovery(stamp)
       \/ \E kept \in SUBSET findings : RankFindings(kept, stamp)
  /\ attempt' = 0
  /\ UNCHANGED <<iteration_n, pools, unit_results, outcome>>

\* run_review ends; o says how.
End(o) ==
  /\ outcome' = o
  /\ UNCHANGED <<fsmVars, attempt, iteration_n, pools, unit_results>>

\* The outputs break the state's schema or a post-validation.
WorkerInvalid == state \in WorkerStates /\ Step /\ End("faulted")

\* An exception other than the two retried ones leaves run_review.
WorkerRaises == state \in WorkerStates /\ Step /\ End("raised")

\* Mutant: the attempts are counted from zero again after the last one.
WorkerRetriesForever ==
  /\ state \in WorkerStates /\ outcome = "running" /\ steps < MaxSteps
  /\ attempt' = IF attempt < MaxRetries THEN attempt + 1 ELSE 0
  /\ UNCHANGED <<fsmVars, steps, iteration_n, pools, unit_results, outcome>>

\* RateLimitError or ContextOverflowError with attempts left.
WorkerRetries ==
  /\ state \in WorkerStates /\ outcome = "running" /\ steps < MaxSteps
  /\ attempt < MaxRetries
  /\ attempt' = attempt + 1
  /\ UNCHANGED <<fsmVars, steps, iteration_n, pools, unit_results, outcome>>

\* The last attempt fails too: tool_discovery falls back to no results, which
\* carry no stamp; any other worker faults the run.
WorkerExhausted ==
  /\ attempt >= MaxRetries
  /\ Step
  /\ \/ /\ ToolDiscovery(tier)
        /\ attempt' = 0
        /\ UNCHANGED <<iteration_n, pools, unit_results, outcome>>
     \/ /\ state \in WorkerStates \ {"tool_discovery"}
        /\ End("faulted")

-----------------------------------------------------------------------------
(* The loop state.                                                         *)

\* All the units of all the batches go through the pool in the first
\* iteration; the others find unit_results filled.
PoolOnce(results) ==
  IF unit_results = <<>>
  THEN pools' = pools + 1 /\ unit_results' = results
  ELSE UNCHANGED <<pools, unit_results>>

LoopDone(batch_index) == batch_index = Len(batches)

\* One iteration commits the results of one batch.
LoopIteration ==
  LET batch_index == IF iteration_n = 0 THEN 1 ELSE iteration_n
  IN  /\ Step
      /\ state = LoopState
      /\ \E results \in [Planned -> Outputs] :
           /\ unit_results # <<>> => results = unit_results
           /\ PoolOnce(results)
      /\ CommitIteration([leaf \in batches[batch_index] |-> unit_results'[leaf]],
                         LoopDone(batch_index))
      /\ iteration_n' = IF state' = LoopState THEN batch_index + 1 ELSE 0
      /\ UNCHANGED <<attempt, outcome>>

-----------------------------------------------------------------------------
(* Inline states and the end.                                              *)

InlineStep ==
  /\ Step
  /\ InlineHandler
  /\ UNCHANGED <<attempt, iteration_n, pools, unit_results, outcome>>

\* A handler raises: the merge when the loop was left early, the write when
\* the disk fails.
InlineFaults ==
  /\ \/ state = "merge_specialist_outputs" /\ ~LoopDrained
     \/ state = "write_run_directory"
  /\ Step
  /\ End("faulted")

\* The terminal state: RunResult carries the verdict.
Return == state = "terminal" /\ Step /\ End("returned")

StepsExceeded ==
  /\ outcome = "running" /\ steps = MaxSteps
  /\ outcome' = "max_steps_exceeded"
  /\ UNCHANGED <<fsmVars, steps, attempt, iteration_n, pools, unit_results>>

Ended == outcome # "running" /\ UNCHANGED vars

Next ==
  \/ WorkerAnswers \/ WorkerInvalid \/ WorkerRaises \/ WorkerRetries \/ WorkerExhausted
  \/ LoopIteration \/ InlineStep \/ InlineFaults
  \/ Return \/ StepsExceeded \/ Ended

Spec == RunnerInit /\ [][Next]_vars

\* run_review is one thread that runs until it ends; every call it makes ends.
FairSpec == Spec /\ WF_vars(Next)

-----------------------------------------------------------------------------
\* The run's env and run_review's own variables stay in their ranges.
RunnerTypeOK ==
  /\ FsmTypeOK
  /\ steps \in 0..MaxSteps /\ attempt \in 0..MaxRetries /\ iteration_n \in 0..MaxIterations
  /\ pools \in Nat
  /\ unit_results \in [DOMAIN unit_results -> Outputs]
  /\ outcome \in {"running", "returned", "faulted", "raised", "max_steps_exceeded"}

\* The states after the merge.
Merged ==
  {"collect_findings", "rank_findings", "verify_coverage", "synthesize_release_readiness",
   "write_run_directory", "emit_stdout", "terminal"}

\* The loop runs one iteration for each batch and none less: run_review gets
\* to the merge with every batch committed, unless the engine's cap cut the
\* loop; DispatchLoopExitedEarlyError is never its own doing.
LoopDrains ==
  state = "merge_specialist_outputs" => LoopDrained \/ Len(loop_iters) >= MaxIterations

\* Every picked leaf is dispatched in exactly one pool run, and whatever the
\* batches and the iteration cap, a run that gets past the merge judges, for
\* each of them and for nothing else, the result the pool returned; only when
\* the results are above the aggregate budget it judges what the merge left
\* of them, and then each leaf has lost its least severe findings first.
NothingLost ==
  /\ pools <= 1
  /\ LoopDrains
  /\ state \in Merged /\ pools = 1 =>
       /\ DOMAIN merged = picked
       /\ IF unit_results \in Oversized THEN merged \in Trimmings(unit_results)
          ELSE merged = unit_results

\* A routing answer that is empty does not empty the review: past llm_trim
\* there is a picked leaf, and at the verdict a dispatched one.
FloorHolds ==
  /\ state \in {"tool_discovery", "plan_specialist_batches", LoopState} => picked # {}
  /\ verdict \in {"GO", "NO-GO"} /\ triaged # "trivial" => pools = 1

\* run_review keeps the promise of every driver.
Lifecycle ==
  INSTANCE ReviewLifecycle
  WITH phase <- IF manifests = <<>> THEN (IF verdict = "none" THEN "open" ELSE "judged")
                ELSE IF outcome = "returned" THEN "delivered" ELSE "recorded",
       recorded <- IF manifests = <<>> THEN "none" ELSE manifests[Len(manifests)].verdict,
       broken <- outcome \in {"faulted", "raised", "max_steps_exceeded"}
ImplementsLifecycle == Lifecycle!Spec

\* Every review ends, whatever the backends answer.
RunEnds == <>(outcome # "running")

\* What spec.py says of verify_coverage: a file reviewed by fewer than two
\* specialists is flagged; so a GO that is not a short circuit means every
\* file was reviewed by two specialists that completed.
GoMeansReviewed ==
  outcome = "returned" /\ verdict = "GO" /\ activated # {} =>
    \A file \in Files :
      Cardinality({leaf \in DOMAIN merged :
                     merged[leaf].status = "completed"
                     /\ (file \in Scope[leaf] \/ merged[leaf].raised[file] # {})}) >= 2

\* What dispatch.py says of the cost stamp: it never alters routing; so the
\* planner sees the tier the triage decided.
PlannerSeesTriagedTier == state = "plan_specialist_batches" => tier = triaged
=============================================================================
