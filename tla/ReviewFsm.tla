------------------------------ MODULE ReviewFsm ------------------------------
(***************************************************************************)
(* The code-reviewer FSM of code_review/spec.py with what its handlers     *)
(* (code_review/handlers.py) write into the run's env.  There is one       *)
(* operator per state: the outputs it commits and the transition it takes. *)
(* Who calls them, and in which circumstances, is the business of the two  *)
(* drivers: ReviewRunner (run_review) and ReviewOrchestrator (the agent    *)
(* that commits through the engine and its verifier panel).                *)
(*                                                                         *)
(* A leaf stands for a reviewer and for its only unit; several units of a  *)
(* leaf and the order inside a batch are the subject of BatchPlan.  A      *)
(* finding is its file, the leaves that raised it and whether it blocks    *)
(* (critical or important); how duplicates are found is the subject of     *)
(* FindingCollector, here any of a file's may be one.                      *)
(***************************************************************************)
EXTENDS Naturals, Sequences, FiniteSets, FsmEnv

CONSTANTS
  Leaves,         \* the reviewers of the corpus
  Files,          \* the changed files
  Scope,          \* the files each leaf's globs match
  Rescues,        \* the coverage_rescues the trim may answer with
  Grades,         \* the severities the specialists' findings may have, a bound
  Oversized,      \* the outputs of specialists, by leaf, that take more than
                  \* _AGGREGATE_OUTPUT_BUDGET_BYTES
  Gated,          \* the leaves some release-readiness gate matches
  BatchSize,      \* _TIER_BATCH_SIZE
  DefaultBatch,   \* the batch size for a tier that is not in it
  MaxIterations,  \* max_iterations of the loop state
  RejectionLimit  \* _VERIFIER_REJECTION_LIMIT

Tiers == {"trivial", "lite", "full", "sensitive"}

ASSUME LeavesAssumption == IsFiniteSet(Leaves) /\ IsFiniteSet(Files)
ASSUME ScopeAssumption ==
  /\ Scope \in [Leaves -> SUBSET Files] /\ Gated \subseteq Leaves
  /\ Rescues \subseteq SUBSET (Leaves \X Files)
ASSUME GradesAssumption == Grades \subseteq {"minor", "blocking"}
ASSUME BatchAssumption == BatchSize \in [Tiers -> Nat \ {0}] /\ DefaultBatch \in Nat \ {0}
ASSUME BoundsAssumption == MaxIterations \in Nat \ {0} /\ RejectionLimit \in Nat \ {0}

VARIABLES
  state,       \* the current FSM state
  tier,        \* env["tier"]
  triaged,     \* the tier risk_tier_triage decided
  activated, picked,  \* the leaves after each routing stage
  coverage_rescues,  \* the leaves the trim names for a file, as pairs
  batches,     \* env["specialist_batches"], a sequence of sets of leaves
  loop_iters,  \* env["loop_iters"]: per committed iteration, the outputs it carries
  merged,      \* env["specialist_outputs"], by leaf
  findings,    \* env["findings"]
  coverage_rule_violated, degraded_run,
  rejections,  \* env["verifier_rejection_counts"]
  verdict,
  manifests,   \* the manifests write_run_directory has written
  env_keys     \* the keys env has

routingVars == <<tier, triaged, activated, picked, coverage_rescues>>
dispatchVars == <<batches, loop_iters, merged>>
verdictVars == <<coverage_rule_violated, degraded_run, verdict>>
fsmVars == <<state, routingVars, dispatchVars, findings, verdictVars, rejections, manifests, env_keys>>

-----------------------------------------------------------------------------
WorkerStates ==
  {"scan_project", "tree_descend", "llm_trim", "tool_discovery", "rank_findings"}
LoopState == "dispatch_specialists"
InlineStates ==
  {"risk_tier_triage", "activate_leaves", "plan_specialist_batches", "merge_specialist_outputs",
   "collect_findings", "verify_coverage", "synthesize_release_readiness", "write_run_directory",
   "emit_stdout", "short_circuit_exit", "stage_a_empty", "verifier_stuck"}
States == WorkerStates \cup InlineStates \cup {LoopState, "terminal"}

\* What a specialist hands back: its status and the severities its findings
\* have in each file.  Nothing here tells "skipped" from "failed".
Severities == {"minor", "blocking"}
Outputs == [status : {"completed"}, raised : [Files -> SUBSET Grades]]
             \cup [status : {"failed"}, raised : [Files -> {{}}]]
Findings == [file : Files, flagged_by : (SUBSET Leaves) \ {{}}, severity : Severities]
Verdicts == {"GO", "CONDITIONAL", "NO-GO"}

Init ==
  /\ state = "scan_project"
  /\ tier = "none" /\ triaged = "none"
  /\ activated = {} /\ picked = {} /\ coverage_rescues = {}
  /\ batches = <<>> /\ loop_iters = <<>> /\ merged = <<>>
  /\ findings = {}
  /\ coverage_rule_violated = FALSE /\ degraded_run = FALSE
  /\ rejections = [s \in WorkerStates \cup {LoopState} |-> 0]
  /\ verdict = "none"
  /\ manifests = <<>>
  /\ env_keys = {"args"}

\* Mutant: off by one.
RouteEarly(s, next) == IF rejections[s] + 1 >= RejectionLimit THEN "verifier_stuck" ELSE next

\* The first transition of every state with a worker: verifier_stuck once
\* its rejections are at the limit.
Route(s, next) == IF rejections[s] >= RejectionLimit THEN "verifier_stuck" ELSE next

\* The outputs of the state are laid over env.
CommitOutputs == env_keys' = env_keys \cup Provides[state]

-----------------------------------------------------------------------------
(* The worker states.  The model's answer is an input; stamp is the value  *)
(* env["tier"] has once the outputs are merged into env.                   *)

ScanProject(stamp) ==
  /\ state = "scan_project"
  /\ CommitOutputs
  /\ state' = Route(state, "risk_tier_triage")
  /\ tier' = stamp
  /\ UNCHANGED <<triaged, activated, picked, coverage_rescues, dispatchVars, findings, verdictVars,
                 rejections, manifests>>

\* Of the candidates only matters whether there are any: the trim may pick
\* any leaf.
TreeDescend(any_candidates, stamp) ==
  /\ state = "tree_descend"
  /\ CommitOutputs
  /\ state' = Route(state, IF any_candidates THEN "llm_trim" ELSE "stage_a_empty")
  /\ tier' = stamp
  /\ UNCHANGED <<triaged, activated, picked, coverage_rescues, dispatchVars, findings, verdictVars,
                 rejections, manifests>>

LlmTrim(answer, rescues, stamp) ==
  /\ state = "llm_trim"
  /\ CommitOutputs
  /\ picked' = answer /\ coverage_rescues' = rescues
  /\ state' = Route(state, "tool_discovery")
  /\ tier' = stamp
  /\ UNCHANGED <<triaged, activated, dispatchVars, findings, verdictVars, rejections,
                 manifests>>

ToolDiscovery(stamp) ==
  /\ state = "tool_discovery"
  /\ CommitOutputs
  /\ state' = Route(state, "plan_specialist_batches")
  /\ tier' = stamp
  /\ UNCHANGED <<triaged, activated, picked, coverage_rescues, dispatchVars, findings, verdictVars,
                 rejections, manifests>>

\* The ranker may drop findings and adds none.
RankFindings(kept, stamp) ==
  /\ state = "rank_findings"
  /\ CommitOutputs
  /\ findings' = kept
  /\ state' = Route(state, "verify_coverage")
  /\ tier' = stamp
  /\ UNCHANGED <<triaged, activated, picked, coverage_rescues, dispatchVars, verdictVars, rejections,
                 manifests>>

-----------------------------------------------------------------------------
(* The inline states on the way to the dispatch.                           *)

\* The tier depends on the diff; risk signals are present exactly when it is
\* "sensitive".
RiskTierTriage(decided, scope_overrides_present) ==
  /\ state = "risk_tier_triage"
  /\ CommitOutputs
  /\ tier' = decided /\ triaged' = decided
  /\ state' = IF decided = "trivial" /\ ~scope_overrides_present
              THEN "short_circuit_exit" ELSE "activate_leaves"
  /\ UNCHANGED <<activated, picked, coverage_rescues, dispatchVars, findings, verdictVars,
                 rejections, manifests>>

ActivateLeaves(matching) ==
  /\ state = "activate_leaves"
  /\ CommitOutputs
  /\ activated' = matching
  /\ state' = IF matching = {} THEN "stage_a_empty" ELSE "tree_descend"
  /\ UNCHANGED <<tier, triaged, picked, coverage_rescues, dispatchVars, findings,
                 verdictVars, rejections, manifests>>

SizeFor(t) == IF t \in Tiers THEN BatchSize[t] ELSE DefaultBatch

\* The orders in which the leaves of a set can be listed.
Orders(S) ==
  {order \in [1..Cardinality(S) -> S] : \A i, j \in DOMAIN order : order[i] = order[j] => i = j}

\* The listed leaves packed into batches of the given size.
Packed(order, size) ==
  [b \in 1..((Len(order) + size - 1) \div size) |->
     {order[i] : i \in {k \in DOMAIN order : (k - 1) \div size = b - 1}}]

PlanSpecialistBatches(order) ==
  /\ state = "plan_specialist_batches"
  /\ CommitOutputs
  /\ batches' = Packed(order, SizeFor(tier))
  /\ state' = IF batches' = <<>> THEN "merge_specialist_outputs" ELSE LoopState
  /\ UNCHANGED <<routingVars, loop_iters, merged, findings, verdictVars, rejections, manifests>>

-----------------------------------------------------------------------------
(* The loop over the batches and the merge of its iterations.              *)

\* One iteration commits its outputs; the engine leaves the loop when they
\* say so or at the cap.
CommitIteration(payload, loop_done) ==
  /\ state = LoopState
  /\ CommitOutputs
  /\ loop_iters' = Append(loop_iters, payload)
  /\ state' = IF loop_done \/ Len(loop_iters') >= MaxIterations
              THEN Route(state, "merge_specialist_outputs") ELSE state
  /\ UNCHANGED <<routingVars, batches, merged, findings, verdictVars, rejections, manifests>>

Planned == UNION {batches[b] : b \in DOMAIN batches}
Committed == UNION {DOMAIN loop_iters[i] : i \in DOMAIN loop_iters}

\* The last iteration that carries an output of the leaf.
LastIteration(leaf) ==
  CHOOSE i \in DOMAIN loop_iters :
    /\ leaf \in DOMAIN loop_iters[i]
    /\ \A j \in DOMAIN loop_iters : leaf \in DOMAIN loop_iters[j] => j <= i

\* A planned unit without an output raises DispatchLoopExitedEarlyError.
LoopDrained == Planned \subseteq Committed

\* The outputs the loop's iterations come to.
Folded == [leaf \in Committed |-> loop_iters[LastIteration(leaf)][leaf]]

\* What _trim_lowest_priority_unit, called over and over, can make of the
\* outputs: no leaf goes, and of a leaf's own findings the least severe go
\* first.  Which leaf and how many depends on sizes (see BatchPlan).
Trimmings(outputs) ==
  {kept \in [DOMAIN outputs -> Outputs] :
     \A leaf \in DOMAIN outputs :
       /\ kept[leaf].status = outputs[leaf].status
       /\ \A file \in Files : kept[leaf].raised[file] \subseteq outputs[leaf].raised[file]
       /\ (\E file \in Files : "blocking" \in outputs[leaf].raised[file] \ kept[leaf].raised[file])
            => \A file \in Files : "minor" \notin kept[leaf].raised[file]}

\* The aggregate-size guard.
WithinBudget(outputs) == IF outputs \in Oversized THEN Trimmings(outputs) ELSE {outputs}

\* Mutant: the drained check dropped.
MergeUnchecked ==
  /\ state = "merge_specialist_outputs"
  /\ CommitOutputs
  /\ merged' \in WithinBudget(Folded)
  /\ state' = "collect_findings"
  /\ UNCHANGED <<routingVars, batches, loop_iters, findings, verdictVars, rejections, manifests>>

MergeSpecialistOutputs ==
  /\ state = "merge_specialist_outputs"
  /\ CommitOutputs
  /\ LoopDrained
  /\ merged' \in WithinBudget(Folded)
  /\ state' = "collect_findings"
  /\ UNCHANGED <<routingVars, batches, loop_iters, findings, verdictVars, rejections, manifests>>

-----------------------------------------------------------------------------
(* From the merged outputs to the verdict.                                 *)

LeafPartitions ==
  {P \in SUBSET ((SUBSET Leaves) \ {{}}) :
     UNION P = Leaves /\ \A g, h \in P : g = h \/ g \cap h = {}}

\* The findings of completed specialists, those of a file that are
\* duplicates merged: the leaves that raised them are united, and the
\* gravest stands for all.  duplicates[file] groups the leaves whose
\* findings in the file are one.
CollectFindings(duplicates) ==
  LET raisers(file, severities) ==
        {leaf \in DOMAIN merged :
           merged[leaf].status = "completed" /\ merged[leaf].raised[file] \cap severities # {}}
      groups(file, severities) == {g \in duplicates[file] : g \cap raisers(file, severities) # {}}
      blocking(file) == groups(file, {"blocking"})
  IN  /\ state = "collect_findings"
      /\ CommitOutputs
      /\ findings' = {f \in Findings :
           \E g \in groups(f.file, {"minor", "blocking"}) :
             /\ f.flagged_by = g \cap raisers(f.file, {"minor", "blocking"})
             /\ f.severity = IF g \in blocking(f.file) THEN "blocking" ELSE "minor"}
      /\ state' = "rank_findings"
      /\ UNCHANGED <<routingVars, dispatchVars, verdictVars, rejections, manifests>>

\* The reviewers a file is credited to: the leaves of its findings, the
\* picked leaves whose globs match it, and the rescued ones.
Credited(file) ==
  {leaf \in Leaves :
     \/ \E f \in findings : f.file = file /\ leaf \in f.flagged_by
     \/ leaf \in picked /\ file \in Scope[leaf]
     \/ <<leaf, file>> \in coverage_rescues}

\* Mutant: one reviewer is enough.
Gap1(file) == Cardinality(Credited(file)) < 1

Gap(file) == Cardinality(Credited(file)) < 2

VerifyCoverage ==
  /\ state = "verify_coverage"
  /\ CommitOutputs
  /\ coverage_rule_violated' = \E file \in Files : Gap(file)
  /\ state' = "synthesize_release_readiness"
  /\ UNCHANGED <<routingVars, dispatchVars, findings, degraded_run, verdict, rejections, manifests>>

\* A gate fails when a picked leaf it matches is among those that raised a
\* blocking finding.
GateFails ==
  \E f \in findings : f.severity = "blocking" /\ f.flagged_by \cap picked \cap Gated # {}

SynthesizeReleaseReadiness ==
  /\ state = "synthesize_release_readiness"
  /\ CommitOutputs
  /\ verdict' = IF GateFails \/ coverage_rule_violated THEN "NO-GO" ELSE "GO"
  /\ state' = "write_run_directory"
  /\ UNCHANGED <<routingVars, dispatchVars, findings, coverage_rule_violated, degraded_run,
                 rejections, manifests>>

ShortCircuitExit ==
  /\ state = "short_circuit_exit"
  /\ CommitOutputs
  /\ findings' = {} /\ verdict' = "GO"
  /\ state' = "write_run_directory"
  /\ UNCHANGED <<routingVars, dispatchVars, coverage_rule_violated, degraded_run, rejections,
                 manifests>>

\* Mutant: rejoins the normal path instead of going straight to the report.
StageAEmptyRejoins ==
  /\ state = "stage_a_empty"
  /\ CommitOutputs
  /\ findings' = {} /\ verdict' = "CONDITIONAL" /\ degraded_run' = TRUE
  /\ state' = "synthesize_release_readiness"
  /\ UNCHANGED <<routingVars, dispatchVars, coverage_rule_violated, rejections, manifests>>

StageAEmpty ==
  /\ state = "stage_a_empty"
  /\ CommitOutputs
  /\ findings' = {} /\ verdict' = "CONDITIONAL" /\ degraded_run' = TRUE
  /\ state' = "write_run_directory"
  /\ UNCHANGED <<routingVars, dispatchVars, coverage_rule_violated, rejections, manifests>>

\* Mutant: straight to the report, as the other two early exits.
VerifierStuckSkipsSynthesis ==
  /\ state = "verifier_stuck"
  /\ CommitOutputs
  /\ degraded_run' = TRUE
  /\ \E s \in DOMAIN rejections :
       /\ rejections[s] >= RejectionLimit
       /\ rejections' = [rejections EXCEPT ![s] = 0]
  /\ state' = "write_run_directory"
  /\ UNCHANGED <<routingVars, dispatchVars, findings, coverage_rule_violated, verdict, manifests>>

\* The impasse is recorded and the counter of the stuck state reset.
VerifierStuck ==
  /\ state = "verifier_stuck"
  /\ CommitOutputs
  /\ degraded_run' = TRUE
  /\ \E s \in DOMAIN rejections :
       /\ rejections[s] >= RejectionLimit
       /\ rejections' = [rejections EXCEPT ![s] = 0]
  /\ state' = "synthesize_release_readiness"
  /\ UNCHANGED <<routingVars, dispatchVars, findings, coverage_rule_violated, verdict, manifests>>

WriteRunDirectory ==
  /\ state = "write_run_directory"
  /\ CommitOutputs
  /\ manifests' = Append(manifests, [verdict |-> verdict, tier |-> tier, degraded_run |-> degraded_run])
  /\ state' = "emit_stdout"
  /\ UNCHANGED <<routingVars, dispatchVars, findings, verdictVars, rejections>>

EmitStdout ==
  /\ state = "emit_stdout"
  /\ CommitOutputs
  /\ state' = "terminal"
  /\ UNCHANGED <<routingVars, dispatchVars, findings, verdictVars, rejections, manifests>>

\* The handlers, each in its state, over every diff and corpus they can meet.
InlineHandler ==
  \/ \E t \in Tiers, overrides \in BOOLEAN : RiskTierTriage(t, overrides)
  \/ \E matching \in SUBSET Leaves : ActivateLeaves(matching)
  \/ \E order \in Orders(picked) : PlanSpecialistBatches(order)
  \/ \E duplicates \in [Files -> LeafPartitions] : CollectFindings(duplicates)
  \/ MergeSpecialistOutputs \/ VerifyCoverage
  \/ SynthesizeReleaseReadiness \/ ShortCircuitExit \/ StageAEmpty \/ VerifierStuck
  \/ WriteRunDirectory \/ EmitStdout

-----------------------------------------------------------------------------
\* Every variable of the run stays in the range spec.py and the handlers give it.
FsmTypeOK ==
  /\ state \in States
  /\ tier \in Tiers \cup {"none", "cheap"} /\ triaged \in Tiers \cup {"none"}
  /\ activated \subseteq Leaves /\ picked \subseteq Leaves
  /\ coverage_rescues \subseteq Leaves \X Files
  /\ \A b \in DOMAIN batches : batches[b] \subseteq Leaves
  /\ \A i \in DOMAIN loop_iters : loop_iters[i] \in [DOMAIN loop_iters[i] -> Outputs]
  /\ merged \in [DOMAIN merged -> Outputs] /\ DOMAIN merged \subseteq Leaves
  /\ findings \subseteq Findings
  /\ coverage_rule_violated \in BOOLEAN /\ degraded_run \in BOOLEAN
  /\ rejections \in [WorkerStates \cup {LoopState} -> 0..RejectionLimit]
  /\ verdict \in Verdicts \cup {"none"}
  /\ env_keys \subseteq UNION {Reads[s] \cup Provides[s] : s \in States}

\* Whatever detour a run takes, each state finds in env what spec.py says it
\* counts on; only the impasse, which breaks off wherever it happens, brings
\* synthesize_release_readiness to a run without findings or picked leaves.
InputsPresent ==
  \/ Reads[state] \subseteq env_keys
  \/ state = "synthesize_release_readiness" /\ "verifier_stuck" \in env_keys

\* GO without an impasse is earned: the short circuit took a trivial diff, or
\* each changed file is credited to two reviewers and no finding blocks a
\* gate that a picked leaf contributes to.
GoIsEarned ==
  state = "terminal" /\ verdict = "GO" /\ ~degraded_run =>
    \/ triaged = "trivial" /\ activated = {}
    \/ /\ \A file \in Files : Cardinality(Credited(file)) >= 2
       /\ ~GateFails
=============================================================================
