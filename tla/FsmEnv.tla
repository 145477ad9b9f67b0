-------------------------------- MODULE FsmEnv --------------------------------
(***************************************************************************)
(* The data flow that code_review/spec.py declares: for every state, the   *)
(* keys of env it counts on (its preconditions of the form "k exists" or   *)
(* "k is an array", and its worker's inputs) and the keys its response     *)
(* schema obliges it to provide.  The engine keeps no such account; a      *)
(* handler reads a missing key as an empty default and goes on.            *)
(***************************************************************************)

\* The states from the scan to the tools.
RoutingReads ==
  [scan_project     |-> {"args"},
   risk_tier_triage |-> {"project_profile", "changed_paths", "diff_stats"},
   activate_leaves  |-> {"project_profile", "changed_paths"},
   tree_descend     |-> {"project_profile", "changed_paths", "tier", "activated_leaves"},
   llm_trim         |-> {"project_profile", "changed_paths", "tier", "cap", "stage_a_candidates"},
   tool_discovery   |-> {"picked_leaves", "args"}]
RoutingProvides ==
  [scan_project     |-> {"project_profile", "changed_paths", "diff_stats"},
   risk_tier_triage |-> {"tier", "cap", "tier_rationale", "risk_signals", "scope_overrides_present"},
   activate_leaves  |-> {"activated_leaves"},
   tree_descend     |-> {"stage_a_candidates", "descent_path"},
   llm_trim         |-> {"picked_leaves", "rejected_leaves", "coverage_rescues"},
   tool_discovery   |-> {"tool_results"}]

\* The plan, the loop over it and the merge.
DispatchReads ==
  [plan_specialist_batches  |-> {"picked_leaves", "changed_paths"},
   dispatch_specialists     |-> {"project_profile", "changed_paths", "tool_results",
                                 "specialist_batches", "total_batches", "picked_leaves"},
   merge_specialist_outputs |-> {"specialist_batches", "total_files_planned"}]
DispatchProvides ==
  [plan_specialist_batches  |-> {"specialist_batches", "total_batches", "total_files_planned"},
   dispatch_specialists     |-> {"batch_index", "iter_outputs", "loop_done"},
   merge_specialist_outputs |-> {"specialist_outputs"}]

\* From the findings to the verdict.
VerdictReads ==
  [collect_findings |-> {"specialist_outputs"},
   rank_findings    |-> {"findings", "changed_paths", "args"},
   verify_coverage  |-> {"findings", "picked_leaves", "changed_paths"},
   synthesize_release_readiness |-> {"findings", "picked_leaves"}]
VerdictProvides ==
  [collect_findings |-> {"findings", "severity_counts"},
   rank_findings    |-> {"findings", "severity_counts"},
   verify_coverage  |-> {"coverage_matrix", "coverage_gaps", "coverage_rule_violated"},
   synthesize_release_readiness |-> {"gates", "verdict"}]

\* What the report shows of a run that reached no specialist.
EarlyReport == {"findings", "severity_counts", "coverage_matrix", "coverage_gaps", "gates", "verdict"}

\* The three detours and the way out.  stage_a_empty wants its candidates
\* empty, not there.
ExitReads ==
  [short_circuit_exit  |-> {"tier"},
   stage_a_empty       |-> {},
   verifier_stuck      |-> {"verifier_rejection_counts"},
   write_run_directory |-> {"verdict", "gates"},
   emit_stdout         |-> {"run_dir_path"},
   terminal            |-> {}]
ExitProvides ==
  [short_circuit_exit  |-> EarlyReport \cup {"short_circuited"},
   stage_a_empty       |-> EarlyReport \cup {"degraded_run"},
   verifier_stuck      |-> {"verifier_stuck", "degraded_run", "verifier_rejection_counts",
                            "failed_units"},
   write_run_directory |-> {"run_dir_path"},
   emit_stdout         |-> {},
   terminal            |-> {}]

\* The two parts of the declaration as one; no state is in both.
Joined(f, g) == [s \in DOMAIN f \cup DOMAIN g |-> IF s \in DOMAIN f THEN f[s] ELSE g[s]]

Reads == Joined(Joined(RoutingReads, DispatchReads), Joined(VerdictReads, ExitReads))
Provides == Joined(Joined(RoutingProvides, DispatchProvides), Joined(VerdictProvides, ExitProvides))
=============================================================================
