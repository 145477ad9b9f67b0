-------------------------- MODULE ReviewOrchestrator --------------------------
(***************************************************************************)
(* The other driver of the FSM of ReviewFsm: an agent that commits the     *)
(* outputs of one state after the other through the ctxr.fsm engine.  The  *)
(* outputs of a worker state pass a panel of three verifier votes          *)
(* (code_review/verifier_handler.py, _verifier_for of spec.py) before the  *)
(* engine accepts them; the agent counts the rejected commits of a state   *)
(* and at _VERIFIER_REJECTION_LIMIT drives the run into verifier_stuck.    *)
(* The loop state has no panel, and the agent may commit its batches in    *)
(* any order, in part, twice, or leave the loop early.                     *)
(*                                                                         *)
(* There is no coverage floor here, no retry and no cost stamp.  What the  *)
(* engine and the agent do is not code of the repository; it is modelled   *)
(* from how spec.py and handlers.py rely on it.                            *)
(***************************************************************************)
EXTENDS ReviewFsm

VARIABLES
  panel,   \* did a majority of the last commit's panel say "passed"?
  fate     \* "running", or how the run ended

orchestratorVars == <<panel, fate>>
agentVars == <<fsmVars, orchestratorVars>>

NoPanel == FALSE

OrchestratorInit == Init /\ panel = NoPanel /\ fate = "running"

-----------------------------------------------------------------------------
(* The verifier panel.                                                     *)

ParallelCount == 3
MajorityThreshold == 2

\* What a dispatcher call can come back with: one of the two votes, the first
\* also without its key "reason"; an answer that is not a vote; an exception.
\* Besides there is the answer on which json.loads raises something else than
\* JSONDecodeError, as on one that is not text: see PanelRaises.
RawVotes == {"passed", "passed_without_reason", "rejected", "malformed", "raised"}

\* Mutant: what does not parse does not count against the worker.
ParseVoteOpen(raw) == IF raw = "rejected" THEN "rejected" ELSE "passed"

\* _parse_vote: the verdict alone decides, a missing reason is empty; whatever
\* is not a vote is a rejection.
ParseVote(raw) ==
  IF raw \in {"passed", "passed_without_reason"} THEN "passed" ELSE "rejected"

\* llm_verifier_handler: one vote per slot, a rejection for an exception.
Votes(raw) ==
  [slot \in 1..ParallelCount |-> IF raw[slot] = "raised" THEN "rejected" ELSE ParseVote(raw[slot])]

CountOf(votes, kinds) == Cardinality({slot \in DOMAIN votes : votes[slot] \in kinds})

Majority(votes, kinds) == CountOf(votes, kinds) >= MajorityThreshold

Accepts(raw) == Majority(Votes(raw), {"passed"})

\* Did a majority of the dispatchers answer "passed"?  This looks at what they
\* returned, not at what the handler made of it.
Tally(raw) == Majority(raw, {"passed", "passed_without_reason"})

\* What the tally can be when the engine accepts, and when it does not.
Panels(accepted) ==
  {Tally(raw) : raw \in {r \in [1..ParallelCount -> RawVotes] : Accepts(r) = accepted}}
AcceptedPanels == Panels(TRUE)
RejectedPanels == Panels(FALSE)

-----------------------------------------------------------------------------
(* Commits.                                                                *)

Running == fate = "running"

\* A commit whose outputs break the schema or a post-validation is refused
\* by the engine, and the agent commits again: nothing of the run changes.
\* One whose outputs are valid goes before the panel.
CommitAccepted ==
  /\ Running /\ state \in WorkerStates
  /\ panel' \in AcceptedPanels
  /\ \/ ScanProject(tier)
     \/ \E any_candidates \in BOOLEAN : TreeDescend(any_candidates, tier)
     \/ \E answer \in SUBSET Leaves, rescues \in Rescues : LlmTrim(answer, rescues, tier)
     \/ ToolDiscovery(tier)
     \/ \E kept \in SUBSET findings : RankFindings(kept, tier)
  /\ UNCHANGED fate

\* Mutant: the count starts again when the worker is dispatched again.
CommitRejectedRecounts ==
  /\ Running /\ state \in WorkerStates
  /\ panel' \in RejectedPanels
  /\ rejections' = [rejections EXCEPT ![state] = IF @ = RejectionLimit - 1 THEN 0 ELSE @ + 1]
  /\ env_keys' = env_keys \cup {"verifier_rejection_counts"}
  /\ UNCHANGED <<state, routingVars, dispatchVars, findings, verdictVars, manifests, fate>>

CommitRejected ==
  /\ Running /\ state \in WorkerStates
  /\ rejections[state] < RejectionLimit
  /\ panel' \in RejectedPanels
  /\ rejections' = [rejections EXCEPT ![state] = @ + 1]
  /\ env_keys' = env_keys \cup {"verifier_rejection_counts"}
  /\ UNCHANGED <<state, routingVars, dispatchVars, findings, verdictVars, manifests, fate>>

\* An exception of _parse_vote leaves llm_verifier_handler, and the commit
\* with it; the run ends here unless the agent commits again.
PanelRaises ==
  /\ Running /\ state \in WorkerStates
  /\ fate' = "faulted"
  /\ UNCHANGED <<fsmVars, panel>>

\* The agent gives the worker up.
DriveStuck ==
  /\ Running /\ state \in WorkerStates
  /\ rejections[state] >= RejectionLimit
  /\ state' = "verifier_stuck"
  /\ UNCHANGED <<routingVars, dispatchVars, findings, verdictVars, rejections, manifests, env_keys,
                 orchestratorVars>>

\* One iteration of the loop: outputs for some units of some batch, and the
\* agent's word on whether it was the last.
CommitLoop ==
  /\ Running
  /\ \E b \in DOMAIN batches, loop_done \in BOOLEAN : \E units \in SUBSET batches[b] :
       \E payload \in [units -> Outputs] : CommitIteration(payload, loop_done)
  /\ panel' = NoPanel
  /\ UNCHANGED fate

\* The engine runs the handler of an inline state.
RunInline == Running /\ InlineHandler /\ panel' = NoPanel /\ UNCHANGED fate

\* DispatchLoopExitedEarlyError, or the run directory cannot be written.
HandlerRaises ==
  /\ Running
  /\ \/ state = "merge_specialist_outputs" /\ ~LoopDrained
     \/ state = "write_run_directory"
  /\ fate' = "faulted"
  /\ UNCHANGED <<fsmVars, panel>>

Finish == Running /\ state = "terminal" /\ fate' = "finished" /\ UNCHANGED <<fsmVars, panel>>

Stopped == ~Running /\ UNCHANGED agentVars

AgentNext ==
  \/ CommitAccepted \/ CommitRejected \/ PanelRaises \/ DriveStuck \/ CommitLoop
  \/ RunInline \/ HandlerRaises \/ Finish \/ Stopped

AgentSpec == OrchestratorInit /\ [][AgentNext]_agentVars

\* The agent keeps committing until the run is over.
AgentFairSpec == AgentSpec /\ WF_agentVars(AgentNext)

-----------------------------------------------------------------------------
\* The engine's run and the panel's tally stay in their ranges.
OrchestratorTypeOK ==
  /\ FsmTypeOK
  /\ panel \in BOOLEAN
  /\ fate \in {"running", "finished", "faulted"}

\* The majority cannot be bypassed: outputs of a worker move the run on only
\* when two dispatchers did answer "passed", with a reason or, against the
\* docstring of _parse_vote, without one; whatever else they return or raise
\* leaves the run where it is, breaks it or sends it to verifier_stuck.
FailClosed ==
  [][(state \in WorkerStates /\ state' \notin {state, "verifier_stuck"}) =>
       panel']_agentVars

\* An agent that leaves the loop early, commits a batch in part or repeats
\* one cannot make a picked leaf disappear: once the merge is past, the
\* outputs of every picked leaf are there.
NoLeafDisappears ==
  state \in {"collect_findings", "rank_findings", "verify_coverage"} => picked \subseteq DOMAIN merged

\* A verdict that no verify_coverage stands behind is a recorded impasse, and
\* an impasse is three rejected commits of one state: the two ways into
\* synthesize_release_readiness do not mix.
ImpasseIsEarned ==
  /\ state = "verifier_stuck" => \E s \in WorkerStates : rejections[s] >= RejectionLimit
  /\ state = "synthesize_release_readiness" /\ ~degraded_run =>
       /\ picked \subseteq DOMAIN merged
       /\ coverage_rule_violated = \E file \in Files : Gap(file)
       /\ \A s \in WorkerStates : rejections[s] < RejectionLimit

\* A driver with a panel keeps the promise of every driver.
AgentLifecycle ==
  INSTANCE ReviewLifecycle
  WITH phase <- IF manifests = <<>> THEN (IF verdict = "none" THEN "open" ELSE "judged")
                ELSE IF fate = "finished" THEN "delivered" ELSE "recorded",
       recorded <- IF manifests = <<>> THEN "none" ELSE manifests[Len(manifests)].verdict,
       broken <- fate = "faulted"
AgentImplementsLifecycle == AgentLifecycle!Spec

\* A panel that never agrees with a worker does not hold the run for ever:
\* the impasse gets the run to its verdict.
AgentRunEnds == <>(fate # "running")

\* What SKILL.md says of degraded_run: a partial-coverage run will not
\* produce GO, because synthesize_release_readiness consumes the flag.
DegradedNeverGo == fate = "finished" /\ degraded_run => verdict # "GO"
=============================================================================
