--------------------------- MODULE ReviewFsmProofs ---------------------------
(***************************************************************************)
(* What every driver of the FSM of ReviewFsm can count on: an invariant    *)
(* that holds at the start of a run and that no step of the FSM breaks,    *)
(* whoever takes it and with whatever answers.  The proofs about           *)
(* run_review and about the agent that commits through the engine          *)
(* (ReviewDriversProofs) rest on it.                                       *)
(***************************************************************************)
EXTENDS ReviewFsm, FiniteSetTheorems, WellFoundedInduction, TLAPS

-----------------------------------------------------------------------------
(* What spec.py declares for each state, in the four parts of FsmEnv.      *)

\* Declarations over disjoint states keep their values when they are joined.
LEMMA JoinedAt ==
  ASSUME NEW f, NEW g, NEW h, NEW k,
         \A s \in DOMAIN f : s \notin DOMAIN g,
         \A s \in DOMAIN h : s \notin DOMAIN k,
         \A s \in DOMAIN f \cup DOMAIN g : s \notin DOMAIN h \cup DOMAIN k
  PROVE  /\ \A s \in DOMAIN f : Joined(Joined(f, g), Joined(h, k))[s] = f[s]
         /\ \A s \in DOMAIN g : Joined(Joined(f, g), Joined(h, k))[s] = g[s]
         /\ \A s \in DOMAIN h : Joined(Joined(f, g), Joined(h, k))[s] = h[s]
         /\ \A s \in DOMAIN k : Joined(Joined(f, g), Joined(h, k))[s] = k[s]
<1>1. \A a, b : DOMAIN Joined(a, b) = DOMAIN a \cup DOMAIN b
  BY DEF Joined
<1>2. \A a, b, s : s \in DOMAIN a => Joined(a, b)[s] = a[s]
  BY DEF Joined
<1>3. \A a, b, s : s \in DOMAIN b /\ s \notin DOMAIN a => Joined(a, b)[s] = b[s]
  BY DEF Joined
<1> DEFINE all == Joined(Joined(f, g), Joined(h, k))
<1>4. \A s \in DOMAIN f \cup DOMAIN g : all[s] = Joined(f, g)[s]
  BY <1>1, <1>2, Zenon
<1>5. \A s \in DOMAIN h \cup DOMAIN k : all[s] = Joined(h, k)[s]
  <2> TAKE s \in DOMAIN h \cup DOMAIN k
  <2>1. s \notin DOMAIN Joined(f, g) /\ s \in DOMAIN Joined(h, k)
    BY <1>1, Zenon
  <2>2. QED
    BY <2>1, <1>3, Zenon
<1> HIDE DEF all
<1>6. \A s \in DOMAIN f : all[s] = f[s]
  BY <1>2, <1>4
<1>7. \A s \in DOMAIN g : all[s] = g[s]
  BY <1>3, <1>4
<1>8. \A s \in DOMAIN h : all[s] = h[s]
  BY <1>2, <1>5
<1>9. \A s \in DOMAIN k : all[s] = k[s]
  BY <1>3, <1>5
<1>10. QED
  BY <1>6, <1>7, <1>8, <1>9 DEF all

\* The states of the four parts.
LEMMA ReadsDomains ==
  /\ DOMAIN RoutingReads = {"scan_project", "risk_tier_triage", "activate_leaves", "tree_descend",
                            "llm_trim", "tool_discovery"}
  /\ DOMAIN DispatchReads = {"plan_specialist_batches", "dispatch_specialists",
                             "merge_specialist_outputs"}
  /\ DOMAIN VerdictReads = {"collect_findings", "rank_findings", "verify_coverage",
                            "synthesize_release_readiness"}
  /\ DOMAIN ExitReads = {"short_circuit_exit", "stage_a_empty", "verifier_stuck",
                         "write_run_directory", "emit_stdout", "terminal"}
BY DEF RoutingReads, DispatchReads, VerdictReads, ExitReads

\* What is read and what is provided is declared for the same states.
LEMMA ProvidesDomains ==
  /\ DOMAIN RoutingProvides = DOMAIN RoutingReads
  /\ DOMAIN DispatchProvides = DOMAIN DispatchReads
  /\ DOMAIN VerdictProvides = DOMAIN VerdictReads
  /\ DOMAIN ExitProvides = DOMAIN ExitReads
<1>1. DOMAIN RoutingProvides = DOMAIN RoutingReads
  BY ReadsDomains DEF RoutingProvides
<1>2. DOMAIN DispatchProvides = DOMAIN DispatchReads
  BY ReadsDomains DEF DispatchProvides
<1>3. DOMAIN VerdictProvides = DOMAIN VerdictReads
  BY ReadsDomains DEF VerdictProvides
<1>4. DOMAIN ExitProvides = DOMAIN ExitReads
  BY ReadsDomains DEF ExitProvides
<1>5. QED
  BY <1>1, <1>2, <1>3, <1>4

\* Reads and Provides are what the four parts say.
LEMMA DeclarationsAt ==
  /\ \A s \in DOMAIN RoutingReads : Reads[s] = RoutingReads[s] /\ Provides[s] = RoutingProvides[s]
  /\ \A s \in DOMAIN DispatchReads : Reads[s] = DispatchReads[s] /\ Provides[s] = DispatchProvides[s]
  /\ \A s \in DOMAIN VerdictReads : Reads[s] = VerdictReads[s] /\ Provides[s] = VerdictProvides[s]
  /\ \A s \in DOMAIN ExitReads : Reads[s] = ExitReads[s] /\ Provides[s] = ExitProvides[s]
<1>1. /\ \A s \in DOMAIN RoutingReads : s \notin DOMAIN DispatchReads
      /\ \A s \in DOMAIN VerdictReads : s \notin DOMAIN ExitReads
      /\ \A s \in DOMAIN RoutingReads \cup DOMAIN DispatchReads :
           s \notin DOMAIN VerdictReads \cup DOMAIN ExitReads
  BY ReadsDomains
<1>2. /\ \A s \in DOMAIN RoutingProvides : s \notin DOMAIN DispatchProvides
      /\ \A s \in DOMAIN VerdictProvides : s \notin DOMAIN ExitProvides
      /\ \A s \in DOMAIN RoutingProvides \cup DOMAIN DispatchProvides :
           s \notin DOMAIN VerdictProvides \cup DOMAIN ExitProvides
  BY <1>1, ProvidesDomains, Zenon
<1>3. /\ \A s \in DOMAIN RoutingReads : Reads[s] = RoutingReads[s]
      /\ \A s \in DOMAIN DispatchReads : Reads[s] = DispatchReads[s]
      /\ \A s \in DOMAIN VerdictReads : Reads[s] = VerdictReads[s]
      /\ \A s \in DOMAIN ExitReads : Reads[s] = ExitReads[s]
  BY <1>1, JoinedAt DEF Reads
<1>4. /\ \A s \in DOMAIN RoutingProvides : Provides[s] = RoutingProvides[s]
      /\ \A s \in DOMAIN DispatchProvides : Provides[s] = DispatchProvides[s]
      /\ \A s \in DOMAIN VerdictProvides : Provides[s] = VerdictProvides[s]
      /\ \A s \in DOMAIN ExitProvides : Provides[s] = ExitProvides[s]
  BY <1>2, JoinedAt DEF Provides
<1>5. QED
  BY <1>3, <1>4, ProvidesDomains

\* What the joins of the paths rest on.
LEMMA KeysAtJoins ==
  /\ "picked_leaves" \in Provides["llm_trim"] /\ "findings" \in Provides["collect_findings"]
  /\ Provides["synthesize_release_readiness"] \subseteq Provides["short_circuit_exit"]
  /\ Provides["synthesize_release_readiness"] \subseteq Provides["stage_a_empty"]
  /\ {"verifier_stuck", "verifier_rejection_counts"} \subseteq Provides["verifier_stuck"]
<1>1. /\ Provides["llm_trim"] = RoutingProvides["llm_trim"]
      /\ Provides["collect_findings"] = VerdictProvides["collect_findings"]
      /\ Provides["synthesize_release_readiness"] = VerdictProvides["synthesize_release_readiness"]
      /\ Provides["short_circuit_exit"] = ExitProvides["short_circuit_exit"]
      /\ Provides["stage_a_empty"] = ExitProvides["stage_a_empty"]
      /\ Provides["verifier_stuck"] = ExitProvides["verifier_stuck"]
  BY DeclarationsAt, ReadsDomains
<1>2. QED
  BY <1>1 DEF RoutingProvides, VerdictProvides, ExitProvides, EarlyReport

-----------------------------------------------------------------------------
(* The least element of a set of numbers, and its last position.           *)

\* A set of natural numbers that is not empty has a least element: the
\* induction over the length of the loop that the lemmas below need.
LEMMA LeastNumber ==
  ASSUME NEW T, T \subseteq Nat, T # {}
  PROVE  \E m \in T : \A k \in T : m <= k
<1>1. IsWellFoundedOn({ss \in Nat \X Nat : ss[1] < ss[2]}, Nat)
  BY NatLessThanWellFounded DEF OpToRel
<1>2. PICK m \in T : \A k \in T : <<k, m>> \notin {ss \in Nat \X Nat : ss[1] < ss[2]}
  BY <1>1, WFMin
<1>3. ASSUME NEW k \in T
      PROVE  m <= k
  <2>1. <<k, m>> \in Nat \X Nat /\ m \in Nat /\ k \in Nat
    OBVIOUS
  <2>2. ~(<<k, m>>[1] < <<k, m>>[2])
    BY <1>2, <2>1
  <2>3. QED
    BY <2>1, <2>2
<1>4. QED
  BY <1>3

\* A set of positions that is not empty has a last one.
LEMMA LastPosition ==
  ASSUME NEW n \in Nat, NEW T, T \subseteq 1..n, T # {}
  PROVE  \E m \in T : \A k \in T : k <= m
<1> DEFINE distances == {n - k : k \in T}
<1>1. distances \subseteq Nat /\ distances # {}
  OBVIOUS
<1>2. PICK d \in distances : \A e \in distances : d <= e
  BY <1>1, LeastNumber
<1>3. PICK m \in T : d = n - m
  OBVIOUS
<1>4. ASSUME NEW k \in T
      PROVE  k <= m
  <2>1. d <= n - k
    BY <1>2
  <2>2. QED
    BY <1>3, <2>1
<1>5. QED
  BY <1>4

-----------------------------------------------------------------------------
(* The plan: packing the picked leaves into batches loses none.            *)

\* The smallest number of batches of a size that take n leaves puts every
\* leaf into one of them.
LEMMA BatchOf ==
  ASSUME NEW n \in Nat, NEW size \in Nat \ {0}, NEW i \in 1..n
  PROVE  (i - 1) \div size + 1 \in 1..((n + size - 1) \div size)
<1>1. (i - 1) \div size \in Nat
  OBVIOUS
<1>2. (n + size - 1) \div size >= (i - 1 + size) \div size
  OBVIOUS
<1>3. (i - 1 + size) \div size = (i - 1) \div size + 1
  OBVIOUS
<1>4. QED
  BY <1>1, <1>2, <1>3

\* A listing of a finite set without repetitions lists all of it.
LEMMA OrdersList ==
  ASSUME NEW S, IsFiniteSet(S), NEW order \in Orders(S)
  PROVE  \A x \in S : \E i \in DOMAIN order : order[i] = x
<1> DEFINE n == Cardinality(S)
<1>1. n \in Nat /\ order \in [1..n -> S] /\ \A i, j \in 1..n : order[i] = order[j] => i = j
  BY FS_CardinalityType DEF Orders
<1>2. IsFiniteSet(1..n) /\ Cardinality(1..n) = n
  BY <1>1, FS_Interval
<1>3. order \in Injection(1..n, S)
  BY <1>1 DEF Injection, IsInjective
<1>4. order \in Surjection(1..n, S)
  BY <1>2, <1>3, FS_Injection
<1>5. QED
  BY <1>1, <1>4 DEF Surjection

\* The leaves in some batch.
LeavesOf(packed) == UNION {packed[b] : b \in DOMAIN packed}

\* The batches hold the listed leaves, all of them.
LEMMA PackedAll ==
  ASSUME NEW S, IsFiniteSet(S), NEW order \in Orders(S), NEW size \in Nat \ {0}
  PROVE  /\ Packed(order, size) \in Seq(SUBSET S)
         /\ LeavesOf(Packed(order, size)) = S
<1> DEFINE n == Cardinality(S)
           m == (n + size - 1) \div size
           packed == Packed(order, size)
<1>1. n \in Nat /\ order \in [1..n -> S] /\ Len(order) = n
  BY FS_CardinalityType DEF Orders
<1>2. m \in Nat
  BY <1>1
<1>3. packed = [b \in 1..m |-> {order[i] : i \in {k \in 1..n : (k - 1) \div size = b - 1}}]
  BY <1>1 DEF Packed
<1> HIDE DEF packed, m
<1>4. packed \in [1..m -> SUBSET S]
  BY <1>1, <1>3
<1>5. packed \in Seq(SUBSET S)
  BY <1>2, <1>4
<1>6. ASSUME NEW x \in S
      PROVE  \E b \in DOMAIN packed : x \in packed[b]
  <2>1. PICK i \in 1..n : order[i] = x
    BY <1>1, OrdersList
  <2> DEFINE b == (i - 1) \div size + 1
  <2>2. b \in 1..m
    BY <1>1, BatchOf DEF m
  <2>3. (i - 1) \div size = b - 1
    BY <1>1
  <2> HIDE DEF b
  <2>4. x \in packed[b]
    BY <1>3, <2>1, <2>2, <2>3
  <2>5. QED
    BY <1>4, <2>2, <2>4
<1>7. QED
  BY <1>4, <1>5, <1>6 DEF packed, LeavesOf

-----------------------------------------------------------------------------
(* The invariant.                                                          *)

\* The states past each step of the normal path; an impasse leaves the path.
PastCollect == {"rank_findings", "verify_coverage"}
PastMerge == {"collect_findings"} \cup PastCollect
PastPlan == {LoopState, "merge_specialist_outputs"} \cup PastMerge
PastTools == {"plan_specialist_batches"} \cup PastPlan
PastTrim == {"tool_discovery"} \cup PastTools
PastDescend == {"llm_trim"} \cup PastTrim
PastActivate == {"tree_descend"} \cup PastDescend
PastTriage == {"activate_leaves", "short_circuit_exit"} \cup PastActivate
PastScan == {"risk_tier_triage"} \cup PastTriage

\* The states past the verdict, and past the manifest that records it.
PastManifest == {"emit_stdout", "terminal"}
PastVerdict == {"write_run_directory"} \cup PastManifest

Payloads == UNION {[units -> Outputs] : units \in SUBSET Leaves}
Manifests ==
  [verdict : Verdicts, tier : Tiers \cup {"none", "cheap"}, degraded_run : BOOLEAN]

\* The variables of each stage stay in their ranges.
RoutingType ==
  /\ tier \in Tiers \cup {"none", "cheap"} /\ triaged \in Tiers \cup {"none"}
  /\ activated \subseteq Leaves /\ picked \subseteq Leaves
  /\ coverage_rescues \subseteq Leaves \X Files
DispatchType ==
  batches \in Seq(SUBSET Leaves) /\ loop_iters \in Seq(Payloads) /\ merged \in Payloads
VerdictType ==
  /\ findings \subseteq Findings
  /\ coverage_rule_violated \in BOOLEAN /\ degraded_run \in BOOLEAN
  /\ verdict \in Verdicts \cup {"none"}
RunType ==
  /\ rejections \in [WorkerStates \cup {LoopState} -> 0..RejectionLimit]
  /\ manifests \in Seq(Manifests)
KeysType == env_keys \subseteq UNION {Reads[s] \cup Provides[s] : s \in States}
FsmTypeInv == state \in States /\ RoutingType /\ DispatchType /\ VerdictType /\ RunType /\ KeysType

\* Which keys env has for certain, state by state.
KeysInv ==
  /\ "args" \in env_keys
  /\ \A s \in DOMAIN rejections : rejections[s] > 0 => "verifier_rejection_counts" \in env_keys
  /\ state \in PastScan => Provides["scan_project"] \subseteq env_keys
  /\ state \in PastTriage => Provides["risk_tier_triage"] \subseteq env_keys
  /\ state \in PastActivate => Provides["activate_leaves"] \subseteq env_keys
  /\ state \in PastDescend => Provides["tree_descend"] \subseteq env_keys
  /\ state \in PastTrim => Provides["llm_trim"] \subseteq env_keys
  /\ state \in PastTools => Provides["tool_discovery"] \subseteq env_keys
  /\ state \in PastPlan => Provides["plan_specialist_batches"] \subseteq env_keys
  /\ state \in PastMerge => Provides["merge_specialist_outputs"] \subseteq env_keys
  /\ state \in PastCollect => Provides["collect_findings"] \subseteq env_keys
  /\ state = "synthesize_release_readiness" =>
       "verifier_stuck" \in env_keys \/ {"findings", "picked_leaves"} \subseteq env_keys
  /\ state = "write_run_directory" => Provides["synthesize_release_readiness"] \subseteq env_keys
  /\ state = "emit_stdout" => Provides["write_run_directory"] \subseteq env_keys

\* A state is stuck only at the limit, the loop state never, and but for a
\* degraded run no state was left with its rejections at the limit.
ImpasseInv ==
  /\ rejections[LoopState] = 0
  /\ state = "verifier_stuck" => \E s \in WorkerStates : rejections[s] >= RejectionLimit
  /\ state # "verifier_stuck" /\ ~degraded_run =>
       \A s \in WorkerStates \ {state} : rejections[s] < RejectionLimit

\* There is a verdict exactly past the synthesis or the short cuts to the
\* report, and one manifest with that verdict exactly past the report.
ReportInv ==
  /\ state \in PastVerdict <=> verdict # "none"
  /\ state \notin PastManifest => manifests = <<>>
  /\ state \in PastManifest => Len(manifests) = 1 /\ manifests[1].verdict = verdict

\* Some file lacks a second reviewer; the right to a GO.
Uncovered == \E file \in Files : Gap(file)
Earned ==
  \/ triaged = "trivial" /\ activated = {}
  \/ (\A file \in Files : Cardinality(Credited(file)) >= 2) /\ ~GateFails

\* The routing is what is planned, the plan is what is merged, and the
\* verdict is given on the credits and the gates of the merged findings.
ReviewInv ==
  /\ state \in {"scan_project", "risk_tier_triage", "activate_leaves"} => activated = {}
  /\ state = "short_circuit_exit" => triaged = "trivial" /\ activated = {}
  /\ state \in PastPlan => Planned = picked
  /\ state \in PastMerge => picked \subseteq DOMAIN merged
  /\ state = "synthesize_release_readiness" /\ ~degraded_run =>
       /\ picked \subseteq DOMAIN merged
       /\ coverage_rule_violated = Uncovered
  /\ state \in PastVerdict /\ verdict = "GO" /\ ~degraded_run => Earned

FsmInv == FsmTypeInv /\ KeysInv /\ ImpasseInv /\ ReportInv /\ ReviewInv

\* One step of the FSM, whoever takes it: an accepted worker answer, an
\* iteration of the loop, or a handler.
WorkerCommit ==
  \E stamp \in Tiers \cup {"none", "cheap"} :
    \/ ScanProject(stamp)
    \/ \E any_candidates \in BOOLEAN : TreeDescend(any_candidates, stamp)
    \/ \E answer \in SUBSET Leaves, rescues \in SUBSET (Leaves \X Files) :
         LlmTrim(answer, rescues, stamp)
    \/ ToolDiscovery(stamp)
    \/ \E kept \in SUBSET findings : RankFindings(kept, stamp)
LoopCommit ==
  \E payload \in Payloads, loop_done \in BOOLEAN : CommitIteration(payload, loop_done)
FsmStep == WorkerCommit \/ LoopCommit \/ InlineHandler

\* The aggregate guard drops findings and no leaf.
LEMMA WithinBudgetKeepsLeaves ==
  ASSUME NEW outputs, NEW kept \in WithinBudget(outputs)
  PROVE  /\ DOMAIN kept = DOMAIN outputs
         /\ outputs \in Payloads => kept \in Payloads
<1>1. kept = outputs \/ kept \in [DOMAIN outputs -> Outputs]
  BY DEF WithinBudget, Trimmings
<1>2. outputs \in Payloads => DOMAIN outputs \in SUBSET Leaves
  BY DEF Payloads
<1>3. QED
  BY <1>1, <1>2 DEF Payloads

\* LastIteration is the last iteration with an output of the leaf.
LEMMA LastIterationIs ==
  ASSUME loop_iters \in Seq(Payloads), NEW leaf \in Committed
  PROVE  /\ LastIteration(leaf) \in DOMAIN loop_iters
         /\ leaf \in DOMAIN loop_iters[LastIteration(leaf)]
         /\ \A j \in DOMAIN loop_iters : leaf \in DOMAIN loop_iters[j] => j <= LastIteration(leaf)
<1> DEFINE T == {i \in DOMAIN loop_iters : leaf \in DOMAIN loop_iters[i]}
<1>1. T \subseteq 1..Len(loop_iters) /\ T # {} /\ Len(loop_iters) \in Nat
  BY DEF Committed
<1>2. \E i \in T : \A j \in T : j <= i
  BY <1>1, LastPosition
<1>3. \E i \in DOMAIN loop_iters :
        /\ leaf \in DOMAIN loop_iters[i]
        /\ \A j \in DOMAIN loop_iters : leaf \in DOMAIN loop_iters[j] => j <= i
  BY <1>2
<1>4. QED
  BY <1>3 DEF LastIteration

-----------------------------------------------------------------------------
(* The invariant holds at the start and while the FSM stands still.        *)

\* The fresh run of spec.py: nothing but args in env.
LEMMA InitFsmInv ==
  ASSUME Init
  PROVE  FsmInv
<1> USE BoundsAssumption DEF Init
<1>1. FsmTypeInv
  <2>1. state \in States
    BY DEF States, WorkerStates
  <2>2. DispatchType
    <3>1. DOMAIN <<>> = {} /\ <<>> = [i \in DOMAIN <<>> |-> <<>>[i]]
      OBVIOUS
    <3>2. <<>> \in Payloads
      BY <3>1 DEF Payloads
    <3>3. QED
      BY <3>2 DEF DispatchType
  <2>3. KeysType
    <3>1. Reads["scan_project"] = RoutingReads["scan_project"]
      BY DeclarationsAt, ReadsDomains
    <3>2. "args" \in Reads["scan_project"]
      BY <3>1 DEF RoutingReads
    <3>3. QED
      BY <3>2 DEF KeysType, States, WorkerStates
  <2>4. RunType
    <3>1. 0 \in 0..RejectionLimit /\ <<>> \in Seq(Manifests)
      BY BoundsAssumption
    <3>2. QED
      BY <3>1 DEF RunType
  <2>5. RoutingType /\ VerdictType
    BY DEF RoutingType, VerdictType
  <2>6. QED
    BY <2>1, <2>2, <2>3, <2>4, <2>5 DEF FsmTypeInv
<1>2. KeysInv /\ ImpasseInv /\ ReportInv /\ ReviewInv
  BY DEF KeysInv, ImpasseInv, ReportInv, ReviewInv, WorkerStates, LoopState, PastScan, PastTriage,
     PastActivate, PastDescend, PastTrim, PastTools, PastPlan, PastMerge, PastCollect,
         PastManifest, PastVerdict
<1>3. QED
  BY <1>1, <1>2 DEF FsmInv

\* A step of the driver that leaves the FSM alone.
LEMMA FsmStandsStill ==
  ASSUME FsmInv, UNCHANGED fsmVars
  PROVE  FsmInv'
<1> USE DEF fsmVars, routingVars, dispatchVars, verdictVars
<1>1. FsmTypeInv'
  BY DEF FsmInv, FsmTypeInv, RoutingType, DispatchType, VerdictType, RunType, KeysType
<1>2. KeysInv' /\ ImpasseInv' /\ ReportInv'
  BY DEF FsmInv, KeysInv, ImpasseInv, ReportInv
<1>3. Planned' = Planned /\ Uncovered' = Uncovered /\ Earned' = Earned
  BY DEF Planned, Uncovered, Gap, Earned, Credited, GateFails
<1>4. ReviewInv'
  BY <1>3 DEF FsmInv, ReviewInv
<1>5. QED
  BY <1>1, <1>2, <1>4 DEF FsmInv

-----------------------------------------------------------------------------
(* No step takes a variable out of its range.                              *)

\* What a step can do to each variable.
StepEffect ==
  /\ CommitOutputs
  /\ tier' \in {tier, "none", "cheap"} \cup Tiers /\ triaged' \in {triaged} \cup Tiers
  /\ activated' \in {activated} \cup SUBSET Leaves /\ picked' \in {picked} \cup SUBSET Leaves
  /\ coverage_rescues' \in {coverage_rescues} \cup SUBSET (Leaves \X Files)
  /\ \/ UNCHANGED batches
     \/ \E order \in Orders(picked) : batches' = Packed(order, SizeFor(tier))
  /\ UNCHANGED loop_iters \/ \E payload \in Payloads : loop_iters' = Append(loop_iters, payload)
  /\ UNCHANGED merged \/ merged' \in WithinBudget(Folded)
  /\ findings' \subseteq findings \cup Findings
  /\ \/ UNCHANGED verdict
     \/ state \notin PastVerdict /\ verdict' \in {"GO", "CONDITIONAL", "NO-GO"}
  /\ coverage_rule_violated' \in {coverage_rule_violated, TRUE, FALSE}
  /\ degraded_run' \in {degraded_run, TRUE}
  /\ \/ UNCHANGED rejections
     \/ \E s \in DOMAIN rejections : rejections' = [rejections EXCEPT ![s] = 0]
  /\ \/ UNCHANGED manifests
     \/ /\ state = "write_run_directory"
        /\ manifests' = Append(manifests,
                               [verdict |-> verdict, tier |-> tier, degraded_run |-> degraded_run])

\* A step does nothing else.
LEMMA StepEffects ==
  ASSUME FsmStep
  PROVE  StepEffect
<1> USE DEF StepEffect, PastVerdict, PastManifest, LoopState
<1>1. ASSUME NEW stamp \in Tiers \cup {"none", "cheap"}, ScanProject(stamp)
      PROVE  StepEffect
  BY <1>1 DEF ScanProject, routingVars, dispatchVars, verdictVars
<1>2. ASSUME NEW stamp \in Tiers \cup {"none", "cheap"}, NEW any_candidates \in BOOLEAN,
             TreeDescend(any_candidates, stamp)
      PROVE  StepEffect
  BY <1>2 DEF TreeDescend, routingVars, dispatchVars, verdictVars
<1>3. ASSUME NEW stamp \in Tiers \cup {"none", "cheap"}, NEW answer \in SUBSET Leaves,
             NEW rescues \in SUBSET (Leaves \X Files), LlmTrim(answer, rescues, stamp)
      PROVE  StepEffect
  BY <1>3 DEF LlmTrim, routingVars, dispatchVars, verdictVars
<1>4. ASSUME NEW stamp \in Tiers \cup {"none", "cheap"}, ToolDiscovery(stamp)
      PROVE  StepEffect
  BY <1>4 DEF ToolDiscovery, routingVars, dispatchVars, verdictVars
<1>5. ASSUME NEW stamp \in Tiers \cup {"none", "cheap"}, NEW kept \in SUBSET findings,
             RankFindings(kept, stamp)
      PROVE  StepEffect
  BY <1>5 DEF RankFindings, routingVars, dispatchVars, verdictVars
<1>6. ASSUME NEW payload \in Payloads, NEW loop_done \in BOOLEAN,
             CommitIteration(payload, loop_done)
      PROVE  StepEffect
  BY <1>6 DEF CommitIteration, routingVars, dispatchVars, verdictVars
<1>7. ASSUME NEW t \in Tiers, NEW overrides \in BOOLEAN, RiskTierTriage(t, overrides)
      PROVE  StepEffect
  BY <1>7 DEF RiskTierTriage, routingVars, dispatchVars, verdictVars
<1>8. ASSUME NEW matching \in SUBSET Leaves, ActivateLeaves(matching)
      PROVE  StepEffect
  BY <1>8 DEF ActivateLeaves, routingVars, dispatchVars, verdictVars
<1>9. ASSUME NEW order \in Orders(picked), PlanSpecialistBatches(order)
      PROVE  StepEffect
  BY <1>9 DEF PlanSpecialistBatches, routingVars, dispatchVars, verdictVars
<1>10. ASSUME NEW duplicates \in [Files -> LeafPartitions], CollectFindings(duplicates)
      PROVE  StepEffect
  BY <1>10 DEF CollectFindings, routingVars, dispatchVars, verdictVars
<1>11. CASE MergeSpecialistOutputs
  BY <1>11 DEF MergeSpecialistOutputs, routingVars, dispatchVars, verdictVars
<1>12. CASE VerifyCoverage
  BY <1>12 DEF VerifyCoverage, routingVars, dispatchVars, verdictVars
<1>13. CASE SynthesizeReleaseReadiness
  BY <1>13 DEF SynthesizeReleaseReadiness, routingVars, dispatchVars, verdictVars
<1>14. CASE ShortCircuitExit
  BY <1>14 DEF ShortCircuitExit, routingVars, dispatchVars, verdictVars
<1>15. CASE StageAEmpty
  BY <1>15 DEF StageAEmpty, routingVars, dispatchVars, verdictVars
<1>16. CASE VerifierStuck
  BY <1>16 DEF VerifierStuck, routingVars, dispatchVars, verdictVars
<1>17. CASE WriteRunDirectory
  BY <1>17 DEF WriteRunDirectory, routingVars, dispatchVars, verdictVars
<1>18. CASE EmitStdout
  BY <1>18 DEF EmitStdout, routingVars, dispatchVars, verdictVars
<1>19. QED
  BY <1>1, <1>2, <1>3, <1>4, <1>5, <1>6, <1>7, <1>8, <1>9, <1>10, <1>11, <1>12, <1>13, <1>14,
     <1>15, <1>16, <1>17, <1>18 DEF FsmStep, WorkerCommit, LoopCommit, InlineHandler

\* A step goes to a state of spec.py.
LEMMA StepStates ==
  ASSUME FsmInv, FsmStep
  PROVE  state' \in States
<1> USE DEF States, WorkerStates, InlineStates, LoopState
<1>1. ASSUME NEW stamp \in Tiers \cup {"none", "cheap"}, ScanProject(stamp)
      PROVE  state' \in States
  BY <1>1 DEF ScanProject, Route
<1>2. ASSUME NEW stamp \in Tiers \cup {"none", "cheap"}, NEW any_candidates \in BOOLEAN,
             TreeDescend(any_candidates, stamp)
      PROVE  state' \in States
  BY <1>2 DEF TreeDescend, Route
<1>3. ASSUME NEW stamp \in Tiers \cup {"none", "cheap"}, NEW answer \in SUBSET Leaves,
             NEW rescues \in SUBSET (Leaves \X Files), LlmTrim(answer, rescues, stamp)
      PROVE  state' \in States
  BY <1>3 DEF LlmTrim, Route
<1>4. ASSUME NEW stamp \in Tiers \cup {"none", "cheap"}, ToolDiscovery(stamp)
      PROVE  state' \in States
  BY <1>4 DEF ToolDiscovery, Route
<1>5. ASSUME NEW stamp \in Tiers \cup {"none", "cheap"}, NEW kept \in SUBSET findings,
             RankFindings(kept, stamp)
      PROVE  state' \in States
  BY <1>5 DEF RankFindings, Route
<1>6. ASSUME NEW payload \in Payloads, NEW loop_done \in BOOLEAN,
             CommitIteration(payload, loop_done)
      PROVE  state' \in States
  BY <1>6 DEF CommitIteration, Route
<1>7. ASSUME NEW t \in Tiers, NEW overrides \in BOOLEAN, RiskTierTriage(t, overrides)
      PROVE  state' \in States
  BY <1>7 DEF RiskTierTriage, Route
<1>8. ASSUME NEW matching \in SUBSET Leaves, ActivateLeaves(matching)
      PROVE  state' \in States
  BY <1>8 DEF ActivateLeaves, Route
<1>9. ASSUME NEW order \in Orders(picked), PlanSpecialistBatches(order)
      PROVE  state' \in States
  BY <1>9 DEF PlanSpecialistBatches, Route
<1>10. ASSUME NEW duplicates \in [Files -> LeafPartitions], CollectFindings(duplicates)
      PROVE  state' \in States
  BY <1>10 DEF CollectFindings, Route
<1>11. CASE MergeSpecialistOutputs
  BY <1>11 DEF MergeSpecialistOutputs, Route
<1>12. CASE VerifyCoverage
  BY <1>12 DEF VerifyCoverage, Route
<1>13. CASE SynthesizeReleaseReadiness
  BY <1>13 DEF SynthesizeReleaseReadiness, Route
<1>14. CASE ShortCircuitExit
  BY <1>14 DEF ShortCircuitExit, Route
<1>15. CASE StageAEmpty
  BY <1>15 DEF StageAEmpty, Route
<1>16. CASE VerifierStuck
  BY <1>16 DEF VerifierStuck, Route
<1>17. CASE WriteRunDirectory
  BY <1>17 DEF WriteRunDirectory, Route
<1>18. CASE EmitStdout
  BY <1>18 DEF EmitStdout, Route
<1>19. QED
  BY <1>1, <1>2, <1>3, <1>4, <1>5, <1>6, <1>7, <1>8, <1>9, <1>10, <1>11, <1>12, <1>13, <1>14,
     <1>15, <1>16, <1>17, <1>18 DEF FsmStep, WorkerCommit, LoopCommit, InlineHandler

\* No step takes a variable out of its range.
LEMMA StepTypes ==
  ASSUME FsmInv, FsmStep
  PROVE  FsmTypeInv'
<1> USE StepEffects DEF FsmInv, FsmTypeInv
<1>1. state' \in States
  BY StepStates
<1>2. RoutingType'
  BY DEF StepEffect, RoutingType
<1>3. VerdictType'
  BY DEF StepEffect, VerdictType, Verdicts
<1>4. batches' \in Seq(SUBSET Leaves)
  <2>1. ASSUME NEW order \in Orders(picked), batches' = Packed(order, SizeFor(tier))
        PROVE  batches' \in Seq(SUBSET Leaves)
    <3>1. IsFiniteSet(picked) /\ picked \subseteq Leaves
      BY LeavesAssumption, FS_Subset DEF RoutingType
    <3>2. SizeFor(tier) \in Nat \ {0}
      BY BatchAssumption DEF SizeFor
    <3>3. batches' \in Seq(SUBSET picked)
      BY <2>1, <3>1, <3>2, PackedAll
    <3>4. QED
      BY <3>1, <3>3
  <2>2. QED
    BY <2>1 DEF StepEffect, DispatchType
<1>5. loop_iters' \in Seq(Payloads)
  BY DEF StepEffect, DispatchType
<1>6. merged' \in Payloads
  <2>1. Committed \subseteq Leaves
    BY DEF Committed, Payloads, DispatchType
  <2>2. ASSUME NEW leaf \in Committed
        PROVE  loop_iters[LastIteration(leaf)][leaf] \in Outputs
    BY <2>2, LastIterationIs DEF Payloads, DispatchType
  <2>3. Folded \in Payloads
    BY <2>1, <2>2 DEF Folded, Payloads
  <2>4. merged' \in WithinBudget(Folded) => merged' \in Payloads
    BY <2>3, WithinBudgetKeepsLeaves
  <2>5. QED
    BY <2>4 DEF StepEffect, DispatchType
<1>7. rejections' \in [WorkerStates \cup {LoopState} -> 0..RejectionLimit]
  <2>1. 0 \in 0..RejectionLimit
    BY BoundsAssumption
  <2>2. QED
    BY <2>1 DEF StepEffect, RunType
<1>8. manifests' \in Seq(Manifests)
  <2>1. ASSUME state = "write_run_directory"
        PROVE  [verdict |-> verdict, tier |-> tier, degraded_run |-> degraded_run] \in Manifests
    <3>1. verdict \in Verdicts
      BY <2>1 DEF ReportInv, PastVerdict, VerdictType
    <3>2. QED
      BY <3>1 DEF Manifests, RoutingType, VerdictType
  <2>2. QED
    BY <2>1 DEF StepEffect, RunType
<1>9. KeysType'
  BY DEF StepEffect, CommitOutputs, KeysType
<1>10. QED
  BY <1>1, <1>2, <1>3, <1>4, <1>5, <1>6, <1>7, <1>8, <1>9 DEF DispatchType, RunType

-----------------------------------------------------------------------------
(* No step breaks the other parts of the invariant.                        *)

\* A step leaves a worker state for another one only below the limit of its
\* rejections, and only verifier_stuck takes a rejection back.
LEMMA StepImpasse ==
  ASSUME FsmInv, FsmStep
  PROVE  ImpasseInv'
<1> USE BoundsAssumption DEF FsmInv, FsmTypeInv, RunType, VerdictType, ImpasseInv, WorkerStates,
    LoopState
<1>1. ASSUME NEW stamp \in Tiers \cup {"none", "cheap"}, ScanProject(stamp)
      PROVE  ImpasseInv'
  BY <1>1 DEF ScanProject, Route, routingVars, dispatchVars, verdictVars
<1>2. ASSUME NEW stamp \in Tiers \cup {"none", "cheap"}, NEW any_candidates \in BOOLEAN,
             TreeDescend(any_candidates, stamp)
      PROVE  ImpasseInv'
  BY <1>2 DEF TreeDescend, Route, routingVars, dispatchVars, verdictVars
<1>3. ASSUME NEW stamp \in Tiers \cup {"none", "cheap"}, NEW answer \in SUBSET Leaves,
             NEW rescues \in SUBSET (Leaves \X Files), LlmTrim(answer, rescues, stamp)
      PROVE  ImpasseInv'
  BY <1>3 DEF LlmTrim, Route, routingVars, dispatchVars, verdictVars
<1>4. ASSUME NEW stamp \in Tiers \cup {"none", "cheap"}, ToolDiscovery(stamp)
      PROVE  ImpasseInv'
  BY <1>4 DEF ToolDiscovery, Route, routingVars, dispatchVars, verdictVars
<1>5. ASSUME NEW stamp \in Tiers \cup {"none", "cheap"}, NEW kept \in SUBSET findings,
             RankFindings(kept, stamp)
      PROVE  ImpasseInv'
  BY <1>5 DEF RankFindings, Route, routingVars, dispatchVars, verdictVars
<1>6. ASSUME NEW payload \in Payloads, NEW loop_done \in BOOLEAN,
             CommitIteration(payload, loop_done)
      PROVE  ImpasseInv'
  BY <1>6 DEF CommitIteration, Route, routingVars, dispatchVars, verdictVars
<1>7. ASSUME NEW t \in Tiers, NEW overrides \in BOOLEAN, RiskTierTriage(t, overrides)
      PROVE  ImpasseInv'
  BY <1>7 DEF RiskTierTriage, Route, routingVars, dispatchVars, verdictVars
<1>8. ASSUME NEW matching \in SUBSET Leaves, ActivateLeaves(matching)
      PROVE  ImpasseInv'
  BY <1>8 DEF ActivateLeaves, Route, routingVars, dispatchVars, verdictVars
<1>9. ASSUME NEW order \in Orders(picked), PlanSpecialistBatches(order)
      PROVE  ImpasseInv'
  BY <1>9 DEF PlanSpecialistBatches, Route, routingVars, dispatchVars, verdictVars
<1>10. ASSUME NEW duplicates \in [Files -> LeafPartitions], CollectFindings(duplicates)
      PROVE  ImpasseInv'
  BY <1>10 DEF CollectFindings, Route, routingVars, dispatchVars, verdictVars
<1>11. CASE MergeSpecialistOutputs
  BY <1>11 DEF MergeSpecialistOutputs, Route, routingVars, dispatchVars, verdictVars
<1>12. CASE VerifyCoverage
  BY <1>12 DEF VerifyCoverage, Route, routingVars, dispatchVars, verdictVars
<1>13. CASE SynthesizeReleaseReadiness
  BY <1>13 DEF SynthesizeReleaseReadiness, Route, routingVars, dispatchVars, verdictVars
<1>14. CASE ShortCircuitExit
  BY <1>14 DEF ShortCircuitExit, Route, routingVars, dispatchVars, verdictVars
<1>15. CASE StageAEmpty
  BY <1>15 DEF StageAEmpty, Route, routingVars, dispatchVars, verdictVars
<1>16. CASE VerifierStuck
  BY <1>16 DEF VerifierStuck, Route, routingVars, dispatchVars, verdictVars
<1>17. CASE WriteRunDirectory
  BY <1>17 DEF WriteRunDirectory, Route, routingVars, dispatchVars, verdictVars
<1>18. CASE EmitStdout
  BY <1>18 DEF EmitStdout, Route, routingVars, dispatchVars, verdictVars
<1>19. QED
  BY <1>1, <1>2, <1>3, <1>4, <1>5, <1>6, <1>7, <1>8, <1>9, <1>10, <1>11, <1>12, <1>13, <1>14,
     <1>15, <1>16, <1>17, <1>18 DEF FsmStep, WorkerCommit, LoopCommit, InlineHandler

\* A step that gives a verdict goes to the report, the report records it once,
\* and no step takes either back.
LEMMA StepReport ==
  ASSUME FsmInv, FsmStep
  PROVE  ReportInv'
<1> USE BoundsAssumption DEF FsmInv, FsmTypeInv, RunType, ReportInv, LoopState, PastScan,
    PastTriage, PastActivate, PastDescend, PastTrim, PastTools, PastPlan, PastMerge, PastCollect,
        PastManifest, PastVerdict
<1>1. ASSUME NEW stamp \in Tiers \cup {"none", "cheap"}, ScanProject(stamp)
      PROVE  ReportInv'
  BY <1>1 DEF ScanProject, Route, routingVars, dispatchVars, verdictVars
<1>2. ASSUME NEW stamp \in Tiers \cup {"none", "cheap"}, NEW any_candidates \in BOOLEAN,
             TreeDescend(any_candidates, stamp)
      PROVE  ReportInv'
  BY <1>2 DEF TreeDescend, Route, routingVars, dispatchVars, verdictVars
<1>3. ASSUME NEW stamp \in Tiers \cup {"none", "cheap"}, NEW answer \in SUBSET Leaves,
             NEW rescues \in SUBSET (Leaves \X Files), LlmTrim(answer, rescues, stamp)
      PROVE  ReportInv'
  BY <1>3 DEF LlmTrim, Route, routingVars, dispatchVars, verdictVars
<1>4. ASSUME NEW stamp \in Tiers \cup {"none", "cheap"}, ToolDiscovery(stamp)
      PROVE  ReportInv'
  BY <1>4 DEF ToolDiscovery, Route, routingVars, dispatchVars, verdictVars
<1>5. ASSUME NEW stamp \in Tiers \cup {"none", "cheap"}, NEW kept \in SUBSET findings,
             RankFindings(kept, stamp)
      PROVE  ReportInv'
  BY <1>5 DEF RankFindings, Route, routingVars, dispatchVars, verdictVars
<1>6. ASSUME NEW payload \in Payloads, NEW loop_done \in BOOLEAN,
             CommitIteration(payload, loop_done)
      PROVE  ReportInv'
  BY <1>6 DEF CommitIteration, Route, routingVars, dispatchVars, verdictVars
<1>7. ASSUME NEW t \in Tiers, NEW overrides \in BOOLEAN, RiskTierTriage(t, overrides)
      PROVE  ReportInv'
  BY <1>7 DEF RiskTierTriage, Route, routingVars, dispatchVars, verdictVars
<1>8. ASSUME NEW matching \in SUBSET Leaves, ActivateLeaves(matching)
      PROVE  ReportInv'
  BY <1>8 DEF ActivateLeaves, Route, routingVars, dispatchVars, verdictVars
<1>9. ASSUME NEW order \in Orders(picked), PlanSpecialistBatches(order)
      PROVE  ReportInv'
  BY <1>9 DEF PlanSpecialistBatches, Route, routingVars, dispatchVars, verdictVars
<1>10. ASSUME NEW duplicates \in [Files -> LeafPartitions], CollectFindings(duplicates)
      PROVE  ReportInv'
  BY <1>10 DEF CollectFindings, Route, routingVars, dispatchVars, verdictVars
<1>11. CASE MergeSpecialistOutputs
  BY <1>11 DEF MergeSpecialistOutputs, Route, routingVars, dispatchVars, verdictVars
<1>12. CASE VerifyCoverage
  BY <1>12 DEF VerifyCoverage, Route, routingVars, dispatchVars, verdictVars
<1>13. CASE SynthesizeReleaseReadiness
  BY <1>13 DEF SynthesizeReleaseReadiness, Route, routingVars, dispatchVars, verdictVars
<1>14. CASE ShortCircuitExit
  BY <1>14 DEF ShortCircuitExit, Route, routingVars, dispatchVars, verdictVars
<1>15. CASE StageAEmpty
  BY <1>15 DEF StageAEmpty, Route, routingVars, dispatchVars, verdictVars
<1>16. CASE VerifierStuck
  BY <1>16 DEF VerifierStuck, Route, routingVars, dispatchVars, verdictVars
<1>17. CASE WriteRunDirectory
  BY <1>17 DEF WriteRunDirectory, Route, routingVars, dispatchVars, verdictVars
<1>18. CASE EmitStdout
  BY <1>18 DEF EmitStdout, Route, routingVars, dispatchVars, verdictVars
<1>19. QED
  BY <1>1, <1>2, <1>3, <1>4, <1>5, <1>6, <1>7, <1>8, <1>9, <1>10, <1>11, <1>12, <1>13, <1>14,
     <1>15, <1>16, <1>17, <1>18 DEF FsmStep, WorkerCommit, LoopCommit, InlineHandler

\* A step adds to env what its state provides and takes nothing away, and the
\* state it goes to comes next on the path, is a detour or is a join.
LEMMA StepKeys ==
  ASSUME FsmInv, FsmStep
  PROVE  KeysInv'
<1> USE DEF FsmInv, KeysInv, LoopState, PastScan, PastTriage, PastActivate, PastDescend, PastTrim,
    PastTools, PastPlan, PastMerge, PastCollect, PastManifest, PastVerdict
<1>1. ASSUME NEW stamp \in Tiers \cup {"none", "cheap"}, ScanProject(stamp)
      PROVE  KeysInv'
  BY <1>1 DEF ScanProject, CommitOutputs, Route, routingVars, dispatchVars, verdictVars
<1>2. ASSUME NEW stamp \in Tiers \cup {"none", "cheap"}, NEW any_candidates \in BOOLEAN,
             TreeDescend(any_candidates, stamp)
      PROVE  KeysInv'
  BY <1>2 DEF TreeDescend, CommitOutputs, Route, routingVars, dispatchVars, verdictVars
<1>3. ASSUME NEW stamp \in Tiers \cup {"none", "cheap"}, NEW answer \in SUBSET Leaves,
             NEW rescues \in SUBSET (Leaves \X Files), LlmTrim(answer, rescues, stamp)
      PROVE  KeysInv'
  BY <1>3 DEF LlmTrim, CommitOutputs, Route, routingVars, dispatchVars, verdictVars
<1>4. ASSUME NEW stamp \in Tiers \cup {"none", "cheap"}, ToolDiscovery(stamp)
      PROVE  KeysInv'
  BY <1>4 DEF ToolDiscovery, CommitOutputs, Route, routingVars, dispatchVars, verdictVars
<1>5. ASSUME NEW stamp \in Tiers \cup {"none", "cheap"}, NEW kept \in SUBSET findings,
             RankFindings(kept, stamp)
      PROVE  KeysInv'
  BY <1>5 DEF RankFindings, CommitOutputs, Route, routingVars, dispatchVars, verdictVars
<1>6. ASSUME NEW payload \in Payloads, NEW loop_done \in BOOLEAN,
             CommitIteration(payload, loop_done)
      PROVE  KeysInv'
  BY <1>6 DEF CommitIteration, CommitOutputs, Route, routingVars, dispatchVars, verdictVars
<1>7. ASSUME NEW t \in Tiers, NEW overrides \in BOOLEAN, RiskTierTriage(t, overrides)
      PROVE  KeysInv'
  BY <1>7 DEF RiskTierTriage, CommitOutputs, Route, routingVars, dispatchVars, verdictVars
<1>8. ASSUME NEW matching \in SUBSET Leaves, ActivateLeaves(matching)
      PROVE  KeysInv'
  BY <1>8 DEF ActivateLeaves, CommitOutputs, Route, routingVars, dispatchVars, verdictVars
<1>9. ASSUME NEW order \in Orders(picked), PlanSpecialistBatches(order)
      PROVE  KeysInv'
  BY <1>9 DEF PlanSpecialistBatches, CommitOutputs, Route, routingVars, dispatchVars, verdictVars
<1>10. ASSUME NEW duplicates \in [Files -> LeafPartitions], CollectFindings(duplicates)
      PROVE  KeysInv'
  BY <1>10 DEF CollectFindings, CommitOutputs, Route, routingVars, dispatchVars, verdictVars
<1>11. CASE MergeSpecialistOutputs
  BY <1>11
  DEF MergeSpecialistOutputs, CommitOutputs, Route, routingVars, dispatchVars, verdictVars
<1>12. CASE VerifyCoverage
  BY <1>12, KeysAtJoins
  DEF VerifyCoverage, CommitOutputs, Route, routingVars, dispatchVars, verdictVars
<1>13. CASE SynthesizeReleaseReadiness
  BY <1>13
  DEF SynthesizeReleaseReadiness, CommitOutputs, Route, routingVars, dispatchVars, verdictVars
<1>14. CASE ShortCircuitExit
  BY <1>14, KeysAtJoins
  DEF ShortCircuitExit, CommitOutputs, Route, routingVars, dispatchVars, verdictVars
<1>15. CASE StageAEmpty
  BY <1>15, KeysAtJoins
  DEF StageAEmpty, CommitOutputs, Route, routingVars, dispatchVars, verdictVars
<1>16. CASE VerifierStuck
  BY <1>16, KeysAtJoins
  DEF VerifierStuck, FsmTypeInv, RunType, CommitOutputs, Route, routingVars, dispatchVars,
      verdictVars
<1>17. CASE WriteRunDirectory
  BY <1>17 DEF WriteRunDirectory, CommitOutputs, Route, routingVars, dispatchVars, verdictVars
<1>18. CASE EmitStdout
  BY <1>18 DEF EmitStdout, CommitOutputs, Route, routingVars, dispatchVars, verdictVars
<1>19. QED
  BY <1>1, <1>2, <1>3, <1>4, <1>5, <1>6, <1>7, <1>8, <1>9, <1>10, <1>11, <1>12, <1>13, <1>14,
     <1>15, <1>16, <1>17, <1>18 DEF FsmStep, WorkerCommit, LoopCommit, InlineHandler

\* From the trim to the verdict a step keeps what was picked, planned, merged
\* and credited together; the cases that matter are the plan, the merge, the
\* coverage check and the two ways to a GO.
LEMMA StepReview ==
  ASSUME FsmInv, FsmStep
  PROVE  ReviewInv'
<1> USE DEF FsmInv, FsmTypeInv, ReviewInv, LoopState, PastScan, PastTriage, PastActivate,
    PastDescend, PastTrim, PastTools, PastPlan, PastMerge, PastCollect, PastManifest, PastVerdict
<1>a. UNCHANGED batches => Planned' = Planned
  BY DEF Planned
<1>b. UNCHANGED <<findings, picked, coverage_rescues>> => Uncovered' = Uncovered
  BY DEF Uncovered, Gap, Credited
<1>c. UNCHANGED <<triaged, activated, findings, picked, coverage_rescues>> => Earned' = Earned
  BY DEF Earned, Credited, GateFails
<1>1. ASSUME NEW stamp \in Tiers \cup {"none", "cheap"}, ScanProject(stamp)
      PROVE  ReviewInv'
  BY <1>1, <1>a, <1>b, <1>c DEF ScanProject, Route, routingVars, dispatchVars, verdictVars
<1>2. ASSUME NEW stamp \in Tiers \cup {"none", "cheap"}, NEW any_candidates \in BOOLEAN,
             TreeDescend(any_candidates, stamp)
      PROVE  ReviewInv'
  BY <1>2, <1>a, <1>b, <1>c DEF TreeDescend, Route, routingVars, dispatchVars, verdictVars
<1>3. ASSUME NEW stamp \in Tiers \cup {"none", "cheap"}, NEW answer \in SUBSET Leaves,
             NEW rescues \in SUBSET (Leaves \X Files), LlmTrim(answer, rescues, stamp)
      PROVE  ReviewInv'
  BY <1>3, <1>a, <1>b, <1>c DEF LlmTrim, Route, routingVars, dispatchVars, verdictVars
<1>4. ASSUME NEW stamp \in Tiers \cup {"none", "cheap"}, ToolDiscovery(stamp)
      PROVE  ReviewInv'
  BY <1>4, <1>a, <1>b, <1>c DEF ToolDiscovery, Route, routingVars, dispatchVars, verdictVars
<1>5. ASSUME NEW stamp \in Tiers \cup {"none", "cheap"}, NEW kept \in SUBSET findings,
             RankFindings(kept, stamp)
      PROVE  ReviewInv'
  BY <1>5, <1>a, <1>b, <1>c DEF RankFindings, Route, routingVars, dispatchVars, verdictVars
<1>6. ASSUME NEW payload \in Payloads, NEW loop_done \in BOOLEAN,
             CommitIteration(payload, loop_done)
      PROVE  ReviewInv'
  BY <1>6, <1>a, <1>b, <1>c DEF CommitIteration, Route, routingVars, dispatchVars, verdictVars
<1>7. ASSUME NEW t \in Tiers, NEW overrides \in BOOLEAN, RiskTierTriage(t, overrides)
      PROVE  ReviewInv'
  BY <1>7, <1>a, <1>b, <1>c DEF RiskTierTriage, Route, routingVars, dispatchVars, verdictVars
<1>8. ASSUME NEW matching \in SUBSET Leaves, ActivateLeaves(matching)
      PROVE  ReviewInv'
  BY <1>8, <1>a, <1>b, <1>c DEF ActivateLeaves, Route, routingVars, dispatchVars, verdictVars
<1>9. ASSUME NEW order \in Orders(picked), PlanSpecialistBatches(order)
      PROVE  ReviewInv'
  <2>1. IsFiniteSet(picked)
    BY LeavesAssumption, FS_Subset DEF RoutingType
  <2>2. SizeFor(tier) \in Nat \ {0}
    BY BatchAssumption DEF SizeFor
  <2>3. batches' = Packed(order, SizeFor(tier))
    BY <1>9 DEF PlanSpecialistBatches
  <2>4. LeavesOf(batches') = picked
    BY <2>1, <2>2, <2>3, PackedAll
  <2>5. Planned' = picked
    BY <2>4 DEF Planned, LeavesOf
  <2>6. state' \in {LoopState, "merge_specialist_outputs"} /\ UNCHANGED picked
    BY <1>9 DEF PlanSpecialistBatches, routingVars
  <2>7. QED
    BY <2>5, <2>6
<1>10. ASSUME NEW duplicates \in [Files -> LeafPartitions], CollectFindings(duplicates)
      PROVE  ReviewInv'
  BY <1>10, <1>a, <1>b, <1>c DEF CollectFindings, Route, routingVars, dispatchVars, verdictVars
<1>11. CASE MergeSpecialistOutputs
  <2>1. DOMAIN merged' = Committed
    BY <1>11, WithinBudgetKeepsLeaves DEF MergeSpecialistOutputs, Folded
  <2>2. picked \subseteq DOMAIN merged'
    BY <1>11, <2>1 DEF MergeSpecialistOutputs, LoopDrained
  <2>3. QED
    BY <1>11, <2>2, <1>a DEF MergeSpecialistOutputs, Route, routingVars, dispatchVars, verdictVars
<1>12. CASE VerifyCoverage
  <2>1. coverage_rule_violated' = Uncovered
    BY <1>12 DEF VerifyCoverage, Uncovered
  <2>2. QED
    BY <1>12, <2>1, <1>b DEF VerifyCoverage, Route, routingVars, dispatchVars, verdictVars
<1>13. CASE SynthesizeReleaseReadiness
  <2>1. ASSUME verdict' = "GO", ~degraded_run
        PROVE  Earned
    <3>1. ~GateFails /\ ~Uncovered
      BY <1>13, <2>1 DEF SynthesizeReleaseReadiness
    <3>2. \A file \in Files : IsFiniteSet(Credited(file))
      BY LeavesAssumption, FS_Subset DEF Credited
    <3>3. \A file \in Files : Cardinality(Credited(file)) \in Nat
      BY <3>2, FS_CardinalityType
    <3>4. QED
      BY <3>1, <3>3 DEF Earned, Uncovered, Gap
  <2>2. QED
    BY <1>13, <2>1, <1>c
    DEF SynthesizeReleaseReadiness, Route, routingVars, dispatchVars, verdictVars
<1>14. CASE ShortCircuitExit
  <2>1. Earned'
    BY <1>14 DEF ShortCircuitExit, Earned, routingVars
  <2>2. QED
    BY <1>14, <2>1 DEF ShortCircuitExit, Route, routingVars, dispatchVars, verdictVars
<1>15. CASE StageAEmpty
  BY <1>15, <1>a, <1>b, <1>c DEF StageAEmpty, Route, routingVars, dispatchVars, verdictVars
<1>16. CASE VerifierStuck
  BY <1>16, <1>a, <1>b, <1>c DEF VerifierStuck, Route, routingVars, dispatchVars, verdictVars
<1>17. CASE WriteRunDirectory
  BY <1>17, <1>a, <1>b, <1>c DEF WriteRunDirectory, Route, routingVars, dispatchVars, verdictVars
<1>18. CASE EmitStdout
  BY <1>18, <1>a, <1>b, <1>c DEF EmitStdout, Route, routingVars, dispatchVars, verdictVars
<1>19. QED
  BY <1>1, <1>2, <1>3, <1>4, <1>5, <1>6, <1>7, <1>8, <1>9, <1>10, <1>11, <1>12, <1>13, <1>14,
     <1>15, <1>16, <1>17, <1>18 DEF FsmStep, WorkerCommit, LoopCommit, InlineHandler

\* The invariant is inductive.
LEMMA StepFsmInv ==
  ASSUME FsmInv, FsmStep
  PROVE  FsmInv'
<1>1. FsmTypeInv'
  BY StepTypes
<1>2. QED
  BY <1>1, StepKeys, StepImpasse, StepReport, StepReview DEF FsmInv

-----------------------------------------------------------------------------
(* What the invariant says of the properties the runs check.               *)

\* In every state, what the steps before it left in env holds what it reads.
LEMMA InputsThere ==
  ASSUME FsmInv
  PROVE  InputsPresent
<1> USE DEF FsmInv, KeysInv, LoopState, PastScan, PastTriage, PastActivate, PastDescend, PastTrim,
    PastTools, PastPlan, PastMerge, PastCollect, PastManifest, PastVerdict
<1>1. state \in States
  BY DEF FsmTypeInv
<1>2. CASE state \in DOMAIN RoutingReads
  <2>1. Reads[state] = RoutingReads[state]
    BY <1>2, DeclarationsAt
  <2>2. \A s \in DOMAIN RoutingReads : Provides[s] = RoutingProvides[s]
    BY DeclarationsAt
  <2>3. QED
    BY <1>2, <2>1, <2>2, ReadsDomains DEF RoutingReads, RoutingProvides, InputsPresent
<1>3. CASE state \in DOMAIN DispatchReads
  <2>1. Reads[state] = DispatchReads[state]
    BY <1>3, DeclarationsAt
  <2>2. /\ \A s \in DOMAIN RoutingReads : Provides[s] = RoutingProvides[s]
        /\ \A s \in DOMAIN DispatchReads : Provides[s] = DispatchProvides[s]
    BY DeclarationsAt
  <2>3. QED
    BY <1>3, <2>1, <2>2, ReadsDomains
    DEF DispatchReads, RoutingProvides, DispatchProvides, InputsPresent
<1>4. CASE state \in DOMAIN VerdictReads
  <2>1. Reads[state] = VerdictReads[state]
    BY <1>4, DeclarationsAt
  <2>2. /\ \A s \in DOMAIN RoutingReads : Provides[s] = RoutingProvides[s]
        /\ \A s \in DOMAIN DispatchReads : Provides[s] = DispatchProvides[s]
        /\ \A s \in DOMAIN VerdictReads : Provides[s] = VerdictProvides[s]
    BY DeclarationsAt
  <2>3. QED
    BY <1>4, <2>1, <2>2, ReadsDomains
    DEF VerdictReads, RoutingProvides, DispatchProvides, VerdictProvides, InputsPresent
<1>5. CASE state \in DOMAIN ExitReads
  <2>1. Reads[state] = ExitReads[state]
    BY <1>5, DeclarationsAt
  <2>2. /\ Provides["risk_tier_triage"] = RoutingProvides["risk_tier_triage"]
        /\ Provides["synthesize_release_readiness"] = VerdictProvides["synthesize_release_readiness"]
        /\ Provides["write_run_directory"] = ExitProvides["write_run_directory"]
    BY DeclarationsAt, ReadsDomains
  <2>3. state = "verifier_stuck" => "verifier_rejection_counts" \in env_keys
    BY BoundsAssumption DEF ImpasseInv, FsmTypeInv, RunType
  <2>4. QED
    BY <1>5, <2>1, <2>2, <2>3, ReadsDomains
    DEF ExitReads, RoutingProvides, VerdictProvides, ExitProvides, InputsPresent
<1>6. QED
  BY <1>1, <1>2, <1>3, <1>4, <1>5, ReadsDomains DEF States, WorkerStates, InlineStates

\* A run that returns GO without an impasse took the short circuit or credits
\* two reviewers for each file and blocks no gate.
LEMMA GoEarned ==
  ASSUME FsmInv
  PROVE  GoIsEarned
BY DEF FsmInv, ReviewInv, PastVerdict, PastManifest, GoIsEarned, Earned

\* The judgement and its record, as every driver's refinement of
\* ReviewLifecycle needs them: a step leaves both, or judges a run that has
\* neither, or records the judgement of a run that has one.
LEMMA JudgedThenRecorded ==
  ASSUME FsmInv, FsmStep
  PROVE  \/ UNCHANGED <<verdict, manifests>>
         \/ /\ verdict = "none" /\ manifests = <<>>
            /\ verdict' \in {"GO", "CONDITIONAL", "NO-GO"} /\ UNCHANGED manifests
         \/ /\ verdict # "none" /\ manifests = <<>> /\ UNCHANGED verdict
            /\ manifests' # <<>> /\ manifests'[Len(manifests')].verdict = verdict
<1>1. StepEffect
  BY StepEffects
<1>2. CASE state = "write_run_directory"
  <2>1. manifests = <<>> /\ verdict # "none" /\ UNCHANGED verdict
    BY <1>1, <1>2 DEF StepEffect, FsmInv, ReportInv, PastVerdict, PastManifest
  <2>2. QED
    BY <1>1, <2>1 DEF StepEffect
<1>3. CASE state # "write_run_directory"
  <2>1. UNCHANGED manifests
    BY <1>1, <1>3 DEF StepEffect
  <2>2. state \notin PastVerdict => verdict = "none" /\ manifests = <<>>
    BY DEF FsmInv, ReportInv, PastVerdict
  <2>3. QED
    BY <1>1, <2>1, <2>2 DEF StepEffect
<1>4. QED
  BY <1>2, <1>3

\* The ranges the drivers' type invariants state.
LEMMA FsmTypes ==
  ASSUME FsmInv
  PROVE  FsmTypeOK
<1> USE DEF FsmInv, FsmTypeInv
<1>1. \A b \in DOMAIN batches : batches[b] \subseteq Leaves
  BY DEF DispatchType
<1>2. \A p \in Payloads : p \in [DOMAIN p -> Outputs] /\ DOMAIN p \subseteq Leaves
  BY DEF Payloads
<1>3. \A i \in DOMAIN loop_iters : loop_iters[i] \in [DOMAIN loop_iters[i] -> Outputs]
  BY <1>2 DEF DispatchType
<1>4. merged \in [DOMAIN merged -> Outputs] /\ DOMAIN merged \subseteq Leaves
  BY <1>2 DEF DispatchType
<1>5. QED
  BY <1>1, <1>3, <1>4 DEF FsmTypeOK, RoutingType, VerdictType, RunType, KeysType
=============================================================================
