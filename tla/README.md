# A TLA+ model of the code-review engine

This directory specifies, model-checks and proves properties of the Python
package `code_review`: the finite state machine that turns a diff into a
release-readiness verdict, the two programs that drive it, and the benchmark
ledger that decides which changes to it are kept. Paths below are relative to
`src/`.

## 1. The system

A review is a run of one FSM (`code_review/spec.py`). Its *worker* states are
answered by a language model (`scan_project`, `tree_descend`, `llm_trim`,
`tool_discovery`, `rank_findings`), its *loop* state `dispatch_specialists`
commits the outputs of reviewer specialists batch by batch, and its *inline*
states are Python handlers (`code_review/handlers.py`). All states share one
`env`: the outputs a state commits are laid over it.

| Part | State it keeps | Operations | Interacts with | What is hard | Correct when |
|---|---|---|---|---|---|
| Specialist pool (`runner.py` 264-419) | limiter (`limit`, `inflight`), executor queue, call stack of every thread, `RunnerStats` | submit, collect, acquire, release, penalize, reward, split, retry | called once by `run_review`; calls the specialist hook | threads, back-off, recursion on context overflow, condition variable | each file of each unit settled once, no slot leaked, no lost wakeup, it returns |
| Driver `run_review` (`runner.py` 234-261, 503-636) | `env`, current state, step count, attempts, pool results | worker call with retries, one loop iteration, inline step, fault | FSM, hooks, pool | retries, degradable workers, several caps, `env` overwritten by every state | no result lost between pool, loop and merge; it judges, records and delivers once; it ends |
| Agent and verifier panel (`verifier_handler.py`, `spec.py` 181-190, 848-859) | rejections per state, votes | commit, reject, give up, resume in `verifier_stuck` | engine commits, dispatcher calls | malformed votes, disagreement for ever, batches committed twice, in part or not at all | the panel fails closed, an impasse is earned, no leaf disappears |
| FSM and its handlers (`spec.py`, `handlers.py`) | tier, routing stages, batches, outputs, findings, coverage, verdict | one handler per state, routing predicates | both drivers | detours that rejoin the main path with later stages never run | GO is earned |
| Batch planner and merge (`handlers.py` 2281-2432, 2445-2790) | batches of units, iterations, shards | slice, pack, commit, fold, trim, persist | planner before, collector after the loop | two roundings, last iteration wins, an aggregate budget that drops findings | slices partition the files, each planned unit is merged, trimming takes the least |
| Findings collector, ranker, gates (`handlers.py` 817-1049, 1197-1353, `dispatch.py` 332-366) | records by key, union-find, findings, gates | exact merge, semantic merge, drops, gate status | merge before, verdict after | order of arrival, chains of similarity, representatives | nothing vanishes or is played down, the components are right, blockers reach the gates |
| Leaf activation (`handlers.py` 385-807) | reviewer index, signals, activated leaves | walk of the wiki, path/keyword/structural signals, escalation to a fixpoint | first routing step; feeds the narrowing calls | links that loop or leave the wiki, ids given twice, escalation in file order | each page listed, the activated leaves are the least closed set |
| Dispatch hooks (`dispatch.py`) | none; the leaves' metadata in the prompts | compact, cap, call a backend, classify, re-attach, choose a model | every driver; activation before, specialists after | a model that rewrites, invents or empties fields; a prompt at its cap; backends fail in many ways | no leaf cut off by long lists, what was stripped is there again |
| Run artefacts (`handlers.py` 1392-1434, 1602-2203, `scripts/ingest_timings.py`) | run directory: report in two forms, manifest, timings | write, rename, print, write again, ingest | file system, the user, the tracker | crash between two writes, resumption after midnight or elsewhere, readers at any moment | no reader takes a part for a record, what is printed was recorded |
| Experiment tracker (`benchmarks/experiments.py`, `scripts/ingest_timings.py`) | SQLite tables of experiments, metrics, findings, dead ends, timings | migrate, record, attach intervals, gate, ingest, report | commands of several processes on one database | reads and the write of a gate are not one transaction; the migration is check-then-act | a row is promoted on its own numbers, the gate is monotone in every metric, every command opens, measured times stay |
| Scripts (`scripts/`), installer, CLI | files | one-shot moves, statistics | none | none | not modelled |

The interactions: the planner writes `specialist_batches`; `run_review` hands
all of its units to the pool in the first loop iteration and commits one batch
per iteration; the merge checks that every planned unit has an output; the
collector merges their findings; the ranker drops some; `verify_coverage`
credits reviewers to files; `synthesize_release_readiness` turns gates and
coverage into a verdict; the run directory records it and only then is it
delivered. The ingest of timings walks the run directories at any time and feeds
the tracker. `PROJECT.json` lists the hazards of this code at their lines.

## 2. Modules

| Module | Models | How it corresponds |
|---|---|---|
| `SpecialistPool` | `_AdaptiveLimiter`, `_split_unit`, `_dispatch_one`, `_dispatch_units` | One action per critical section of the condition variable and per outcome of a hook call. The recursion of `_dispatch_one` on the halves of a unit is a list `todo[t]` per thread. A `with self._cond` block is one step; `Penalize` and `Reward` are apart from `Release`/settling exactly where the code leaves the lock between them. |
| `UnitCoverage` | the promise of `_dispatch_units` | Abstract: no threads, limiter, retries or splits. |
| `SpecialistPoolProofs` | | The proofs about the pool. |
| `ReviewFsm` | `spec.py` and what the handlers write | One operator per state. Not a specification by itself: the drivers say who calls the operators and when. Leaves stand for reviewers and for their only unit; findings are file, raisers and severity class. What the aggregate guard of the merge trims is any choice that spares the graver findings of a leaf; which outputs are too large is the constant `Oversized`. |
| `ReviewFsmProofs` | | What no step of the FSM breaks, whoever takes it: the proofs about both drivers rest on it. |
| `FsmEnv` | preconditions, worker inputs and response schemas of `spec.py` | For every state, the keys of `env` it reads and provides. `ReviewFsm` keeps the keys committed so far (`env_keys`). |
| `ReviewLifecycle` | the promise of a run | Abstract: open, judged, recorded, delivered, or broken. |
| `ReviewRunner` | `run_review` | `ReviewFsm` with retries, degradable worker, coverage floor, step cap, cost stamp and the one run of the pool. An iteration of its `for` loop is one step, a failed attempt a step of its own. |
| `ReviewOrchestrator` | agent, engine, panel | `ReviewFsm` with three votes per commit (each parsed as `_parse_vote` does it, the unreadable answers that raise included), rejection counting and `verifier_stuck`. Engine and agent are not in the repository; they are modelled from how `spec.py` and `handlers.py` rely on them, and marked external. |
| `ReviewDriversProofs` | | The proofs about both drivers. It extends the two specifications at once (their formulas have different names: `Spec` is `run_review`, `AgentSpec` the agent's run); neither constrains the variables of the other. |
| `BatchPlan` | planner and merge | A file is its place in `changed_paths`; a finding is a severity rank and one unit of size. The two loops of the merge that visit one finding at a time are steps. |
| `BatchPlanProofs` | | The proofs about the plan and the merge. |
| `LeafActivation` | `_enumerate_wiki_leaves`, `_fetch_diff_text`, `_evaluate_activation`, `_project_v2_fields` | A wiki is its directories' listings in name order with links resolved. A step is a directory of the walk, the pass over the leaves' own signals, or one escalation pass; reading the diff may also raise. Ids are numbers because the code compares them. Its properties are checked in the specification of `LeafDispatch`, which goes on from it. |
| `LeafDispatch` | `_compact_leaf`, the prompt cap, `_raise_for_signal`, `_parse_json`, `_rehydrate`, `dispatch_worker`, `dispatch_specialist` | One action per call of the model. A field of a leaf is absent, full, thin, or the model's own; a body cannot be told from the file when the model changed the path; an answer is any part of what was shown plus leaves that were not. |
| `LeafDispatchProofs` | | The proofs about activation and the calls that follow it. |
| `FindingCollector` | collector, ranker decisions, gates | One finding per step of the exact merge, one pair per step of the union-find with its path halving. Similarity of two texts may be answered either way for every pair, which covers token overlap and any embedder. |
| `FindingCollectorProofs` | | The proofs about the findings' way to the gates. |
| `RunRecords` | the promise of a run directory | Abstract: records published whole that stay, reviews shown and measurements counted only from them. |
| `RunArtefacts` | `_run_dir_path`, `_atomic_write_text`, `write_run_artefacts`, `emit_stdout`, `collect` and `per_review_cost` | Temporary write and rename are two steps, so a process may die before, between and after them. Files are numbered in the order they are written. The reader's two walks over the directories take one file at a time, and what it writes is keyed by pull request and name, as in the table. |
| `RunArtefactsProofs` | | The proofs about run directories. |
| `ExperimentTracker` | `init_db`, `record`, `ci`, `gate`, the timing ingest | One command per process at a time; a step is one SQLite statement or what a command writes before its one commit. A row's numbers are integers in hundredths; NULL is 0, as `summary_stat_gate` reads it. Rows of the database never carry the per-PR rounds that `promote_gate` would need, so every verdict comes from `summary_stat_gate`. |
| `ExperimentTrackerProofs` | | The proofs about the tracker. |
| `MC*` | | Constants of the TLC instances. |

`ReviewRunner` and `ReviewOrchestrator` compose the FSM with its drivers; both
are checked against `ReviewLifecycle` through `INSTANCE ... WITH`.
`SpecialistPool` is checked against `UnitCoverage`, `RunArtefacts`
against `RunRecords`. All four refinements are proved as well. `LeafDispatch` composes activation with the two narrowing
calls and the specialists' prompts. `BatchPlan`, `FindingCollector` and
`LeafDispatch` detail what `ReviewFsm` abstracts (`PlanSpecialistBatches` and
`MergeSpecialistOutputs`, `CollectFindings`, the routing states): there, a leaf
has one unit, any grouping of duplicates is possible, and any leaves are
activated and picked.

## 3. Runs

| Run | Instance | Shows |
|---|---|---|
| `pool` | 2 threads, a unit of 3 files and an empty one, one retry, `min_workers` 0, any answer | slot accounting, no lost wakeup, counters that add up within the retry budget, ownership of slices, no hidden review; refinement of `UnitCoverage`; the pool returns and no thread starves in `acquire()` |
| `pool_silent_skip` | 2 threads | violation: see section 5 |
| `runner` | 3 leaves in one to three batches, 1 file, loop cap 2, one retry, step cap 16; two leaves with findings of both grades exceed the aggregate budget | nothing lost between pool, loop and merge but what the budget takes, and the loop drains unless capped; the floor holds; GO is earned; lifecycle; termination |
| `runner_unreviewed_go`, `runner_tier` | 2 leaves | violations: see section 5 |
| `orchestrator` | 2 leaves, loop cap 2, rejection limit 2, three votes per commit, any of them incomplete, malformed, unreadable or an error, rescues possible; findings of both leaves exceed the budget | batches in any order, twice, in part, or left early: no leaf disappears; an impasse is earned; every state outside the detours finds the keys it counts on; the panel fails closed; lifecycle; termination |
| `orchestrator_degraded_go` | 2 leaves | violation: see section 5 |
| `plan` | every scope of 2 leaves over 5 files, 3 token limits, 3 batch sizes, up to 2 picks; plans of up to 2 units followed through 2 iterations, budget 2, shards of an earlier run, a merge that dies and is resumed | every plan partitions the scope, overshoots by less than one file and is packed tight; the merge is complete; trimming takes the least of each unit; shards mirror the outputs |
| `findings` | 3 leaves, up to 4 findings out of 6 that collide by key, by line, by similarity or not at all | nothing vanishes or is misattributed, exact merge canonical, union-find right at every step, blockers reach the gates |
| `routing` | 3 nested directories with a page each and two links anywhere; changes that match one page, or several with one id; escalation from at most one id; prompt cap of 9 light fields, a long list weighing 3; three ways for a model to treat fields, strays of an unshown, an unknown or no id; one retry | the wiki is walked, the activated leaves are the least closed set, no leaf is cut off by long lists, every field the wiki filled is at dispatch the wiki's or the model's own |
| `artefacts` | 2 reviews of one pull request, one with a leaf the other has not, 2 days, 2 crashes, agent or `run_review`, four kinds of request | records are whole, printed as recorded, ingested whole, an earlier record's rows only under names the later has not; refinement of `RunRecords` |
| `tracker` | 2 commands, 2 runs, 3 measurements (unknown, long and short samples), 1 interval to attach, with and without the migrated column | only a gate that was overtaken or a later interval makes a proven row the gates did not clear; the gate is monotone in every metric; nobody fails to open; measured times stay |

**Bounds and why they are enough.** Two threads are needed for a thread that
waits while another one holds the last slot; the safety invariants of the pool
are proved for any number of threads and units, so the run is there for the
liveness properties. A unit of three files is
the smallest that splits twice and unevenly, an empty one cannot split.
Three leaves give one, two and three batches against a cap of two, so the loop
is drained before, at and after the cap. `MaxSteps` 16 is the longest legal way (fourteen states and
two iterations), so a whole review fits and the cap is reached all the same; the
code's 512 is larger. The rejection limit is 2 where the code has 3: the second
rejection is the first that is counted on top of another, and each further one
multiplies the states of every later state. `Grades` are the severity classes a
finding may have, minor ones being
left out where no property tells them apart; `Oversized` is set so that the
budget is met in some behaviours and exceeded in others.
Five files with limits of
one to three files reach both roundings, short last slices and slices that run
out early; every plan is checked, and `Followed` and `MaxUnits` bound those
that are followed into the loop, where two units are what one iteration can
commit in part. Three nested directories are the least in which a link can close a
cycle over more than one level; one escalation source per page gives every
chain and cycle among three leaves. The prompt cap (what the other inputs of a call
leave of `_WORKER_INPUT_CAP`) lets three thin leaves in and not
three full ones. `Styles` and `Strays` bound what a model does: every field echoed, emptied or rewritten (in one style some are rewritten and `covers` is emptied), ids of another shown leaf and of none. Two reviews of one pull
request are what ingestion must put in order, and a leaf that only one of them
used is what lets rows of both stand side by side; two days and
`MaxCrashes` 2 let one review leave a part behind on the first day, complete on
the second, and be interrupted there again. Every run starts in the project
directory, and only an agent's run is resumed (`run_review` has no resume); all of this
is proved without those numbers. Four findings in one file are the
smallest set on which path halving shortens a path while the double loop is
still running. Two commands are enough for a record or a ci to come between the
reads and the write of a gate, and for two migrations to meet; three
measurements and the attached interval give promotions, reverts and the three
ways to be inconclusive, and a record may ask for `promote` and `ramp`. `MaxRaised`, `MaxPicked`, `MaxPerRank` bound inputs only; they
stand in guards or in the sets the inputs are drawn from.

**Fairness.** The pool assumes weak fairness of the main thread and of every
worker thread: the executor's threads are all running threads, and every hook
call ends because the backends bound it by a timeout that becomes
`RateLimitError`. `run_review` is one thread whose calls all return, hence weak
fairness of its next-state relation. For the orchestrator it is assumed that
the agent keeps committing until the run is over; nothing is assumed about what
the panel answers. `plan`, `findings`, `routing`, `artefacts` and `tracker` assume no
fairness: their properties are safety properties. Strong fairness is used nowhere. `CHECK_DEADLOCK` stays on:
a specification that can end has a stuttering step of its own that is enabled
only when the program has returned.

## 4. Proofs

`SpecialistPoolProofs` holds for any finite non-empty set of threads, any
number and size of units, any `min_workers <= max_workers` and any retry count
(the named assumptions of `SpecialistPool`).

The inductive invariant is `PoolInv`: `TypeOK`, `Ownership` and
`SlotAccounting` together. The properties that matter are not inductive alone:

* `SlotAccounting` (in-flight = threads inside a hook call) is what keeps
  `inflight - 1` natural on every exit path; its steps rest on three lemmas on
  the cardinality of the set of calling threads (`EnterCall`, `LeaveCall`,
  `SameCalls`).
* `Ownership` says that a unit without a result is in the queue or owned by
  exactly one thread, whose remaining slices are contiguous, end at the last
  file and start right after what is settled. `HalvesSplit`,
  `HalvesContiguous` and `TailContiguous` say that splitting and finishing a
  slice keep that shape; `SettleKeeps`, `SplitKeeps` and `TakeKeeps` are the
  three ways in which ownership changes.
* `LimiterBounds` and `NoLostWakeup` are inductive relative to `PoolInv`: every
  step that frees a slot or raises the limit ends in a `notify_all`
  (`Notified`).
* `FilesSettled` and `NoHiddenReview` are inductive relative to `PoolInv`: a
  unit gets its result in the step that settles the last of its slices.
* `CollectInv` (a collected unit has a result) is what the step that returns
  the map needs to be the `Return` of `UnitCoverage`.
* `CountersAddUp` is inductive relative to `PoolInv`. Its sum over the threads
  is the number of pairs of a thread and one of its pending slices, so that
  `SumChanges` needs cardinalities only: when one thread's number changes, the
  sum moves by the difference. `TermTypes`, `SettleMoves`, `AgainMoves` and
  `SplitMoves` say by how much each kind of step moves either side.

Theorems: `PoolSafety`, `SlotsAccounted`, `LimiterSafety`, `FileCoverage`, `CountersBalance`, the action property
`ResultsAreFinal`, and `PoolImplementsCoverage`, in which every action is
matched with one of `UnitCoverage` (settle some, settle the last, return) or a
stutter. `LimiterBounds`, `FilesSettled` and `ResolvedOnce` are proved and not
listed in a run: the last two also follow from the refinement that is checked.

`ExperimentTrackerProofs` holds for any sets of commands, runs, agents and
intervals and any integer measurements. `TypeCorrect` (`TypeOK`: what a command
holds at each place of its code, and that the row it will write to is there) is
inductive; `PromotionsAreEarned` is an action property: from `TypeOK`, each kind of
step is shown to clear the row it sets, with `GatedCleared` (a gate that judges the
numbers it has read) as its core, or to be one of the two exceptions; `OpeningIsSafe` needs only that the column never goes
away; `GateMonotone` rests on
`VerdictMonotone`, which orders the verdicts like the sets of green gates they
ask for, for any better candidate and not only the improvements that are tried
in the run; `MeasuredIsSafe` needs `MeasuredByName`, that a row which counts as
measured has the name of a measured one.

`RunArtefactsProofs` holds for any number of reviews, days and crashes, any
assignment of reviews to pull requests (numbered in path order) and any reports
and requests. `WriterInv` is inductive: beside the
shapes it has `DiskInOrder` (a file is there only if those before it are, and
none is torn), `WritersCount` (a writer's count is backed by the disk) and
`PathsLead` (the path a run hands on leads to a record). `RecordIsWhole` says
nothing of a writer under way and is not inductive without them. `PrintersSound` and
`ReaderInv` are inductive relative to `WriterInv`; they give
`PrintedAsRecorded` and `IngestIsWhole`. `RowsInOrder`, its last part, holds because what the
tracker has a row of is read again by every later ingest (`WriteRowsInOrder`). What the reader needs of the writer is only that a
directory with timings is a record and remains one
(`TimingsAreWhole`), so the reader's steps are proved without looking at the writer's.
`ArtefactsImplementRecords` matches the rename of the manifest with `Publish`,
printing with `Show`, the reader's commit with `Count`, and everything else
with a stutter.

`ReviewFsmProofs` holds for any finite sets of leaves and files, any scopes,
gated leaves, batch sizes and iteration cap. `FsmInv` is inductive for every step
of the FSM (`StepFsmInv`), with whatever answers, and has five parts:
`FsmTypeInv`; `KeysInv` (by state, the keys committed for sure, from `FsmEnv`'s
declarations, so that `InputsThere` follows); `ImpasseInv` (which rejections a state
can be left with: at the limit only into `verifier_stuck` or in a degraded run);
`ReportInv` (which of verdict, record and delivery exist in which state);
`ReviewInv` (the routing is what is planned, the plan is what is merged, and a verdict
outside a degraded run was given on the credits of all that). `GoIsEarned` compares a verdict with coverage computed
two states earlier and is inductive only with all five, since the detour over
`verifier_stuck` reaches the verdict without either. `LastPosition`,
`BatchOf` and `PackedAll` are about the batches, `LastIterationIs` about which
iteration an output comes from; `WithinBudgetKeepsLeaves` says that the aggregate
trimming drops no leaf and changes no status.

In `ReviewDriversProofs`, the first part adds what `run_review` does to it: `RunnerInv` is `FsmInv` with
`DriverInv` (its counters), `FloorInv`, `PoolInv` (the pool runs once, over every
planned unit, before the first commit), `IterationInv` (iteration k commits batch k
of those results) and `MergedInv` (what is merged are these results, within the budget). `NothingLost` only speaks of the states after
the merge; the four parts before it carry the results there. In
`RunnerImplementsLifecycle` each state's handler is matched with one step of
`ReviewLifecycle`, faults and caps with its `Break`.
The second part adds the panel: `PassedSlots` (what
parsing counts as passed said so) and `PanelsFailClosed` give the action
property `FailClosed`; a rejected commit and the entry into `verifier_stuck` are shown
to keep `FsmInv`, which then yields `NoLeafDisappears`, `ImpasseIsEarned`,
`InputsPresent` and the refinement.

`BatchPlanProofs` holds for any finite set of leaves, any number of files, token
limits, batch sizes, iterations and budget, and any leftovers made of outputs and
torn shards. `PlanInv` is inductive: `PlannedInv` (the
batches and the total are the planner's for the picked leaves; `PlannedSound` makes of this
that the plan is sound), `LoopInv` (commits are outputs of planned units), `MergeInv` (from
the merge on, every planned unit has its last committed output less what trimming
may take, and a shard unless it is pending) and `ShardInv`. The plan itself is arithmetic:
`CeilDivCovers` bounds the two roundings, `Ranked` gives each file its place in its
scope, and `SlicedCuts` shows the emitted slices to be consecutive runs of those places, of
which `ChunkFits` says that they fit. `FlattenJoins` and `FlattenElements`
prove what `FlattenSeq` does from the recursive function it is defined by, whose existence
comes from counting up (`CountingUp`) and not from an induction theorem; `PackTiles`
puts the units into batches. `TrimsTheLeast` needs that trimming drops the least
rank present (`LowestRankIsLeast`) and that one dropped finding changes one number of
the output (`DroppingOne`).

`FindingCollectorProofs` holds for any candidate findings, any number raised, any
answers of the similarity test and any assignment of leaves to gates.
`CollectorInv` is inductive: `ShapeInv`; `ExactInv` (the record of a key after any
prefix of the findings read); `HeldInv` (records quote truly, and each finding raised
has one that stands for it, dropped ones included); `PairInv`; `ForestInv` and `GatesInv`.
The union-find is the hard part: `ForestInv` says that the parents form a
forest whose trees are the components of the pairs found alike so far. `find`
changes the forest while it walks it; `WalkTurns` shows that the walk ends, with a
root, because each stride goes up in a forest of finitely many nodes, `StrideKeeps` that
path halving changes no tree, `UnionJoins` that joining two roots joins two components.
`SortedLists` and `ListedLists` show both sorts to be permutations.

`LeafDispatchProofs` holds for any finite set of directories, any pages, any
wikis whose listings name directories, pages or nothing, any number of ids, any
cap and any strays. `RoutingInv` is inductive and has a part for each stage.
`WalkInv`: what is on the stack is there once, has been visited and is
reachable; what has been visited and is not on the stack has been listed, so what lies
inside it is visited too; and each page is in the list exactly as often as the
listed directories name it. An empty stack then makes the visited
directories the reachable ones. `VisitKeeps` is the step, with `EnteredDirs`
(what a listing adds to the stack is new and there once) and `TimesAdd`;
`SortingMoves` shows the stable sort to be a permutation. `ActInv`: between two
rounds, what is activated lies between the leaves with a signal and the closure, and
the number of rounds is at most the number of activated ids. There are at most as
many ids as leaves (`LeafIdsCount`), so the loop's cap of one more round than
leaves never ends it (`EscalateCloses`), and a round that changes nothing
has closed the set. `EscalatedLeafByLeaf` gives the recursive function of a round its
equations, by counting up. `DispatchInv`: after each call the leaves in hand
that were activated, and after the second that also came through the first,
have every field their page has, the page's or the
model's own and never less than the prompt showed (`RehydrateRestores`, whatever `Answers` allows), which
`SpecialistsGetIntact` carries into the prompts as `MetadataIsReattached`. For
`LeavesReachTheModel`, `CompactLeafThins` bounds the weight of what is shown of a leaf
by one more than the number of its heavy fields.

Assumptions: beside the named `ASSUME`s of the modules, which every run
evaluates, the proofs use none. They are about the constants' types and finiteness, about
`MinWorkers <= MaxWorkers`, positive limits and caps, and, in
`LeftoversAssumption`, that a specialists' directory holds shards.

Only model-checked: liveness (outside the prover), which is `AllReturned`, `WaiterServed`,
`RunEnds` and `AgentRunEnds`. Every invariant and every action property of a passing run,
and the four refinements, are proved.

## 5. Where the code and its documents disagree

Each of these is a run in which TLC finds the quoted claim violated.

* `pool_silent_skip`: a unit split on overflow reports `completed` whatever its
  halves returned (`runner.py:368-370`), so what became of a failed half is not visible in the
  unit's output (it is counted in `stats.failed` only), against `runner.py:13-16`.
* `runner_tier`: the cost stamp of every worker call is laid over
  `env["tier"]`; the planner then looks up `"cheap"` and uses the default batch
  size, and the manifest records that tier, against `dispatch.py:386`.
* `runner_unreviewed_go`: coverage credits picked leaves whatever became of
  their specialists, so a run in which all failed can end in GO.
* `orchestrator_degraded_go`: `synthesize_release_readiness` does not read
  `degraded_run`, so a run that went through `verifier_stuck` can end in GO,
  against `SKILL.md:276`.
The models also contain four disagreements that no run refutes; the property
that the code does have says what is true instead:

* a vote that says "passed" without a reason counts (`verifier_handler.py:149-151`),
  against the docstring (`verifier_handler.py:132`), by which missing keys make a
  rejected vote. `FailClosed` counts both kinds of "passed" answer.
* `_parse_vote` catches `JSONDecodeError` only and stands outside the handler's
  `try`; an answer that is no string, or one that `json.loads` refuses with another
  error, breaks the commit instead of being rejected (action `PanelRaises`).
* a model that echoes the three-item `covers` it was shown keeps them
  (`dispatch.py:318`), so what follows does not see the complete leaves of
  `dispatch.py:458-459`. `MetadataSurvives` says what is true: nothing is absent, and
  only what a model wrote, such a copy included, replaces the wiki's. Likewise
  `_fetch_diff_text` catches `OSError` and `TimeoutExpired` only; a diff that does not
  decode raises out of `activate_leaves`, against "on any failure" (`handlers.py:713`;
  action `DiffRaises`).
* a `record` of the same run between the reads and the `UPDATE` of a `gate`
  leaves a promoted row whose own numbers were never compared, against the comment
  above the refusal in `cmd_record` (`experiments.py:981-984`), which makes the gate the
  sole authority. A `ci` after the gate does the same to the interval.
  `PromotionIsEarned` names these two ways and shows that there is no third.

Observed while modelling, outside the properties: `total_subs` is the number of slices
aimed at, which can exceed the number emitted (5 files in slices of 2 aimed at
4); the aggregate trimming stops as soon as the largest output has no finding,
even when others still do; picked leaves with one id collapse into one result
(`runner.py:405`).

Of the FSM: the detour over `verifier_stuck` reaches `synthesize` without
findings or picked leaves, though its preconditions name them; `stage_a_empty`,
reached from `activate_leaves`, has no `stage_a_candidates` to be empty. Nothing
enforces either; the handlers read an empty default (`InputsPresent` leaves
the handlers of the detours out). The shards lie under `storage_root/specialists`,
shared by all runs and without a run id; the comment at `handlers.py:2684` puts
them under the run directory.

Of routing: leaves a model invents are kept by
`_rehydrate`; a leaf the trimmer names and the descender dropped is dispatched
without its body. The cap drops the last leaves silently when even the thin
form does not fit. `claude_run` at exit 0 with output that is not JSON raises the
decoder's error and not `RateLimitError`; time-outs of the API backend are not
classified as rate limits; an answer of `{}` or no object becomes a completed
specialist without findings; `setdefault("id")` keeps a wrong id. The "root itself;
skip" guard of `_enumerate_wiki_leaves` never holds (`str(Path('.'))` is `"."`);
the set of visited directories covers the case.

Of run directories: the same run after midnight gets another directory, though
`handlers.py:1398-1401` calls the path idempotent; `run_id` in `timings.json` may
differ from the manifest's when a report is written again; a report resumed in
another directory prints nothing, since its path is relative;
`report-format.md:29` says the gate filter evaluates "only specific release
gates" where it filters the display; `_parse_severity_threshold` does not split
commas while `_build_scope` does. `per_review_cost` averages over every timings
file while the tracker keeps the last row per pull request and name, from two
listings of the directories; rows of a leaf that the latest review of a pull
request did not use stay beside that review's, and sums over the agents' rows
count them.

Of the tracker: the comment at `experiments.py:122-126` has an operator set
`ramp`, which `record`, the only command that takes a verdict, refuses, so no row
ever has it (`Cleared` asks for `promote`). The gate is not monotone in the
sample size: with more pull requests an inconclusive run can become a revert. A
sample of unknown size is not underpowered, and a baseline without an interval
reads as 0, which any candidate's interval exceeds. The pilot set has five pull
requests and the gate promotes none below twelve, so the status line's "next:
lock Baseline@pr5" cannot be reached by its commands. Recording a run again keeps
the metrics rows of tools that the new record does not name, and takes a
promotion away with the row it replaces.

## 6. Not modelled, and why

The wording and layout of the report; prompts, subprocesses and HTTP calls
(the models take any answer they can give); timing and cost figures, apart from
the stamp that reaches `env`; whether one glob, keyword or structural signal
matches a change (any may); the hash in a run directory's name (taken to be
injective); the `primary` flag, confidence and severity counts, which no gate
reads; the corpus scripts, installer and command line (one-shot file moves);
the statistics and scoring scripts (floating point; `score.py` with explicit ids and a
baseline compares a subset with all of the baseline's pull requests); of the
tracker the metrics, findings and dead-end tables, its reports, and SQLITE_BUSY
after five seconds of waiting; the choice between the panel and the engine's
structural check, which is the engine's own (`orchestrator` is about a process
in which `install_verifier_handler` found a dispatcher).

## 7. Plan

1. *Panel*: resolving and installing the dispatcher of `verifier_handler.py`,
   per process: a run resumed by a process without one loses its panel.
2. *Experiment tracker*: the dead-end guard, `latest_proven` and the markdown
   views that are regenerated from it.
3. *Composition*: `FindingCollector` with coverage, so that dropped and merged
   findings are seen next to the credit their reviewers get.
4. *Proofs*: that `BatchPlan`, `FindingCollector` and `LeafDispatch` implement what
   `ReviewFsm` abstracts of them, which so far is only argued in section 2: the
   plan's batches as its `Packed`, the collector's findings as its `LeafPartitions`,
   the two calls as its routing states.
