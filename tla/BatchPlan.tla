------------------------------ MODULE BatchPlan ------------------------------
(***************************************************************************)
(* The way of the changed files through a run: the planner cuts the file   *)
(* set of every picked leaf into units and packs the units into batches    *)
(* (handle_plan_specialist_batches), the loop over the batches commits     *)
(* the units' outputs in iterations, and the merge folds the iterations    *)
(* back, trims them to the aggregate budget and persists one shard per     *)
(* unit (handle_merge_specialist_outputs).                                 *)
(*                                                                         *)
(* A file is its place in changed_paths.  A finding is its severity rank   *)
(* and one unit of size.  The statements of the merge that visit one       *)
(* finding at a time are steps of their own; nothing runs between them.    *)
(***************************************************************************)
EXTENDS Naturals, Sequences, FiniteSets, SequencesExt

CONSTANTS
  Leaves,
  NumFiles,       \* Len(changed_paths)
  TokensPerFile,  \* _TOKENS_PER_FILE
  TokenLimits,    \* the values of max_leaf_tokens
  BatchSizes,     \* the values of batch_size
  MaxPicked,      \* bound on the number of picked leaves
  MaxIterations,  \* the engine's cap on the loop
  Budget,         \* _AGGREGATE_OUTPUT_BUDGET_BYTES, in findings
  Ranks,          \* the ranks of _SEVERITY_RANK
  Bases,          \* the sizes of an output without its findings
  MaxPerRank,     \* bound on the findings of one severity in one output
  Leftovers,      \* what earlier runs may have left among the shards
  Followed,       \* the plans that are followed into the loop, a bound:
  MaxUnits        \* their scope, limit and size, and their number of units

ASSUME PlanAssumption ==
  /\ IsFiniteSet(Leaves) /\ NumFiles \in Nat /\ TokensPerFile \in Nat \ {0}
  /\ TokenLimits \subseteq Nat \ {0} /\ BatchSizes \subseteq Nat \ {0}
ASSUME MergeAssumption ==
  /\ MaxPicked \in Nat /\ MaxIterations \in Nat \ {0} /\ Budget \in Nat
  /\ Bases \subseteq Nat /\ Ranks \subseteq Nat /\ IsFiniteSet(Ranks)
  /\ MaxPerRank \in Nat /\ MaxUnits \in Nat

VARIABLES
  phase,
  scope,                \* _leaf_file_set of each leaf
  limit, size,          \* the token limit and the batch size of this run
  picked,               \* picked_leaves
  batches,              \* specialist_batches
  total_files_planned,
  loop_iters,           \* what each iteration commits, by unit key
  outputs,              \* specialist_outputs, by unit key
  passes_left,          \* max_passes - passes of the trimming loop
  pending,              \* the units whose shards are still to be written
  shards                \* the shards on disk, by unit key and iteration

planVars == <<scope, limit, size, picked, batches, total_files_planned>>
mergeVars == <<outputs, passes_left, pending, shards>>
vars == <<phase, planVars, loop_iters, mergeVars>>

Files == 1..NumFiles
Keys == Leaves \X (Nat \ {0})
Outputs == [base : Bases, findings : [Ranks -> 0..MaxPerRank]]

Init ==
  /\ phase = "plan"
  /\ scope \in [Leaves -> SUBSET Files]
  /\ limit \in TokenLimits /\ size \in BatchSizes
  /\ picked = <<>> /\ batches = <<>> /\ total_files_planned = 0
  /\ loop_iters = <<>>
  /\ outputs = <<>> /\ passes_left = 0 /\ pending = {}
  /\ shards \in Leftovers

-----------------------------------------------------------------------------
(* The planner.                                                            *)

CeilDiv(num, den) == (num + den - 1) \div den

SubCount(n) == CeilDiv(n * TokensPerFile, limit)

\* Mutant: rounded down, so that the last files of the leaf fall off.
ChunkSizeFloor(n) == n \div SubCount(n)

ChunkSize(n) == CeilDiv(n, SubCount(n))

\* The k-th slice of the files, in the order of changed_paths.
SliceOf(files, k) ==
  LET before(f) == Cardinality({g \in files : g < f})
      chunk == ChunkSize(Cardinality(files))
  IN  {f \in files : (k - 1) * chunk <= before(f) /\ before(f) < k * chunk}

Whole(leaf, files) ==
  <<[leaf_id |-> leaf, sub_index |-> 1, total_subs |-> 1, files |-> files]>>

\* The slices that are empty because the files ran out are not emitted; the
\* others still carry the count that was aimed at.
Sliced(leaf, files) ==
  LET n == Cardinality(files)
  IN  [k \in 1..Cardinality({j \in 1..SubCount(n) : (j - 1) * ChunkSize(n) < n}) |->
         [leaf_id |-> leaf, sub_index |-> k, total_subs |-> SubCount(n),
          files |-> SliceOf(files, k)]]

UnitsOf(leaf) ==
  IF Cardinality(scope[leaf]) * TokensPerFile > limit
  THEN Sliced(leaf, scope[leaf]) ELSE Whole(leaf, scope[leaf])

Pack(units) ==
  [b \in 1..CeilDiv(Len(units), size) |->
     SubSeq(units, (b - 1) * size + 1,
            IF b * size <= Len(units) THEN b * size ELSE Len(units))]

PlannedFiles(units) == Cardinality(UNION {units[i].files : i \in DOMAIN units})

Plan(leaves) ==
  LET units == FlattenSeq([i \in DOMAIN leaves |-> UnitsOf(leaves[i])])
  IN  /\ phase = "plan"
      /\ picked' = leaves
      /\ batches' = Pack(units)
      /\ total_files_planned' = PlannedFiles(units)
      /\ phase' = IF batches' = <<>> THEN "merge" ELSE "loop"
      /\ UNCHANGED <<scope, limit, size, loop_iters, mergeVars>>

-----------------------------------------------------------------------------
(* The loop.                                                               *)

KeyOf(unit) == <<unit.leaf_id, unit.sub_index>>
KeysIn(units) == {KeyOf(units[i]) : i \in DOMAIN units}

\* One iteration: outputs for some units of one of the batches.
Iterate(b, keys, payload, loop_done) ==
  /\ phase = "loop"
  /\ keys \subseteq KeysIn(batches[b])
  /\ payload \in [keys -> Outputs]
  /\ loop_iters' = Append(loop_iters, payload)
  /\ phase' = IF loop_done \/ Len(loop_iters') >= MaxIterations THEN "merge" ELSE "loop"
  /\ UNCHANGED <<planVars, mergeVars>>

-----------------------------------------------------------------------------
(* The merge.                                                              *)

Units == FlattenSeq(batches)
planned_units == KeysIn(Units)
Committed == UNION {DOMAIN loop_iters[i] : i \in DOMAIN loop_iters}

\* The last iteration that carries the unit; its outputs win.
IterOf(key) ==
  CHOOSE i \in DOMAIN loop_iters :
    /\ key \in DOMAIN loop_iters[i]
    /\ \A j \in DOMAIN loop_iters : key \in DOMAIN loop_iters[j] => j <= i

\* The sum of the numbers of f.
SumOver(f) == Cardinality(UNION {{x} \X (1..f[x]) : x \in DOMAIN f})

NumFindings(out) == SumOver(out.findings)
SizeOf(out) == out.base + NumFindings(out)
Aggregate(outs) == SumOver([key \in DOMAIN outs |-> SizeOf(outs[key])])

ExitedEarly ==
  /\ phase = "merge"
  /\ ~(planned_units \subseteq Committed)
  /\ phase' = "exited_early"
  /\ UNCHANGED <<planVars, loop_iters, mergeVars>>

\* Mutant: the drained check is gone.
FoldUnchecked ==
  /\ phase = "merge"
  /\ outputs' = [key \in Committed |-> loop_iters[IterOf(key)][key]]
  /\ passes_left' = SumOver([key \in Committed |-> NumFindings(outputs'[key])])
  /\ phase' = IF Aggregate(outputs') > Budget THEN "trim" ELSE "persist"
  /\ pending' = Committed
  /\ UNCHANGED <<planVars, loop_iters, shards>>

Fold ==
  /\ phase = "merge"
  /\ planned_units \subseteq Committed
  /\ outputs' = [key \in Committed |-> loop_iters[IterOf(key)][key]]
  /\ passes_left' = SumOver([key \in Committed |-> NumFindings(outputs'[key])])
  /\ phase' = IF Aggregate(outputs') > Budget THEN "trim" ELSE "persist"
  /\ pending' = Committed
  /\ UNCHANGED <<planVars, loop_iters, shards>>

\* The units max() can return: those of the largest size.
Largest ==
  {key \in DOMAIN outputs :
     \A other \in DOMAIN outputs : SizeOf(outputs[other]) <= SizeOf(outputs[key])}

\* Mutant: the most severe finding is dropped.
LowestRankReversed(findings) ==
  CHOOSE r \in Ranks : findings[r] > 0 /\ \A q \in Ranks : findings[q] > 0 => q <= r

LowestRank(findings) ==
  CHOOSE r \in Ranks : findings[r] > 0 /\ \A q \in Ranks : findings[q] > 0 => r <= q

\* One pass of the trimming loop over the largest unit; it ends when the
\* outputs fit, when the passes are used up, or when that unit has no
\* findings left.
TrimPass(target) ==
  /\ phase = "trim"
  /\ IF /\ Aggregate(outputs) > Budget /\ passes_left > 0
        /\ NumFindings(outputs[target]) > 0
     THEN /\ outputs' = [outputs EXCEPT ![target].findings[LowestRank(outputs[target].findings)] = @ - 1]
          /\ passes_left' = passes_left - 1
          /\ UNCHANGED phase
     ELSE phase' = "persist" /\ UNCHANGED <<outputs, passes_left>>
  /\ UNCHANGED <<planVars, loop_iters, pending, shards>>

union_files ==
  UNION {Units[i].files : i \in {j \in DOMAIN Units : KeyOf(Units[j]) \in DOMAIN outputs}}

\* Mutant: what the iterations carried is written, not what was trimmed.
ShardedUntrimmed(key) == loop_iters[IterOf(key)][key]

\* pending_writes holds the very dicts that were trimmed.
Sharded(key) == outputs[key]

\* What a write that was cut off leaves in the shard.
Torn == [base |-> 0, findings |-> <<>>]

\* An earlier run wrote shards as this one does, or was cut off too.
ASSUME LeftoversAssumption ==
  \A left \in Leftovers : left \in [DOMAIN left -> Outputs \cup {Torn}]

\* A shard is named by its unit and the iteration its output came from.
ShardName(key) == <<key, IterOf(key)>>

\* The shard of a unit is opened and written.
PutShard(key, contents) ==
  shards' = [name \in DOMAIN shards \cup {ShardName(key)} |->
               IF name = ShardName(key) THEN contents ELSE shards[name]]

PersistShard(key) ==
  /\ phase = "persist" /\ key \in pending
  /\ PutShard(key, Sharded(key))
  /\ pending' = pending \ {key}
  /\ UNCHANGED <<phase, planVars, loop_iters, outputs, passes_left>>

\* The files are counted when the last shard is written.
Return ==
  /\ phase = "persist" /\ pending = {}
  /\ phase' = IF Cardinality(union_files) < total_files_planned THEN "missed_file" ELSE "merged"
  /\ UNCHANGED <<planVars, loop_iters, mergeVars>>

\* The process dies in the middle of a shard; what was merged is gone.
Crash(key) ==
  /\ phase = "persist" /\ key \in pending
  /\ PutShard(key, Torn)
  /\ phase' = "crashed"
  /\ outputs' = <<>> /\ passes_left' = 0 /\ pending' = {}
  /\ UNCHANGED <<planVars, loop_iters>>

\* The run is resumed in the state it was in; the committed iterations are
\* still there.
Resume ==
  /\ phase = "crashed"
  /\ phase' = "merge"
  /\ UNCHANGED <<planVars, loop_iters, mergeVars>>

\* The plans beyond the bounds of the instance end here.
Unfollowed == phase = "loop" /\ (<<scope, limit, size>> \notin Followed \/ Len(Units) > MaxUnits)

Done == (phase \in {"merged", "exited_early", "missed_file"} \/ Unfollowed) /\ UNCHANGED vars

Next ==
  \/ \E n \in 0..MaxPicked : \E leaves \in [1..n -> Leaves] : Plan(leaves)
  \/ /\ ~Unfollowed
     /\ \E b \in DOMAIN batches, loop_done \in BOOLEAN : \E keys \in SUBSET KeysIn(batches[b]) :
          \E payload \in [keys -> Outputs] : Iterate(b, keys, payload, loop_done)
  \/ ExitedEarly \/ Fold
  \/ \E target \in Largest : TrimPass(target)
  \/ \E key \in pending : PersistShard(key) \/ Crash(key)
  \/ Return \/ Resume \/ Done

Spec == Init /\ [][Next]_vars

-----------------------------------------------------------------------------
\* The planner's and the merge's data stay in the shapes of their schemas.
TypeOK ==
  /\ phase \in {"plan", "loop", "merge", "trim", "persist", "crashed", "merged", "exited_early",
              "missed_file"}
  /\ scope \in [Leaves -> SUBSET Files] /\ limit \in TokenLimits /\ size \in BatchSizes
  /\ \A i \in DOMAIN picked : picked[i] \in Leaves
  /\ \A i \in DOMAIN Units :
       KeyOf(Units[i]) \in Keys /\ Units[i].files \subseteq Files /\ Units[i].total_subs \in Nat \ {0}
  /\ total_files_planned \in 0..NumFiles
  /\ \A i \in DOMAIN loop_iters : loop_iters[i] \in [DOMAIN loop_iters[i] -> Outputs]
  /\ outputs \in [DOMAIN outputs -> Outputs] /\ passes_left \in Nat
  /\ pending \subseteq DOMAIN outputs
  /\ shards \in [DOMAIN shards -> Outputs \cup {Torn}]

UnitsFor(leaf) == {i \in DOMAIN Units : Units[i].leaf_id = leaf}

\* The units of a picked leaf, numbered from one without a gap, partition the
\* files in its scope, and none is empty but that of a leaf without files.  A
\* leaf picked twice gets the same units twice, under the same keys.
SlicesPartition ==
  phase # "plan" =>
    \A leaf \in {picked[i] : i \in DOMAIN picked} :
      /\ {Units[i].sub_index : i \in UnitsFor(leaf)}
           = 1..Cardinality({Units[i].files : i \in UnitsFor(leaf)})
      /\ UNION {Units[i].files : i \in UnitsFor(leaf)} = scope[leaf]
      /\ \A i, j \in UnitsFor(leaf) :
           IF Units[i].sub_index = Units[j].sub_index
           THEN Units[i].files = Units[j].files
           ELSE Units[i].files \cap Units[j].files = {}
      /\ scope[leaf] # {} => \A i \in UnitsFor(leaf) : Units[i].files # {}

\* The token limit is soft, as the planner's comment has it: a unit exceeds
\* it by less than one file.
OvershootsLessThanAFile ==
  \A i \in DOMAIN Units : Cardinality(Units[i].files) * TokensPerFile < limit + TokensPerFile

\* Packing loses, repeats and reorders nothing, and only the last batch is
\* not full: the loop needs no more iterations than it must.
PackedTight ==
  phase # "plan" =>
    /\ Units = FlattenSeq([i \in DOMAIN picked |-> UnitsOf(picked[i])])
    /\ \A b \in DOMAIN batches :
         Len(batches[b]) = size \/ (b = Len(batches) /\ Len(batches[b]) \in 1..size)

\* The plan the loop is given: complete, within its limits, and no longer than
\* it must be.
PlanSound == SlicesPartition /\ OvershootsLessThanAFile /\ PackedTight

\* The merge returns an output for each planned unit and for no other,
\* however the iterations were cut, repeated or ordered, and no drained loop
\* misses a file.
MergeComplete ==
  /\ phase \in {"trim", "persist", "merged"} => DOMAIN outputs = planned_units
  /\ phase # "missed_file"

\* Trimming is fair to the findings of a unit: its output is its last
\* committed one but for findings no more severe than those it keeps (another
\* unit may keep less severe ones), and the last one was dropped while the
\* outputs were over the budget.
TrimsTheLeast ==
  phase \in {"trim", "persist", "merged"} =>
    \A key \in DOMAIN outputs :
      LET \* the committed output a later one has not replaced
          given == {loop_iters[i][key] : i \in
                      {j \in DOMAIN loop_iters :
                         /\ key \in DOMAIN loop_iters[j]
                         /\ \A k \in DOMAIN loop_iters : k > j => key \notin DOMAIN loop_iters[k]}}
      IN  \E out \in given :
            /\ outputs[key].base = out.base
            /\ \A r \in Ranks :
                 /\ outputs[key].findings[r] <= out.findings[r]
                 /\ outputs[key].findings[r] < out.findings[r] =>
                      /\ \A q \in Ranks : q < r => outputs[key].findings[q] = 0
                      /\ Aggregate(outputs) + 1 > Budget

\* The durable record is what the rest of the run sees: whatever an earlier
\* run or an attempt that died left behind, once the merge has returned the
\* shard of the winning iteration of each unit is the output it returned.
ShardsMirror ==
  phase = "merged" =>
    \A key \in DOMAIN outputs :
      ShardName(key) \in DOMAIN shards /\ shards[ShardName(key)] = outputs[key]
=============================================================================
