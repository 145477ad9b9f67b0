-------------------------- MODULE ExperimentTracker --------------------------
(***************************************************************************)
(* The benchmark ledger of benchmarks/experiments.py: an SQLite database   *)
(* that several processes have open at once (the subcommands record, ci    *)
(* and gate, and scripts/ingest_timings.py).  Every command first brings   *)
(* the schema up to date (init_db), a check followed by an ALTER that      *)
(* another process may have done in between.  A statement of SQLite is     *)
(* atomic, and so is what a command writes before its one commit; what it  *)
(* reads before is not: gate reads the baseline, then the candidate, then  *)
(* writes its verdict to a row that may no longer hold what it read.       *)
(*                                                                         *)
(* Means and bounds are integers, in hundredths.  The gate reads a missing *)
(* one as 0 (f of summary_stat_gate), and a cost that is missing, 0 or     *)
(* negative alike, so 0 stands for NULL; of pr_set_id only the number of   *)
(* pull requests matters.                                                  *)
(***************************************************************************)
EXTENDS Integers, FiniteSets

CONSTANTS
  Commands,      \* processes that use the database
  Runs,          \* run_ids
  Measurements,  \* what a record may hold
  Asked,         \* what --verdict of a record may say, "none" for no --verdict
  Bounds,        \* confidence intervals a ci may attach
  Agents         \* leaves whose wall time is measured

Verdicts == {"none", "promote", "ramp", "revert", "inconclusive"}

\* What the gate looks at in a row.
Numbers == [rung : Int, recall : Int, fp : Int, f1 : Int, lo : Int, hi : Int,
            stdev : Int, cost : Int]

ASSUME AskedAssumption == Asked \subseteq Verdicts
ASSUME MeasurementsAssumption == Measurements \subseteq Numbers
ASSUME BoundsAssumption == Bounds \subseteq [lo : Int, hi : Int]

VARIABLES
  cost_column,  \* timings.cost: it came after the table had shipped
  experiments,  \* run_id -> row, for the runs recorded
  timings,      \* name -> status, for the rows of scope "agent"
  pc,           \* per command: where it is
  read          \* per command: the rows it has read

vars == <<cost_column, experiments, timings, pc, read>>

Proven == {"promote", "ramp"}
Gates == {"recall", "noise", "progress", "stability", "cost"}
UnknownRung == -1

NothingRead == [baseline |-> {}, candidate |-> {}]
NoDetail == [verdict |-> "none", gates |-> {}, n_prs |-> UnknownRung,
             baseline_hi |-> 0, candidate_lo |-> 0]

Init ==
  /\ cost_column \in BOOLEAN
  /\ experiments = [r \in {} |-> {}]
  /\ timings = [n \in {} |-> "none"]
  /\ pc = [c \in Commands |-> "idle"]
  /\ read = [c \in Commands |-> NothingRead]

-----------------------------------------------------------------------------
(* The gate, on the numbers of two rows.                                   *)

MinPrsForPromote == 12

CostMissing(b, c) == b.cost <= 0 \/ c.cost <= 0

\* Mutant: the difference is taken the other way round.
GreenReversed(b, c) ==
  {g \in Gates :
     CASE g = "recall"    -> c.recall - b.recall >= -3
       [] g = "noise"     -> b.fp - c.fp <= 30
       [] g = "progress"  -> c.f1 > b.f1 /\ c.lo > b.hi
       [] g = "stability" -> c.stdev <= b.stdev + 2
       [] g = "cost"      -> ~CostMissing(b, c) /\ 4 * c.cost <= 5 * b.cost}

\* The gates that are green for a candidate c against a baseline b.
Green(b, c) ==
  {g \in Gates :
     CASE g = "recall"    -> c.recall - b.recall >= -3
       [] g = "noise"     -> c.fp - b.fp <= 30
       [] g = "progress"  -> c.f1 > b.f1 /\ c.lo > b.hi
       [] g = "stability" -> c.stdev <= b.stdev + 2
       [] g = "cost"      -> ~CostMissing(b, c) /\ 4 * c.cost <= 5 * b.cost}

Underpowered(c) == c.rung # UnknownRung /\ c.rung < MinPrsForPromote

\* A regression reverts; what cannot be proved yet, because only progress or
\* only a cost is missing, is inconclusive.
Verdict(b, c) ==
  LET hard == Gates \ {"progress"}
      cost_blocked == CostMissing(b, c) /\ hard \ {"cost"} \subseteq Green(b, c)
  IN  IF Underpowered(c) THEN "inconclusive"
      ELSE IF Green(b, c) = Gates THEN "promote"
      ELSE IF cost_blocked \/ hard \subseteq Green(b, c) THEN "inconclusive"
      ELSE "revert"

\* What gate_detail_json keeps of the comparison, the deltas aside.
Detail(b, c) ==
  [verdict |-> Verdict(b, c), gates |-> Green(b, c), n_prs |-> c.rung,
   baseline_hi |-> b.hi, candidate_lo |-> c.lo]

-----------------------------------------------------------------------------
(* Opening the database.                                                   *)

\* connect, and the CREATE statements and the look at table_info of init_db.
Open(c) ==
  /\ pc[c] = "idle"
  /\ pc' = [pc EXCEPT ![c] = IF cost_column THEN "ready" ELSE "column missing"]
  /\ UNCHANGED <<cost_column, experiments, timings, read>>

\* Mutant: the duplicate column is an error like any other.
AddColumnRaises(c) ==
  /\ pc[c] = "column missing"
  /\ pc' = [pc EXCEPT ![c] = IF cost_column THEN "crashed" ELSE "ready"]
  /\ cost_column' = TRUE
  /\ UNCHANGED <<experiments, timings, read>>

\* The ALTER of _ensure_column.  When another command was faster it raises
\* "duplicate column name", which is swallowed once the column is seen.
AddColumn(c) ==
  /\ pc[c] = "column missing"
  /\ pc' = [pc EXCEPT ![c] = "ready"]
  /\ cost_column' = TRUE
  /\ UNCHANGED <<experiments, timings, read>>

-----------------------------------------------------------------------------
(* The commands, with --apply where they write.                            *)

Leave(c) ==
  /\ pc' = [pc EXCEPT ![c] = "idle"]
  /\ read' = [read EXCEPT ![c] = NothingRead]

\* A command that writes nothing to the database: a dry run, a report (the
\* markdown views are not modelled), a run_id that is not there.
LookOnly(c) ==
  /\ pc[c] = "ready"
  /\ Leave(c)
  /\ UNCHANGED <<cost_column, experiments, timings>>

SetRow(run, row) ==
  experiments' = [r \in DOMAIN experiments \cup {run} |->
                    IF r = run THEN row ELSE experiments[r]]

\* Mutant: a record without --verdict leaves the verdict that was there.
RecordKeepsVerdict(c) ==
  /\ pc[c] = "ready"
  /\ \E run \in Runs, m \in Measurements, verdict \in Asked \ Proven :
       SetRow(run,
         IF run \in DOMAIN experiments /\ verdict = "none"
         THEN [experiments[run] EXCEPT !.numbers = m]
         ELSE [numbers |-> m, verdict |-> verdict, gate_detail |-> NoDetail])
  /\ Leave(c)
  /\ UNCHANGED <<cost_column, timings>>

\* The row replaces the one of the same run_id, its verdict and its gate
\* detail with it.  A proven verdict is refused.
Record(c) ==
  /\ pc[c] = "ready"
  /\ \E run \in Runs, m \in Measurements, verdict \in Asked \ Proven :
       SetRow(run, [numbers |-> m, verdict |-> verdict, gate_detail |-> NoDetail])
  /\ Leave(c)
  /\ UNCHANGED <<cost_column, timings>>

\* The bounds change, the verdict that was reached without them stays.
Ci(c) ==
  /\ pc[c] = "ready"
  /\ \E run \in DOMAIN experiments, b \in Bounds :
       LET row == experiments[run]
       IN  SetRow(run, [row EXCEPT !.numbers = [row.numbers EXCEPT !.lo = b.lo, !.hi = b.hi]])
  /\ Leave(c)
  /\ UNCHANGED <<cost_column, timings>>

GateReadBaseline(c) ==
  /\ pc[c] = "ready"
  /\ \E run \in DOMAIN experiments :
       read' = [read EXCEPT ![c].baseline = experiments[run].numbers]
  /\ pc' = [pc EXCEPT ![c] = "baseline read"]
  /\ UNCHANGED <<cost_column, experiments, timings>>

GateReadCandidate(c) ==
  /\ pc[c] = "baseline read"
  /\ \E run \in DOMAIN experiments :
       read' = [read EXCEPT ![c].candidate = [run |-> run, numbers |-> experiments[run].numbers]]
  /\ pc' = [pc EXCEPT ![c] = "gated"]
  /\ UNCHANGED <<cost_column, experiments, timings>>

\* One UPDATE sets the verdict and its detail, on whatever the row holds now.
GatePersist(c) ==
  /\ pc[c] = "gated"
  /\ LET b == read[c].baseline
         m == read[c].candidate.numbers
         run == read[c].candidate.run
     IN  SetRow(run, [experiments[run] EXCEPT !.verdict = Verdict(b, m),
                                              !.gate_detail = Detail(b, m)])
  /\ Leave(c)
  /\ UNCHANGED <<cost_column, timings>>

\* A gate without --apply, or one whose candidate is not there.
GateLooksOnly(c) ==
  /\ pc[c] \in {"baseline read", "gated"}
  /\ Leave(c)
  /\ UNCHANGED <<cost_column, experiments, timings>>

\* Mutant: what an agent says of itself has the name of what was measured.
SelfReportedNameShared(agent) == <<agent, "measured">>

\* The names of an agent's two rows differ: "<leaf>" and
\* "<leaf>#self_reported".
SelfReportedName(agent) == <<agent, "self_reported">>
MeasuredName(agent) == <<agent, "measured">>

\* ingest_timings: the rows of the artefacts found, in one transaction, the
\* self-reported ones after the measured ones of the same artefact.  Rows of
\* an earlier ingest that these do not replace stay.
Ingest(c) ==
  /\ pc[c] = "ready"
  /\ \E measured, self_reported \in SUBSET Agents :
       LET told == {SelfReportedName(a) : a \in self_reported}
           timed == {MeasuredName(a) : a \in measured}
       IN  timings' = [n \in DOMAIN timings \cup told \cup timed |->
                         IF n \in told THEN "self_reported"
                         ELSE IF n \in timed THEN "measured"
                         ELSE timings[n]]
  /\ Leave(c)
  /\ UNCHANGED <<cost_column, experiments>>

Step(c) ==
  \/ Open(c) \/ AddColumn(c) \/ LookOnly(c)
  \/ Record(c) \/ Ci(c)
  \/ GateReadBaseline(c) \/ GateReadCandidate(c) \/ GatePersist(c) \/ GateLooksOnly(c)
  \/ Ingest(c)

Next == \E c \in Commands : Step(c)

Spec == Init /\ [][Next]_vars

-----------------------------------------------------------------------------
Details ==
  [verdict : Verdicts, gates : SUBSET Gates, n_prs : Int, baseline_hi : Int, candidate_lo : Int]
Rows == [numbers : Numbers, verdict : Verdicts, gate_detail : Details]
Places == {"idle", "column missing", "ready", "baseline read", "gated", "crashed"}

\* What a command has read, by its place in the code: nothing is left of it
\* when the command is over.
ReadsMatchPlace(c) ==
  CASE pc[c] = "baseline read" -> read[c] \in [baseline : Numbers, candidate : {{}}]
    [] pc[c] = "gated" -> read[c] \in [baseline : Numbers,
                                       candidate : [run : DOMAIN experiments, numbers : Numbers]]
    [] OTHER -> read[c] = NothingRead

\* The tables keep their shapes, and a command holds what it has read up to
\* its place in the code; the candidate it will write to is still there.
TypeOK ==
  /\ cost_column \in BOOLEAN
  /\ DOMAIN experiments \subseteq Runs /\ experiments \in [DOMAIN experiments -> Rows]
  /\ timings \in [DOMAIN timings -> {"measured", "self_reported"}]
  /\ pc \in [Commands -> Places]
  /\ DOMAIN read = Commands /\ \A c \in Commands : ReadsMatchPlace(c)

\* What the row itself shows of its promotion: if it counts as a proven
\* baseline, a gate found all five green, and the sample size and the
\* interval beside the verdict are those the gate saw, enough of the one and
\* clear of the baseline's interval in the other.
Cleared(row) ==
  row.verdict \in Proven =>
    LET d == row.gate_detail
    IN  /\ row.verdict = "promote" /\ d.verdict = "promote" /\ d.gates = Gates
        /\ d.n_prs = row.numbers.rung /\ ~Underpowered(row.numbers)
        /\ d.candidate_lo = row.numbers.lo /\ row.numbers.lo > d.baseline_hi

\* A gate is about to judge a row that is no longer the one it has read.
Overtaken(c, r) ==
  /\ pc[c] = "gated" /\ read[c].candidate.run = r
  /\ r \in DOMAIN experiments /\ experiments[r].numbers # read[c].candidate.numbers

\* Another interval is put beside the verdict, which stays.
OnlyBounds(r) ==
  /\ r \in DOMAIN experiments
  /\ \E b \in Bounds :
       experiments'[r] = [experiments[r] EXCEPT !.numbers =
                            [experiments[r].numbers EXCEPT !.lo = b.lo, !.hi = b.hi]]

\* There are only two ways to a proven row that the five gates did not clear:
\* a gate's UPDATE reaches a row that was recorded again, or given another
\* interval, after the gate had read it, or a ci changes the interval of a row
\* already judged.  No record makes one, whatever it asks for and whatever
\* was there, and no gate that nobody overtook.
PromotionIsEarned ==
  [][\A r \in DOMAIN experiments' :
       /\ r \in DOMAIN experiments => Cleared(experiments[r])
       /\ ~Cleared(experiments'[r])
       => OnlyBounds(r) \/ \E c \in Commands : Overtaken(c, r) /\ GatePersist(c)]_vars

\* The measurements that beat m in one metric, by little or by much, on as
\* many pull requests.
Improvements(m) ==
  (UNION {{[m EXCEPT !.recall = @ + k], [m EXCEPT !.fp = @ - k], [m EXCEPT !.f1 = @ + k],
           [m EXCEPT !.lo = @ + k], [m EXCEPT !.stdev = @ - k]} : k \in {4, 31}})
  \cup {[m EXCEPT !.cost = k] : k \in {1, m.cost - 1} \cap 1..m.cost}

Standing(verdict) == CASE verdict = "revert" -> 0 [] verdict = "inconclusive" -> 1 [] OTHER -> 2

\* The gate is monotone in every metric: a candidate that does better in one,
\* the others and the sample size being equal, does not get a worse verdict
\* against the same baseline; the three verdicts leave no hole between the
\* five gates.  (In the sample size it is not: more pull requests can turn
\* an inconclusive run into a revert.)
GateIsMonotone ==
  \A c \in Commands :
    pc[c] = "gated" =>
      LET b == read[c].baseline
          m == read[c].candidate.numbers
      IN  \A better \in Improvements(m) : Standing(Verdict(b, better)) >= Standing(Verdict(b, m))

\* Two commands that open an old database at the same time both get to work,
\* and neither before the column is there.
EveryCommandOpens ==
  \A c \in Commands :
    pc[c] # "crashed" /\ (pc[c] \notin {"idle", "column missing"} => cost_column)

\* What agents report of themselves never takes the place of what was
\* measured: a measured row stays one through every later ingest.
MeasuredStays ==
  [][\A n \in DOMAIN timings :
       timings[n] = "measured" => n \in DOMAIN timings' /\ timings'[n] = "measured"]_vars
=============================================================================
