----------------------- MODULE ExperimentTrackerProofs -----------------------
(***************************************************************************)
(* Theorems of ExperimentTracker: whatever the commands, the runs and the  *)
(* measurements, the tables keep their shapes, and only a gate that was    *)
(* overtaken or a later interval leaves a proven row uncleared.            *)
(***************************************************************************)
EXTENDS ExperimentTracker, TLAPS

\* The gate answers one of three verdicts (summary_stat_gate).
LEMMA VerdictRange ==
  ASSUME NEW b \in Numbers, NEW c \in Numbers
  PROVE  Verdict(b, c) \in {"promote", "inconclusive", "revert"}
BY DEF Verdict

\* What a gate writes down has the shape of a detail.
LEMMA DetailShape ==
  ASSUME NEW b \in Numbers, NEW c \in Numbers
  PROVE  Detail(b, c) \in Details
<1>1. Green(b, c) \subseteq Gates
  BY DEF Green
<1>2. Verdict(b, c) \in Verdicts
  BY VerdictRange DEF Verdicts
<1>3. c.rung \in Int /\ b.hi \in Int /\ c.lo \in Int
  BY DEF Numbers
<1>. QED
  BY <1>1, <1>2, <1>3 DEF Detail, Details

\* The row that record writes has no detail (NULL).
LEMMA NoDetailShape == NoDetail \in Details
BY DEF NoDetail, Details, Verdicts, UnknownRung

\* TypeOK holds at the start.
LEMMA TypeInit == Init => TypeOK
BY DEF Init, TypeOK, ReadsMatchPlace, Places

\* A command that leaves has read nothing any more, and touches no other.
LEMMA LeaveReads ==
  ASSUME TypeOK, NEW c \in Commands, Leave(c)
  PROVE  /\ pc' \in [Commands -> Places]
         /\ DOMAIN read' = Commands
         /\ read'[c] = NothingRead /\ pc'[c] = "idle"
         /\ \A d \in Commands \ {c} : read'[d] = read[d] /\ pc'[d] = pc[d]
BY DEF TypeOK, Leave, Places

\* A reader is not disturbed by a step that takes no run away.
LEMMA OthersUndisturbed ==
  ASSUME NEW c \in Commands, ReadsMatchPlace(c), read'[c] = read[c], pc'[c] = pc[c],
         DOMAIN experiments \subseteq DOMAIN experiments'
  PROVE  ReadsMatchPlace(c)'
<1>1. CASE pc[c] = "gated"
  <2>1. read[c] \in [baseline : Numbers, candidate : [run : DOMAIN experiments, numbers : Numbers]]
    BY <1>1 DEF ReadsMatchPlace
  <2>2. read[c].candidate.run \in DOMAIN experiments'
    BY <2>1
  <2>3. read'[c] \in [baseline : Numbers, candidate : [run : DOMAIN experiments', numbers : Numbers]]
    BY <2>1, <2>2
  <2>. QED
    BY <1>1, <2>3 DEF ReadsMatchPlace
<1>2. CASE pc[c] # "gated"
  BY <1>2 DEF ReadsMatchPlace
<1>. QED
  BY <1>1, <1>2

\* What every command that leaves owes TypeOK: its tables' shapes.
LEMMA LeavingKeepsType ==
  ASSUME TypeOK, NEW c \in Commands, Leave(c), cost_column' = cost_column,
         DOMAIN experiments \subseteq DOMAIN experiments', DOMAIN experiments' \subseteq Runs,
         experiments' \in [DOMAIN experiments' -> Rows],
         timings' \in [DOMAIN timings' -> {"measured", "self_reported"}]
  PROVE  TypeOK'
<1>1. ReadsMatchPlace(c)'
  BY LeaveReads DEF ReadsMatchPlace
<1>2. ASSUME NEW d \in Commands \ {c} PROVE ReadsMatchPlace(d)'
  BY LeaveReads, OthersUndisturbed DEF TypeOK
<1>. QED
  BY <1>1, <1>2, LeaveReads DEF TypeOK

\* The row set by record: the table grows by at most that run.
LEMMA SetRowShape ==
  ASSUME TypeOK, NEW run \in Runs, NEW row \in Rows, SetRow(run, row)
  PROVE  /\ DOMAIN experiments' = DOMAIN experiments \cup {run}
         /\ experiments' \in [DOMAIN experiments' -> Rows]
         /\ experiments'[run] = row
         /\ \A r \in DOMAIN experiments \ {run} : experiments'[r] = experiments[r]
         /\ DOMAIN experiments' \subseteq Runs
BY DEF SetRow, TypeOK

\* record keeps the shapes.
LEMMA RecordType ==
  ASSUME TypeOK, NEW c \in Commands, Record(c)
  PROVE  TypeOK'
<1>1. PICK run \in Runs, m \in Measurements, verdict \in Asked \ Proven :
        SetRow(run, [numbers |-> m, verdict |-> verdict, gate_detail |-> NoDetail])
  BY DEF Record
<1>2. [numbers |-> m, verdict |-> verdict, gate_detail |-> NoDetail] \in Rows
  BY NoDetailShape, AskedAssumption, MeasurementsAssumption DEF Rows
<1>. QED
  BY <1>1, <1>2, SetRowShape, LeavingKeepsType DEF Record, TypeOK

\* ci changes bounds only.
LEMMA CiRow ==
  ASSUME NEW row \in Rows, NEW b \in Bounds
  PROVE  [row EXCEPT !.numbers = [row.numbers EXCEPT !.lo = b.lo, !.hi = b.hi]] \in Rows
<1>1. b.lo \in Int /\ b.hi \in Int
  BY BoundsAssumption
<1>2. row.numbers \in Numbers
  BY DEF Rows
<1>3. [row.numbers EXCEPT !.lo = b.lo, !.hi = b.hi] \in Numbers
  BY <1>1, <1>2 DEF Numbers
<1>. QED
  BY <1>3 DEF Rows

LEMMA CiType ==
  ASSUME TypeOK, NEW c \in Commands, Ci(c)
  PROVE  TypeOK'
<1>1. PICK run \in DOMAIN experiments, b \in Bounds :
        SetRow(run, [experiments[run] EXCEPT !.numbers =
                       [experiments[run].numbers EXCEPT !.lo = b.lo, !.hi = b.hi]])
  BY DEF Ci
<1>2. experiments[run] \in Rows /\ run \in Runs
  BY DEF TypeOK
<1>. QED
  BY <1>1, <1>2, CiRow, SetRowShape, LeavingKeepsType DEF Ci, TypeOK

\* What gate writes to the candidate's row.
LEMMA GatedRow ==
  ASSUME NEW row \in Rows, NEW b \in Numbers, NEW m \in Numbers
  PROVE  [row EXCEPT !.verdict = Verdict(b, m), !.gate_detail = Detail(b, m)] \in Rows
BY VerdictRange, DetailShape DEF Rows, Verdicts

\* The row a gate writes to, and what it writes.
LEMMA GatePersistRow ==
  ASSUME TypeOK, NEW c \in Commands, GatePersist(c)
  PROVE  \E run \in DOMAIN experiments, b \in Numbers, m \in Numbers :
           SetRow(run, [experiments[run] EXCEPT !.verdict = Verdict(b, m),
                                                !.gate_detail = Detail(b, m)])
<1>1. read[c] \in [baseline : Numbers,
                   candidate : [run : DOMAIN experiments, numbers : Numbers]]
  BY DEF TypeOK, GatePersist, ReadsMatchPlace
<1>2. /\ read[c].candidate.run \in DOMAIN experiments
      /\ read[c].baseline \in Numbers /\ read[c].candidate.numbers \in Numbers
  BY <1>1
<1>. QED
  BY <1>2 DEF GatePersist

\* gate keeps the shapes.
LEMMA GatePersistType ==
  ASSUME TypeOK, NEW c \in Commands, GatePersist(c)
  PROVE  TypeOK'
<1>1. PICK run \in DOMAIN experiments, b \in Numbers, m \in Numbers :
        SetRow(run, [experiments[run] EXCEPT !.verdict = Verdict(b, m),
                                             !.gate_detail = Detail(b, m)])
  BY GatePersistRow
<1>2. experiments[run] \in Rows /\ run \in Runs
  BY DEF TypeOK
<1>. QED
  BY <1>1, <1>2, GatedRow, SetRowShape, LeavingKeepsType DEF GatePersist, TypeOK

\* ingest_timings keeps the shapes.
LEMMA IngestType ==
  ASSUME TypeOK, NEW c \in Commands, Ingest(c)
  PROVE  TypeOK'
<1>1. PICK measured \in SUBSET Agents, self_reported \in SUBSET Agents :
        LET told == {SelfReportedName(a) : a \in self_reported}
            timed == {MeasuredName(a) : a \in measured}
        IN  timings' = [n \in DOMAIN timings \cup told \cup timed |->
                          IF n \in told THEN "self_reported"
                          ELSE IF n \in timed THEN "measured"
                          ELSE timings[n]]
  BY DEF Ingest
<1>2. timings' \in [DOMAIN timings' -> {"measured", "self_reported"}]
  BY <1>1 DEF TypeOK
<1>. QED
  BY <1>2, LeavingKeepsType DEF Ingest, TypeOK

\* A step that reads the schema or a row keeps the shapes.
LEMMA ReadingType ==
  ASSUME TypeOK, NEW c \in Commands,
         Open(c) \/ AddColumn(c) \/ GateReadBaseline(c) \/ GateReadCandidate(c)
  PROVE  TypeOK'
<1>1. /\ experiments' = experiments /\ timings' = timings /\ cost_column' \in BOOLEAN
      /\ pc' \in [Commands -> Places] /\ DOMAIN read' = Commands
      /\ \A d \in Commands \ {c} : read'[d] = read[d] /\ pc'[d] = pc[d]
  BY DEF TypeOK, Open, AddColumn, GateReadBaseline, GateReadCandidate, Places
<1>2. ReadsMatchPlace(c)'
  <2>1. CASE Open(c) \/ AddColumn(c)
    <3>1. pc[c] \in {"idle", "column missing"} /\ pc'[c] \in {"ready", "column missing"}
      BY <2>1 DEF TypeOK, Open, AddColumn
    <3>2. read[c] = NothingRead /\ read' = read
      BY <2>1, <3>1 DEF TypeOK, Open, AddColumn, ReadsMatchPlace
    <3>. QED
      BY <3>1, <3>2 DEF ReadsMatchPlace
  <2>2. CASE GateReadBaseline(c)
    <3>1. PICK run \in DOMAIN experiments :
            read' = [read EXCEPT ![c].baseline = experiments[run].numbers]
      BY <2>2 DEF GateReadBaseline
    <3>2. experiments[run].numbers \in Numbers
      BY DEF TypeOK, Rows
    <3>3. read[c] = NothingRead /\ pc'[c] = "baseline read"
      BY <2>2 DEF TypeOK, GateReadBaseline, ReadsMatchPlace
    <3>4. read'[c] = [baseline |-> experiments[run].numbers, candidate |-> {}]
      <4>1. read'[c] = [NothingRead EXCEPT !.baseline = experiments[run].numbers]
        BY <3>1, <3>3 DEF TypeOK
      <4>. QED
        BY <4>1 DEF NothingRead
    <3>5. read'[c] \in [baseline : Numbers, candidate : {{}}]
      BY <3>2, <3>4
    <3>. QED
      BY <3>3, <3>5 DEF ReadsMatchPlace
  <2>3. CASE GateReadCandidate(c)
    <3>1. PICK run \in DOMAIN experiments :
            read' = [read EXCEPT ![c].candidate =
                       [run |-> run, numbers |-> experiments[run].numbers]]
      BY <2>3 DEF GateReadCandidate
    <3>2. experiments[run].numbers \in Numbers
      BY DEF TypeOK, Rows
    <3>3. read[c] \in [baseline : Numbers, candidate : {{}}] /\ pc'[c] = "gated"
      BY <2>3 DEF TypeOK, GateReadCandidate, ReadsMatchPlace
    <3>. QED
      BY <3>1, <3>2, <3>3, <1>1 DEF TypeOK, ReadsMatchPlace
  <2>. QED
    BY <2>1, <2>2, <2>3
<1>3. ASSUME NEW d \in Commands \ {c} PROVE ReadsMatchPlace(d)'
  BY <1>1, OthersUndisturbed DEF TypeOK
<1>. QED
  BY <1>1, <1>2, <1>3 DEF TypeOK

\* Every step keeps the shapes.
LEMMA TypeStep == TypeOK /\ [Next]_vars => TypeOK'
<1>. SUFFICES ASSUME TypeOK, [Next]_vars PROVE TypeOK'
  OBVIOUS
<1>1. ASSUME NEW c \in Commands, Step(c) PROVE TypeOK'
  <2>1. CASE Open(c) \/ AddColumn(c) \/ GateReadBaseline(c) \/ GateReadCandidate(c)
    BY <2>1, ReadingType
  <2>2. CASE LookOnly(c) \/ GateLooksOnly(c)
    BY <2>2, LeavingKeepsType DEF LookOnly, GateLooksOnly, TypeOK
  <2>3. CASE Record(c)
    BY <2>3, RecordType
  <2>4. CASE Ci(c)
    BY <2>4, CiType
  <2>5. CASE GatePersist(c)
    BY <2>5, GatePersistType
  <2>6. CASE Ingest(c)
    BY <2>6, IngestType
  <2>. QED
    BY <1>1, <2>1, <2>2, <2>3, <2>4, <2>5, <2>6 DEF Step
<1>2. CASE UNCHANGED vars
  BY <1>2 DEF TypeOK, ReadsMatchPlace, vars
<1>. QED
  BY <1>1, <1>2 DEF Next

\* Whatever the commands do and in whatever order their steps come, the
\* tables keep their shapes and a gate writes to a row that is there.
THEOREM TypeCorrect == Spec => []TypeOK
<1>. QED
  BY TypeInit, TypeStep, PTL DEF Spec

-----------------------------------------------------------------------------
\* A row record writes is not a proven one.
LEMMA RecordedCleared ==
  ASSUME NEW m, NEW verdict \in Asked \ Proven
  PROVE  Cleared([numbers |-> m, verdict |-> verdict, gate_detail |-> NoDetail])
BY DEF Cleared

\* A promotion has its five green gates on enough pull requests, and one of
\* them keeps the two intervals apart.
LEMMA PromotionEarned ==
  ASSUME NEW b \in Numbers, NEW m \in Numbers, Verdict(b, m) = "promote"
  PROVE  Green(b, m) = Gates /\ ~Underpowered(m) /\ m.lo > b.hi
<1>1. Green(b, m) = Gates /\ ~Underpowered(m)
  BY DEF Verdict
<1>2. "progress" \in Green(b, m)
  BY <1>1 DEF Gates
<1>. QED
  BY <1>1, <1>2 DEF Green

\* The row a gate writes that nobody overtook: what it read is what it judges.
LEMMA GatedCleared ==
  ASSUME NEW row \in Rows, NEW b \in Numbers
  PROVE  Cleared([row EXCEPT !.verdict = Verdict(b, row.numbers),
                             !.gate_detail = Detail(b, row.numbers)])
<1>. DEFINE m == row.numbers
            new == [row EXCEPT !.verdict = Verdict(b, m), !.gate_detail = Detail(b, m)]
<1>1. new.verdict = Verdict(b, m) /\ new.gate_detail = Detail(b, m) /\ new.numbers = m
  BY DEF Rows
<1>2. m \in Numbers
  BY DEF Rows
<1>3. SUFFICES ASSUME Verdict(b, m) \in Proven PROVE Cleared(new)
  BY <1>1 DEF Cleared
<1>4. Verdict(b, m) = "promote"
  BY <1>2, <1>3, VerdictRange DEF Proven
<1>5. Green(b, m) = Gates /\ ~Underpowered(m) /\ m.lo > b.hi
  BY <1>2, <1>4, PromotionEarned
<1>6. /\ Detail(b, m).verdict = "promote" /\ Detail(b, m).gates = Gates
      /\ Detail(b, m).n_prs = m.rung /\ Detail(b, m).candidate_lo = m.lo
      /\ Detail(b, m).baseline_hi = b.hi
  BY <1>4, <1>5 DEF Detail
<1>. HIDE DEF new, m
<1>. QED
  BY <1>1, <1>4, <1>5, <1>6 DEF Cleared

\* The rows after SetRow are the one that was set and the old ones.
LEMMA SetRowElsewhere ==
  ASSUME TypeOK, NEW run \in Runs, NEW row \in Rows, SetRow(run, row),
         NEW r \in DOMAIN experiments', r # run
  PROVE  r \in DOMAIN experiments /\ experiments'[r] = experiments[r]
<1>1. DOMAIN experiments' = DOMAIN experiments \cup {run}
  BY SetRowShape
<1>2. r \in DOMAIN experiments \ {run}
  BY <1>1
<1>3. \A s \in DOMAIN experiments \ {run} : experiments'[s] = experiments[s]
  BY SetRowShape
<1>. QED
  BY <1>2, <1>3

\* One step: a row that is not cleared any more had its bounds changed, or
\* was judged by a gate that had read another.
LEMMA PromotionStep ==
  ASSUME TypeOK, [Next]_vars, NEW r \in DOMAIN experiments',
         r \in DOMAIN experiments => Cleared(experiments[r]), ~Cleared(experiments'[r])
  PROVE  OnlyBounds(r) \/ \E c \in Commands : Overtaken(c, r) /\ GatePersist(c)
<1>1. experiments' # experiments
  OBVIOUS
<1>2. ASSUME NEW c \in Commands, Record(c) PROVE FALSE
  <2>1. PICK run \in Runs, m \in Measurements, verdict \in Asked \ Proven :
          SetRow(run, [numbers |-> m, verdict |-> verdict, gate_detail |-> NoDetail])
    BY <1>2 DEF Record
  <2>2. [numbers |-> m, verdict |-> verdict, gate_detail |-> NoDetail] \in Rows
    BY NoDetailShape, AskedAssumption, MeasurementsAssumption DEF Rows
  <2>3. Cleared([numbers |-> m, verdict |-> verdict, gate_detail |-> NoDetail])
    BY RecordedCleared
  <2>4. r = run
    BY <2>1, <2>2, SetRowElsewhere
  <2>5. experiments'[r] = [numbers |-> m, verdict |-> verdict, gate_detail |-> NoDetail]
    BY <2>1, <2>2, <2>4, SetRowShape
  <2>. QED
    BY <2>3, <2>5
<1>3. ASSUME NEW c \in Commands, Ci(c) PROVE OnlyBounds(r)
  <2>1. PICK run \in DOMAIN experiments, b \in Bounds :
          SetRow(run, [experiments[run] EXCEPT !.numbers =
                         [experiments[run].numbers EXCEPT !.lo = b.lo, !.hi = b.hi]])
    BY <1>3 DEF Ci
  <2>2. experiments[run] \in Rows /\ run \in Runs
    BY DEF TypeOK
  <2>. DEFINE new == [experiments[run] EXCEPT !.numbers =
                        [experiments[run].numbers EXCEPT !.lo = b.lo, !.hi = b.hi]]
  <2>3. new \in Rows
    BY <2>2, CiRow
  <2>4. r = run
    BY <2>1, <2>2, <2>3, SetRowElsewhere
  <2>5. experiments'[r] = new
    BY <2>1, <2>2, <2>3, <2>4, SetRowShape
  <2>. QED
    BY <2>4, <2>5 DEF OnlyBounds
<1>4. ASSUME NEW c \in Commands, GatePersist(c) PROVE Overtaken(c, r)
  <2>. DEFINE b == read[c].baseline
              m == read[c].candidate.numbers
              run == read[c].candidate.run
              new == [experiments[run] EXCEPT !.verdict = Verdict(b, m),
                                              !.gate_detail = Detail(b, m)]
  <2>1. pc[c] = "gated" /\ SetRow(run, new)
    BY <1>4 DEF GatePersist
  <2>2. read[c] \in [baseline : Numbers, candidate : [run : DOMAIN experiments, numbers : Numbers]]
    BY <2>1 DEF TypeOK, ReadsMatchPlace
  <2>3. run \in DOMAIN experiments /\ b \in Numbers /\ m \in Numbers
    BY <2>2
  <2>4. experiments[run] \in Rows /\ run \in Runs
    BY <2>3 DEF TypeOK
  <2>5. new \in Rows
    BY <2>3, <2>4, GatedRow
  <2>. HIDE DEF b, m, run, new
  <2>6. r = run
    BY <2>1, <2>4, <2>5, SetRowElsewhere
  <2>7. experiments'[r] = new
    BY <2>1, <2>4, <2>5, <2>6, SetRowShape
  <2>8. experiments[run].numbers # m
    BY <2>3, <2>4, <2>7, GatedCleared DEF new
  <2>. QED
    BY <2>1, <2>3, <2>6, <2>8 DEF Overtaken, run, m
<1>5. ASSUME NEW c \in Commands, Step(c), ~Record(c), ~Ci(c), ~GatePersist(c)
      PROVE  experiments' = experiments
  BY <1>5 DEF Step, Open, AddColumn, LookOnly, GateReadBaseline, GateReadCandidate,
              GateLooksOnly, Ingest
<1>. QED
  BY <1>1, <1>2, <1>3, <1>4, <1>5 DEF Next, vars

\* Under every interleaving of any commands, for any measurements and
\* whatever record is asked to write, a proven row that the five gates did
\* not clear comes from a gate that was overtaken or from a later interval,
\* and from nothing else.
THEOREM PromotionsAreEarned == Spec => PromotionIsEarned
<1>1. TypeOK /\ [Next]_vars =>
        [\A r \in DOMAIN experiments' :
           /\ r \in DOMAIN experiments => Cleared(experiments[r])
           /\ ~Cleared(experiments'[r])
           => OnlyBounds(r) \/ \E c \in Commands : Overtaken(c, r) /\ GatePersist(c)]_vars
  BY PromotionStep
<1>. QED
  BY <1>1, TypeInit, TypeStep, PTL DEF Spec, PromotionIsEarned

-----------------------------------------------------------------------------
\* The column, once there, stays, and a command is past its opening only when
\* it is there.
LEMMA OpeningStep == TypeOK /\ EveryCommandOpens /\ [Next]_vars => EveryCommandOpens'
<1>. SUFFICES ASSUME TypeOK, EveryCommandOpens, [Next]_vars, NEW d \in Commands
              PROVE  pc'[d] # "crashed" /\ (pc'[d] \notin {"idle", "column missing"} => cost_column')
  BY DEF EveryCommandOpens
<1>1. ASSUME NEW c \in Commands, Open(c) \/ AddColumn(c)
      PROVE  pc'[d] # "crashed" /\ (pc'[d] \notin {"idle", "column missing"} => cost_column')
  BY <1>1 DEF Open, AddColumn, EveryCommandOpens, TypeOK
<1>2. ASSUME NEW c \in Commands, GateReadBaseline(c) \/ GateReadCandidate(c)
      PROVE  pc'[d] # "crashed" /\ (pc'[d] \notin {"idle", "column missing"} => cost_column')
  BY <1>2 DEF GateReadBaseline, GateReadCandidate, EveryCommandOpens, TypeOK
<1>3. ASSUME NEW c \in Commands, Leave(c), cost_column' = cost_column
      PROVE  pc'[d] # "crashed" /\ (pc'[d] \notin {"idle", "column missing"} => cost_column')
  BY <1>3 DEF Leave, EveryCommandOpens, TypeOK
<1>4. ASSUME NEW c \in Commands, Step(c),
             ~Open(c), ~AddColumn(c), ~GateReadBaseline(c), ~GateReadCandidate(c)
      PROVE  Leave(c) /\ cost_column' = cost_column
  BY <1>4 DEF Step, LookOnly, Record, Ci, GatePersist, GateLooksOnly, Ingest
<1>5. CASE UNCHANGED vars
  BY <1>5 DEF vars, EveryCommandOpens
<1>. QED
  BY <1>1, <1>2, <1>3, <1>4, <1>5 DEF Next

\* However many commands open an old database at once, the ALTER of one does
\* not fail another, and nobody works without the column.
THEOREM OpeningIsSafe == Spec => []EveryCommandOpens
<1>1. Init => EveryCommandOpens
  BY DEF Init, EveryCommandOpens
<1>. QED
  BY <1>1, TypeInit, TypeStep, OpeningStep, PTL DEF Spec

-----------------------------------------------------------------------------
\* A row that counts as measured has the name of a measured row.
MeasuredByName ==
  \A n \in DOMAIN timings : timings[n] = "measured" => \E agent : n = MeasuredName(agent)

\* ingest_timings keeps the names apart, and with them what was measured.
LEMMA IngestKeepsMeasured ==
  ASSUME MeasuredByName, NEW c \in Commands, Ingest(c)
  PROVE  /\ MeasuredByName'
         /\ \A n \in DOMAIN timings :
              timings[n] = "measured" => n \in DOMAIN timings' /\ timings'[n] = "measured"
<1>1. PICK measured \in SUBSET Agents, self_reported \in SUBSET Agents :
        LET told == {SelfReportedName(a) : a \in self_reported}
            timed == {MeasuredName(a) : a \in measured}
        IN  timings' = [n \in DOMAIN timings \cup told \cup timed |->
                          IF n \in told THEN "self_reported"
                          ELSE IF n \in timed THEN "measured"
                          ELSE timings[n]]
  BY DEF Ingest
<1>. DEFINE told == {SelfReportedName(a) : a \in self_reported}
            timed == {MeasuredName(a) : a \in measured}
<1>2. DOMAIN timings' = DOMAIN timings \cup told \cup timed
  BY <1>1
<1>3. \A n \in DOMAIN timings' :
        timings'[n] = IF n \in told THEN "self_reported"
                      ELSE IF n \in timed THEN "measured"
                      ELSE timings[n]
  BY <1>1
<1>4. \A n \in timed : \E agent : n = MeasuredName(agent)
  OBVIOUS
<1>5. \A agent : MeasuredName(agent) \notin told
  BY DEF MeasuredName, SelfReportedName
<1>6. MeasuredByName'
  <2>. SUFFICES ASSUME NEW n \in DOMAIN timings', timings'[n] = "measured"
                PROVE  \E agent : n = MeasuredName(agent)
    BY DEF MeasuredByName
  <2>1. CASE n \in timed
    BY <2>1, <1>4
  <2>2. CASE n \notin timed
    <3>1. n \notin told /\ n \in DOMAIN timings /\ timings[n] = "measured"
      BY <2>2, <1>2, <1>3
    <3>. QED
      BY <3>1 DEF MeasuredByName
  <2>. QED
    BY <2>1, <2>2
<1>7. ASSUME NEW n \in DOMAIN timings, timings[n] = "measured"
      PROVE  n \in DOMAIN timings' /\ timings'[n] = "measured"
  <2>1. n \notin told
    BY <1>5, <1>7 DEF MeasuredByName
  <2>2. n \in DOMAIN timings'
    BY <1>2
  <2>. QED
    BY <1>3, <1>7, <2>1, <2>2
<1>. QED
  BY <1>6, <1>7

\* Only ingest_timings writes timings.
LEMMA OthersKeepTimings ==
  ASSUME [Next]_vars, \A c \in Commands : ~Ingest(c)
  PROVE  timings' = timings
BY DEF Next, Step, Open, AddColumn, LookOnly, Record, Ci, GateReadBaseline, GateReadCandidate,
       GatePersist, GateLooksOnly, vars

\* One step: the names stay apart and what was measured stays.
LEMMA MeasuredStep ==
  MeasuredByName /\ [Next]_vars =>
    /\ MeasuredByName'
    /\ \A n \in DOMAIN timings :
         timings[n] = "measured" => n \in DOMAIN timings' /\ timings'[n] = "measured"
<1>. SUFFICES ASSUME MeasuredByName, [Next]_vars
              PROVE  /\ MeasuredByName'
                     /\ \A n \in DOMAIN timings :
                          timings[n] = "measured" => n \in DOMAIN timings' /\ timings'[n] = "measured"
  OBVIOUS
<1>1. CASE \E c \in Commands : Ingest(c)
  BY <1>1, IngestKeepsMeasured
<1>2. CASE \A c \in Commands : ~Ingest(c)
  <2>1. timings' = timings
    BY <1>2, OthersKeepTimings
  <2>. QED
    BY <2>1 DEF MeasuredByName
<1>. QED
  BY <1>1, <1>2

\* What an agent reports of itself never replaces what was measured, for any
\* agents and any number of ingests.
THEOREM MeasuredIsSafe == Spec => MeasuredStays
<1>1. Init => MeasuredByName
  BY DEF Init, MeasuredByName
<1>2. MeasuredByName /\ [Next]_vars => MeasuredByName'
  BY MeasuredStep
<1>3. MeasuredByName /\ [Next]_vars =>
        [\A n \in DOMAIN timings :
           timings[n] = "measured" => n \in DOMAIN timings' /\ timings'[n] = "measured"]_vars
  BY MeasuredStep
<1>. QED
  BY <1>1, <1>2, <1>3, PTL DEF Spec, MeasuredStays

-----------------------------------------------------------------------------
\* One measurement is at least as good as another on the same pull requests,
\* with the same knowledge of the cost.
AtLeastAsGood(better, m) ==
  /\ better.rung = m.rung
  /\ better.recall >= m.recall /\ better.fp <= m.fp /\ better.f1 >= m.f1
  /\ better.lo >= m.lo /\ better.stdev <= m.stdev
  /\ better.cost <= m.cost /\ (better.cost <= 0 <=> m.cost <= 0)

\* A better candidate keeps every green gate (summary_stat_gate).
LEMMA GatesStayGreen ==
  ASSUME NEW b \in Numbers, NEW m \in Numbers, NEW better \in Numbers, AtLeastAsGood(better, m)
  PROVE  Green(b, m) \subseteq Green(b, better) /\ (CostMissing(b, better) <=> CostMissing(b, m))
<1>1. CostMissing(b, better) <=> CostMissing(b, m)
  BY DEF CostMissing, AtLeastAsGood
<1>2. ASSUME NEW g \in Green(b, m) PROVE g \in Green(b, better)
  <2>1. g \in Gates
    BY DEF Green
  <2>2. CASE g = "recall"
    BY <2>2 DEF Green, Numbers, AtLeastAsGood
  <2>3. CASE g = "noise"
    BY <2>3 DEF Green, Numbers, AtLeastAsGood
  <2>4. CASE g = "progress"
    BY <2>4 DEF Green, Numbers, AtLeastAsGood
  <2>5. CASE g = "stability"
    BY <2>5 DEF Green, Numbers, AtLeastAsGood
  <2>6. CASE g = "cost"
    BY <2>6, <1>1 DEF Green, Numbers, AtLeastAsGood
  <2>. QED
    BY <2>1, <2>2, <2>3, <2>4, <2>5, <2>6 DEF Gates
<1>. QED
  BY <1>1, <1>2

\* With it, the verdict does not fall: the three outcomes are ordered like the
\* sets of green gates they ask for.
LEMMA VerdictMonotone ==
  ASSUME NEW b \in Numbers, NEW m \in Numbers, NEW better \in Numbers, AtLeastAsGood(better, m)
  PROVE  Standing(Verdict(b, better)) >= Standing(Verdict(b, m))
<1>1. Green(b, m) \subseteq Green(b, better) /\ (CostMissing(b, better) <=> CostMissing(b, m))
  BY GatesStayGreen
<1>2. Underpowered(better) <=> Underpowered(m)
  BY DEF Underpowered, AtLeastAsGood
<1>3. Green(b, better) \subseteq Gates
  BY DEF Green
<1>4. /\ Verdict(b, m) = "promote" => Verdict(b, better) = "promote"
      /\ Verdict(b, m) = "inconclusive" => Verdict(b, better) # "revert"
  BY <1>1, <1>2, <1>3 DEF Verdict
<1>5. Verdict(b, m) \in {"promote", "inconclusive", "revert"}
  BY VerdictRange
<1>6. Verdict(b, better) \in {"promote", "inconclusive", "revert"}
  BY VerdictRange
<1>. QED
  BY <1>4, <1>5, <1>6 DEF Standing

\* Each of the improvements that GateIsMonotone tries is one.
LEMMA ImprovementsImprove ==
  ASSUME NEW m \in Numbers, NEW better \in Improvements(m)
  PROVE  better \in Numbers /\ AtLeastAsGood(better, m)
<1>1. CASE \E k \in {4, 31} : better = [m EXCEPT !.recall = @ + k]
  BY <1>1 DEF Numbers, AtLeastAsGood
<1>2. CASE \E k \in {4, 31} : better = [m EXCEPT !.fp = @ - k]
  BY <1>2 DEF Numbers, AtLeastAsGood
<1>3. CASE \E k \in {4, 31} : better = [m EXCEPT !.f1 = @ + k]
  BY <1>3 DEF Numbers, AtLeastAsGood
<1>4. CASE \E k \in {4, 31} : better = [m EXCEPT !.lo = @ + k]
  BY <1>4 DEF Numbers, AtLeastAsGood
<1>5. CASE \E k \in {4, 31} : better = [m EXCEPT !.stdev = @ - k]
  BY <1>5 DEF Numbers, AtLeastAsGood
<1>6. CASE \E k \in {1, m.cost - 1} \cap 1..m.cost : better = [m EXCEPT !.cost = k]
  <2>1. m.cost \in Int
    BY DEF Numbers
  <2>2. PICK k \in Int : 1 <= k /\ k <= m.cost /\ better = [m EXCEPT !.cost = k]
    BY <1>6, <2>1
  <2>. QED
    BY <2>1, <2>2 DEF Numbers, AtLeastAsGood
<1>7. \/ \E k \in {4, 31} : better \in
             {[m EXCEPT !.recall = @ + k], [m EXCEPT !.fp = @ - k], [m EXCEPT !.f1 = @ + k],
              [m EXCEPT !.lo = @ + k], [m EXCEPT !.stdev = @ - k]}
      \/ \E k \in {1, m.cost - 1} \cap 1..m.cost : better = [m EXCEPT !.cost = k]
  BY DEF Improvements
<1>. QED
  BY <1>1, <1>2, <1>3, <1>4, <1>5, <1>6, <1>7

\* Whatever two rows a gate has read, a candidate that did better in one
\* metric on as many pull requests would not get a worse verdict.
THEOREM GateMonotone == Spec => []GateIsMonotone
<1>1. TypeOK => GateIsMonotone
  <2>. SUFFICES ASSUME TypeOK, NEW c \in Commands, pc[c] = "gated",
                       NEW better \in Improvements(read[c].candidate.numbers)
                PROVE  Standing(Verdict(read[c].baseline, better))
                         >= Standing(Verdict(read[c].baseline, read[c].candidate.numbers))
    BY DEF GateIsMonotone
  <2>1. read[c].baseline \in Numbers /\ read[c].candidate.numbers \in Numbers
    BY DEF TypeOK, ReadsMatchPlace
  <2>. QED
    BY <2>1, ImprovementsImprove, VerdictMonotone
<1>. QED
  BY <1>1, TypeCorrect, PTL
=============================================================================
