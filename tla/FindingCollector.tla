--------------------------- MODULE FindingCollector ---------------------------
(***************************************************************************)
(* What becomes of the specialists' findings: handle_collect_findings      *)
(* merges the ones with one key, _semantic_merge unites near-duplicates    *)
(* with a union-find, the ranker drops some (_apply_rank_decisions), and   *)
(* handle_synthesize_release_readiness turns the rest into the gates.      *)
(*                                                                         *)
(* A leaf stands for its id; ids are compared by the code, so leaves are   *)
(* numbers.  A finding is what the merging looks at: file, line (0 for     *)
(* none), title and severity (_SEVERITY_RANK).  Whether two texts are      *)
(* similar is decided by token overlap or by an external embedder: any     *)
(* answer is possible for any pair.  The confidence only chooses among     *)
(* equally severe representatives, so any of them may be chosen.           *)
(***************************************************************************)
EXTENDS Naturals, Sequences, FiniteSets

CONSTANTS
  Leaves,        \* the ids of the picked leaves
  Candidates,    \* the findings a specialist may raise
  MaxRaised,     \* bound on the findings of a run
  Gates,
  Contributing   \* the leaves _gate_matches finds for each gate

ASSUME CollectorAssumption ==
  /\ Leaves \subseteq Nat /\ MaxRaised \in Nat
  /\ Candidates \subseteq [file : Nat, line : Nat, title : Nat, severity : 1..3]
  /\ Contributing \in [Gates -> SUBSET Leaves]

VARIABLES
  stage,      \* "exact", "compare", "group", "rank", "gates" or "judged"
  raised,     \* the findings read so far, each with its leaf
  merged,     \* the records of the exact merge, by key
  findings,   \* findings_out, a sequence of records
  parent,     \* the union-find over the indexes of findings
  pair,       \* the pair (i, j) of the double loop
  alike,      \* the pairs that were found to be one issue
  dropped,    \* the records the ranker dropped
  gates       \* the status of each gate

collectVars == <<raised, merged>>
mergeVars == <<parent, pair, alike>>
vars == <<stage, collectVars, findings, mergeVars, dropped, gates>>

Init ==
  /\ stage = "exact"
  /\ raised = {} /\ merged = <<>>
  /\ findings = <<>>
  /\ parent = <<>> /\ pair = <<1, 2>> /\ alike = {}
  /\ dropped = {}
  /\ gates = [g \in Gates |-> "none"]

-----------------------------------------------------------------------------
(* The exact merge.                                                        *)

DedupKey(f) == <<f.file, f.line, f.title>>

\* A finding as its leaf hands it in.
Stamped(leaf, f) ==
  [file |-> f.file, line |-> f.line, title |-> f.title, severity |-> f.severity,
   flagged_by |-> {leaf}, winner |-> leaf]

\* Mutant: a tie goes to the record that is there.
PickWinnerFirst(a, b) == IF a.severity >= b.severity THEN a ELSE b

\* The graver one, and among equals the one of the smaller origin.
PickWinner(a, b) ==
  IF a.severity # b.severity THEN (IF a.severity > b.severity THEN a ELSE b)
  ELSE IF a.winner <= b.winner THEN a ELSE b

\* Mutant: the origin of the finding at hand is recorded in any case.
FoldedRestamped(f_stamped, key) ==
  IF key \in DOMAIN merged
  THEN [PickWinner(merged[key], f_stamped) EXCEPT
          !.flagged_by = merged[key].flagged_by \cup f_stamped.flagged_by,
          !.winner = f_stamped.winner]
  ELSE f_stamped

\* The record of a key once one more finding with that key is read.
Folded(f_stamped, key) ==
  IF key \in DOMAIN merged
  THEN [PickWinner(merged[key], f_stamped) EXCEPT
          !.flagged_by = merged[key].flagged_by \cup f_stamped.flagged_by]
  ELSE f_stamped

\* The next finding of the next completed specialist.
Collect(leaf, f) ==
  /\ stage = "exact"
  /\ Cardinality(raised) < MaxRaised /\ <<leaf, f>> \notin raised
  /\ raised' = raised \cup {<<leaf, f>>}
  /\ merged' = [key \in DOMAIN merged \cup {DedupKey(f)} |->
                  IF key = DedupKey(f) THEN Folded(Stamped(leaf, f), key) ELSE merged[key]]
  /\ UNCHANGED <<stage, findings, mergeVars, dropped, gates>>

\* _sort_key: the gravest first, then by place and title.
SortsBefore(a, b) ==
  \/ a.severity > b.severity
  \/ a.severity = b.severity /\
       \/ a.file < b.file
       \/ a.file = b.file /\ (a.line < b.line \/ (a.line = b.line /\ a.title < b.title))

\* The records of S in that order: at place i the one that i - 1 others sort
\* before.  No two of them have one key, so there are no ties.
Sorted(S) ==
  [i \in 1..Cardinality(S) |->
     CHOOSE r \in S : Cardinality({q \in S : SortsBefore(q, r)}) = i - 1]

Sort ==
  /\ stage = "exact"
  /\ findings' = Sorted({merged[key] : key \in DOMAIN merged})
  /\ parent' = [i \in DOMAIN findings' |-> i]
  /\ stage' = IF Len(findings') < 2 THEN "rank" ELSE "compare"
  /\ UNCHANGED <<collectVars, pair, alike, dropped, gates>>

-----------------------------------------------------------------------------
(* The semantic merge.                                                     *)

\* One turn of the loop of find: the node is hung under its grandparent, and
\* the walk goes on there; at a root it is over.
Stride(w) ==
  LET halved == [w.parent EXCEPT ![w.at] = w.parent[w.parent[w.at]]]
  IN  IF w.parent[w.at] = w.at THEN w ELSE [parent |-> halved, at |-> halved[w.at]]

\* find(x), turn by turn.  A walk is no longer than there are nodes.
Walk(p, x) ==
  LET walk[turn \in 0..Len(p)] ==
        IF turn = 0 THEN [parent |-> p, at |-> x] ELSE Stride(walk[turn - 1])
  IN  walk

\* What find(x) returns and what it makes of parent.
Find(p, x) == Walk(p, x)[Len(p)]

\* Mutant: the node itself, not its root, is hung under the other root.
UnionNode(p, i, j) == LET fj == Find(p, j) IN [fj.parent EXCEPT ![i] = fj.at]

\* parent[find(i)] = find(j), the right-hand side first.
Union(p, i, j) ==
  LET fj == Find(p, j)
      fi == Find(fj.parent, i)
  IN  [fi.parent EXCEPT ![fi.at] = fj.at]

\* In one file, at one line or in similar words.
SameIssue(a, b, sim_ok) == a.file = b.file /\ ((a.line # 0 /\ a.line = b.line) \/ sim_ok)

Compare(sim_ok) ==
  LET i == pair[1]
      j == pair[2]
      n == Len(findings)
  IN  /\ stage = "compare"
      /\ IF SameIssue(findings[i], findings[j], sim_ok)
         THEN parent' = Union(parent, i, j) /\ alike' = alike \cup {pair}
         ELSE UNCHANGED <<parent, alike>>
      /\ pair' = IF j < n THEN <<i, j + 1>> ELSE <<i + 1, i + 2>>
      /\ stage' = IF pair' = <<n, n + 1>> THEN "group" ELSE "compare"
      /\ UNCHANGED <<collectVars, findings, dropped, gates>>

Root(x) == Find(parent, x).at
Group(x) == {y \in DOMAIN findings : Root(y) = Root(x)}

\* The gravest of a group, those who flagged any of it united.
Representatives(group) ==
  {[findings[rep] EXCEPT !.flagged_by = UNION {findings[m].flagged_by : m \in group}] :
     rep \in {r \in group : \A m \in group : findings[m].severity <= findings[r].severity}}

\* One representative for each group, sorted again.
MergeGroups ==
  LET groups == {Group(x) : x \in DOMAIN findings}
  IN  /\ stage = "group"
      /\ \E chosen \in [groups -> UNION {Representatives(g) : g \in groups}] :
           /\ \A g \in groups : chosen[g] \in Representatives(g)
           /\ findings' = Sorted({chosen[g] : g \in groups})
      /\ parent' = <<>> /\ pair' = <<1, 2>> /\ alike' = {}
      /\ stage' = "rank"
      /\ UNCHANGED <<collectVars, dropped, gates>>

-----------------------------------------------------------------------------
(* The ranker and the gates.                                               *)

\* The findings at the given indexes, in their order.
Listed(indexes) ==
  [k \in 1..Cardinality(indexes) |->
     findings[CHOOSE i \in indexes : Cardinality({j \in indexes : j < i}) = k - 1]]

\* Mutant: what the ranker does not mention is gone.
KeptByMention(drops, mentioned) == Listed(mentioned \ drops)

\* A finding stays unless a decision on its index says drop.
Kept(drops, mentioned) == Listed(DOMAIN findings \ (mentioned \cap drops))

\* The ranker decides on some indexes; those it would drop are among them.
Rank(mentioned, drops) ==
  /\ stage = "rank"
  /\ drops \subseteq mentioned /\ mentioned \subseteq DOMAIN findings
  /\ findings' = Kept(drops, mentioned)
  /\ dropped' = {findings[i] : i \in drops}
  /\ parent' = <<>>
  /\ stage' = "gates"
  /\ UNCHANGED <<collectVars, pair, alike, gates>>

\* Mutant: an important finding does not block.
BlockingOnlyCritical(f) == f.severity >= 3

Blocking(f) == f.severity >= 2

BlockingFlaggedBy ==
  UNION {findings[i].flagged_by : i \in {k \in DOMAIN findings : Blocking(findings[k])}}

SynthesizeGates ==
  /\ stage = "gates"
  /\ gates' = [g \in Gates |->
       IF Contributing[g] = {} THEN "N/A"
       ELSE IF Contributing[g] \cap BlockingFlaggedBy = {} THEN "PASS" ELSE "FAIL"]
  /\ stage' = "judged"
  /\ UNCHANGED <<collectVars, findings, mergeVars, dropped>>

Judged == stage = "judged" /\ UNCHANGED vars

Next ==
  \/ \E leaf \in Leaves, f \in Candidates : Collect(leaf, f)
  \/ Sort
  \/ \E sim_ok \in BOOLEAN : Compare(sim_ok)
  \/ MergeGroups
  \/ \E mentioned \in SUBSET DOMAIN findings : \E drops \in SUBSET mentioned : Rank(mentioned, drops)
  \/ SynthesizeGates
  \/ Judged

Spec == Init /\ [][Next]_vars

-----------------------------------------------------------------------------
Records(fs) == {fs[i] : i \in DOMAIN fs}

\* The records that stand for what was raised: the dropped ones were dropped
\* by name.
Held == Records(merged) \cup Records(findings) \cup dropped

\* The collector's data stay in the shapes of its schema, and every walk of
\* find ends at a root.
TypeOK ==
  /\ stage \in {"exact", "compare", "group", "rank", "gates", "judged"}
  /\ raised \subseteq Leaves \X Candidates
  /\ \A r \in Held :
       /\ r.flagged_by \in (SUBSET Leaves) \ {{}} /\ r.winner \in Leaves /\ r.severity \in 1..3
       /\ \E f \in Candidates : f.file = r.file
  /\ stage \in {"compare", "group"} =>
       \A x \in DOMAIN findings : parent[x] \in DOMAIN findings /\ parent[Root(x)] = Root(x)
  /\ gates \in [Gates -> {"none", "N/A", "PASS", "FAIL"}]

\* No merge loses a finding or plays it down: until the ranker drops it by
\* name, every finding a specialist raised is held by a record of its file
\* that names the specialist and is at least as grave.
NothingVanishes ==
  \A r \in raised :
    \E held \in IF stage = "exact" THEN Records(merged) ELSE Records(findings) \cup dropped :
      held.file = r[2].file /\ r[1] \in held.flagged_by /\ held.severity >= r[2].severity

\* No record is put into somebody's mouth: its winner did raise a finding of
\* that place, title and severity, and each specialist it names did raise
\* something in that file.
QuotesAreTrue ==
  \A held \in Held :
    /\ held.winner \in held.flagged_by
    /\ \E f \in Candidates :
         /\ <<held.winner, f>> \in raised
         /\ DedupKey(f) = DedupKey(held) /\ f.severity = held.severity
    /\ \A leaf \in held.flagged_by : \E f \in Candidates : <<leaf, f>> \in raised /\ f.file = held.file

\* The exact merge does not depend on the order in which the pool's results
\* come in: the record of a key is the gravest finding with that key, of the
\* smallest leaf that raised it so, flagged by all who raised it.
ExactIsCanonical ==
  /\ DOMAIN merged = {DedupKey(r[2]) : r \in raised}
  /\ \A key \in DOMAIN merged :
       LET mine == {r \in raised : DedupKey(r[2]) = key}
           gravest == {r \in mine : \A other \in mine : other[2].severity <= r[2].severity}
       IN  /\ \A r \in gravest : merged[key].severity = r[2].severity /\ merged[key].winner <= r[1]
           /\ \E r \in gravest : merged[key].winner = r[1]
           /\ merged[key].flagged_by = {r[1] : r \in mine}

\* The least set of indexes that holds x and, with an index, all those it was
\* found alike with.
Component(x) ==
  LET closed == {S \in SUBSET DOMAIN findings :
                   x \in S /\ \A p \in alike : p[1] \in S <=> p[2] \in S}
  IN  {y \in DOMAIN findings : \A S \in closed : y \in S}

\* The union-find is right at every step of the double loop: two findings
\* have one root exactly when a chain of alike findings joins them.
GroupsAreComponents ==
  stage \in {"compare", "group"} => \A x \in DOMAIN findings : Group(x) = Component(x)

\* A blocking finding gets to the gates: when a gate passes, everything
\* blocking that its leaves raised was dropped by name, through two merges in
\* which it may have been represented by another leaf's finding.
BlockersReachGates ==
  stage = "judged" =>
    \A g \in Gates, r \in raised :
      r[1] \in Contributing[g] /\ r[2].severity >= 2 =>
        \/ gates[g] = "FAIL"
        \/ \E held \in dropped :
             held.file = r[2].file /\ r[1] \in held.flagged_by /\ held.severity >= 2
=============================================================================
