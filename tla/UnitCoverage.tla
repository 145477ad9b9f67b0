---------------------------- MODULE UnitCoverage ----------------------------
(***************************************************************************)
(* What _dispatch_units promises its caller, without threads, retries,     *)
(* rate limits or overflow splits: every file of every planned unit is     *)
(* settled exactly once, as reviewed or as dropped; a unit gets one result *)
(* and only when all its files are settled; a unit reported "failed" or    *)
(* "skipped" hides no reviewed file; the result map is handed back only    *)
(* when every unit has its result.                                         *)
(***************************************************************************)
EXTENDS Naturals

CONSTANTS NumUnits,   \* how many units the planner produced
          Size        \* the number of files of each unit

Units == 1..NumUnits
Files(u) == 1..Size[u]

VARIABLES
  outcome,   \* the result of each unit, "none" until it has one
  reviewed,  \* the files of each unit that an answered dispatch covered
  dropped,   \* the files of each unit that no answered dispatch covered
  returned   \* TRUE once the caller has the map of results

vars == <<outcome, reviewed, dropped, returned>>

Open(u) == Files(u) \ (reviewed[u] \cup dropped[u])

Init ==
  /\ outcome = [u \in Units |-> "none"]
  /\ reviewed = [u \in Units |-> {}]
  /\ dropped = [u \in Units |-> {}]
  /\ returned = FALSE

\* The open files S of u become reviewed or dropped, all of them alike.
SettleFiles(u, S, ok) ==
  /\ outcome[u] = "none"
  /\ S \subseteq Open(u)
  /\ reviewed' = IF ok THEN [reviewed EXCEPT ![u] = @ \cup S] ELSE reviewed
  /\ dropped' = IF ok THEN dropped ELSE [dropped EXCEPT ![u] = @ \cup S]

\* Part of a unit is settled; the unit stays without a result.
SettleSome(u, S, ok) ==
  /\ SettleFiles(u, S, ok)
  /\ UNCHANGED <<outcome, returned>>

\* What was still open is settled and the unit gets its result.
SettleLast(u, ok, status) ==
  /\ SettleFiles(u, Open(u), ok)
  /\ status # "completed" => reviewed'[u] = {}
  /\ outcome' = [outcome EXCEPT ![u] = status]
  /\ UNCHANGED returned

Return ==
  /\ ~returned
  /\ \A u \in Units : outcome[u] # "none"
  /\ returned' = TRUE
  /\ UNCHANGED <<outcome, reviewed, dropped>>

Next ==
  \/ \E u \in Units, ok \in BOOLEAN :
       \/ \E S \in SUBSET Files(u) : SettleSome(u, S, ok)
       \/ \E status \in {"completed", "failed", "skipped"} : SettleLast(u, ok, status)
  \/ Return

Spec == Init /\ [][Next]_vars
=============================================================================
