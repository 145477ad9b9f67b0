------------------------- MODULE MCFindingCollector -------------------------
(***************************************************************************)
(* TLC instances of FindingCollector.                                      *)
(***************************************************************************)
EXTENDS FindingCollector

Finding(file, line, title, severity) ==
  [file |-> file, line |-> line, title |-> title, severity |-> severity]

\* In the first file two gradings of one key, a second title at that line, a
\* second line, and a finding without a line; in the second file one finding.
SixFindings ==
  {Finding(1, 1, 1, 1), Finding(1, 1, 1, 3), Finding(1, 1, 2, 2),
   Finding(1, 2, 1, 2), Finding(1, 0, 1, 1), Finding(2, 1, 1, 3)}

\* A gate of two leaves, one of a single leaf and one of none.
GateLeaves == [g \in Gates |-> IF g = 1 THEN {1, 2} ELSE IF g = 2 THEN {3} ELSE {}]
=============================================================================
