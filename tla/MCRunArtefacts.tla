---------------------------- MODULE MCRunArtefacts ----------------------------
(***************************************************************************)
(* The TLC instance of RunArtefacts: two reviews of one pull request.      *)
(***************************************************************************)
EXTENDS RunArtefacts

SamePr == [r \in Reviews |-> 1]

\* Both time the whole review, and the first a leaf that the second has not.
OneLeaf == [r \in Reviews |-> IF r = 1 THEN {"whole_review", "leaf"} ELSE {"whole_review"}]

Report(v, issues) == [verdict |-> v, issues |-> issues, gates |-> {1, 5}]
Plain == [format |-> "auto", is_tty |-> FALSE, threshold |-> 0, gates |-> {}]
Asked ==
  {Plain, [Plain EXCEPT !.format = "yaml"], [Plain EXCEPT !.is_tty = TRUE, !.threshold = 2],
   [Plain EXCEPT !.format = "json", !.threshold = 3, !.gates = {5}]}
Second(by) == [env |-> Report("GO", {"minor"}), request |-> Plain, by |-> by]

\* The first review comes with every report and request, the second only
\* writes.
TwoReviews ==
  {<<[env |-> env, request |-> Plain, by |-> by], Second("runner")>> :
     env \in {Report("none", {}), Report("NO-GO", {"unknown"})}, by \in {"runner", "agent"}}
  \cup
  {<<[env |-> Report("NO-GO", {"minor", "important", "critical"}), request |-> q, by |-> by], Second(other)>> :
     q \in Asked, by \in {"runner", "agent"}, other \in {"runner"}}
=============================================================================
