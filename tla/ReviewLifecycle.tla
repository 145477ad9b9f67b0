--------------------------- MODULE ReviewLifecycle ---------------------------
(***************************************************************************)
(* What a review run promises, whoever drives it: it is judged once, the   *)
(* judgement is recorded once in the run directory, and only a recorded    *)
(* verdict is delivered; a run that breaks delivers none.                  *)
(***************************************************************************)
VARIABLES
  phase,    \* how far the run is
  verdict,  \* its judgement, "none" before
  recorded, \* the verdict in the run directory, "none" before
  broken    \* the run has ended without delivering a verdict

vars == <<phase, verdict, recorded, broken>>

Init == phase = "open" /\ verdict = "none" /\ recorded = "none" /\ broken = FALSE

Judge(v) ==
  /\ phase = "open" /\ ~broken
  /\ phase' = "judged" /\ verdict' = v
  /\ UNCHANGED <<recorded, broken>>

Record ==
  /\ phase = "judged" /\ ~broken
  /\ phase' = "recorded" /\ recorded' = verdict
  /\ UNCHANGED <<verdict, broken>>

Deliver ==
  /\ phase = "recorded" /\ ~broken
  /\ phase' = "delivered"
  /\ UNCHANGED <<verdict, recorded, broken>>

Break ==
  /\ phase # "delivered" /\ ~broken
  /\ broken' = TRUE
  /\ UNCHANGED <<phase, verdict, recorded>>

Next == (\E v \in {"GO", "CONDITIONAL", "NO-GO"} : Judge(v)) \/ Record \/ Deliver \/ Break

Spec == Init /\ [][Next]_vars
=============================================================================
