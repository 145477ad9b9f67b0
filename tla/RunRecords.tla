------------------------------ MODULE RunRecords ------------------------------
(***************************************************************************)
(* What the files of a review promise to those who read them: a record is  *)
(* published whole and stays, a review is shown to its user and counted by *)
(* the tracker only from a published record.                               *)
(***************************************************************************)
CONSTANTS Reviews, Days

VARIABLES
  published,   \* the records, a review and the day of its directory
  shown,       \* the reviews whose report was printed
  counted      \* the records the tracker took its measurements from

vars == <<published, shown, counted>>

Init == published = {} /\ shown = {} /\ counted = {}

Publish(r, d) ==
  /\ published' = published \cup {<<r, d>>}
  /\ UNCHANGED <<shown, counted>>

Show(r) ==
  /\ \E d \in Days : <<r, d>> \in published
  /\ shown' = shown \cup {r}
  /\ UNCHANGED <<published, counted>>

Count(records) ==
  /\ counted' = records
  /\ UNCHANGED <<published, shown>>

Next ==
  \/ \E r \in Reviews, d \in Days : Publish(r, d)
  \/ \E r \in Reviews : Show(r)
  \/ \E records \in SUBSET published : Count(records)

Spec == Init /\ [][Next]_vars
=============================================================================
