-------------------------- MODULE RunArtefactsProofs --------------------------
(***************************************************************************)
(* Theorems of RunArtefacts: whatever the number of reviews, days and      *)
(* crashes, no reader finds a part of a record, what is printed is what    *)
(* was recorded, and the files implement the records of RunRecords.        *)
(***************************************************************************)
EXTENDS RunArtefacts, TLAPS

Stages == {"judged", "writing", "emitting", "done", "faulted", "lost"}
Paths == [day : Days, relative : BOOLEAN]

\* The shapes of what the processes hold and of the disk.
WriterTypeOK ==
  /\ job \in [Reviews -> [env : Reports, request : Requests, by : {"runner", "agent"}]]
  /\ today \in Days
  /\ disk \in [Reviews -> [Days -> [1..4 -> Bodies]]]
  /\ stage \in [Reviews -> Stages]
  /\ day \in [Reviews -> Days]
  /\ written \in [Reviews -> 0..4]
  /\ temporary \in [Reviews -> BOOLEAN]
  /\ ad_hoc \in [Reviews -> BOOLEAN]
  /\ alive \in [Reviews -> BOOLEAN]
  /\ cwd \in [Reviews -> {"project", "elsewhere"}]
  /\ run_dir_path \in [Reviews -> Paths \cup {NoPath}]
  /\ printed = [r \in Reviews |-> printed[r]]

\* On the disk files are whole and were written in their order.
DiskInOrder ==
  \A r \in Reviews, d \in Days, n \in 1..4 :
    /\ disk[r][d][n] # "torn"
    /\ Whole(r, d, n) => \A k \in 1..n : Whole(r, d, k)

\* A writer has written as many files as it counts, and no more than it has to.
WriterCounts(r) ==
  stage[r] = "writing" =>
    /\ \A k \in 1..written[r] : Whole(r, day[r], k)
    /\ written[r] <= FilesOf(r)
    /\ temporary[r] => written[r] < FilesOf(r)
WritersCount == \A r \in Reviews : WriterCounts(r)

\* The directory a run reports as its own.
PathLeads(r) ==
  /\ stage[r] = "emitting" => run_dir_path[r] # NoPath
  /\ run_dir_path[r] # NoPath => Record(r, run_dir_path[r].day)
PathsLead == \A r \in Reviews : PathLeads(r)

WriterInv == WriterTypeOK /\ DiskInOrder /\ WritersCount /\ PathsLead

-----------------------------------------------------------------------------
(* The writer.                                                             *)

\* Three files, or four with the measurements.
LEMMA FilesOfRange ==
  ASSUME NEW r \in Reviews
  PROVE  FilesOf(r) \in 3..4
BY DEF FilesOf

LEMMA WriterInit == Init => WriterInv
<1>. SUFFICES ASSUME Init PROVE WriterInv
  OBVIOUS
<1>1. WriterTypeOK
  BY ArtefactsAssumption DEF Init, WriterTypeOK, Stages, Paths, Bodies, Days
<1>2. DiskInOrder
  BY DEF Init, DiskInOrder, Whole
<1>3. WritersCount /\ PathsLead
  BY DEF Init, WritersCount, WriterCounts, PathsLead, PathLeads
<1>. QED
  BY <1>1, <1>2, <1>3 DEF WriterInv

\* A rename changes one file, the next one of its writer.
LEMMA RenameWrites ==
  ASSUME WriterInv, NEW r \in Reviews, Rename(r)
  PROVE  /\ written[r] \in 0..3 /\ day[r] \in Days
         /\ written'[r] = written[r] + 1 /\ written[r] < FilesOf(r)
         /\ disk' \in [Reviews -> [Days -> [1..4 -> Bodies]]]
         /\ \A q \in Reviews, d \in Days, n \in 1..4 :
              disk'[q][d][n] = IF q = r /\ d = day[r] /\ n = written[r] + 1
                               THEN "whole" ELSE disk[q][d][n]
<1>1. written[r] < FilesOf(r) /\ written[r] \in 0..4 /\ day[r] \in Days
  BY DEF WriterInv, WritersCount, WriterCounts, WriterTypeOK, Rename
<1>2. written[r] \in 0..3
  BY <1>1, FilesOfRange
<1>3. disk' = [disk EXCEPT ![r][day[r]][written[r] + 1] = "whole"]
  BY DEF Rename
<1>4. disk' \in [Reviews -> [Days -> [1..4 -> Bodies]]]
  BY <1>1, <1>2, <1>3 DEF WriterInv, WriterTypeOK, Bodies
<1>5. ASSUME NEW q \in Reviews, NEW d \in Days, NEW n \in 1..4
      PROVE  disk'[q][d][n] = IF q = r /\ d = day[r] /\ n = written[r] + 1
                              THEN "whole" ELSE disk[q][d][n]
  BY <1>1, <1>2, <1>3 DEF WriterInv, WriterTypeOK
<1>6. written'[r] = written[r] + 1
  BY DEF Rename, WriterInv, WriterTypeOK
<1>. QED
  BY <1>1, <1>2, <1>4, <1>5, <1>6

\* Every step keeps the shapes.
LEMMA WriterTypeStep ==
  ASSUME WriterInv, [Next]_vars
  PROVE  WriterTypeOK'
<1>. USE DEF WriterTypeOK, WriterInv, Stages, Paths
<1>1. ASSUME NEW r \in Reviews, StartWriting(r) PROVE WriterTypeOK'
  BY <1>1 DEF StartWriting, processVars, readerVars
<1>2. ASSUME NEW r \in Reviews, WriteTemporary(r) PROVE WriterTypeOK'
  BY <1>2 DEF WriteTemporary, processVars, readerVars
<1>3. ASSUME NEW r \in Reviews, Rename(r) PROVE WriterTypeOK'
  <2>1. disk' \in [Reviews -> [Days -> [1..4 -> Bodies]]] /\ written[r] \in 0..3
    BY <1>3, RenameWrites
  <2>2. written[r] + 1 \in 0..4
    BY <2>1
  <2>3. written' \in [Reviews -> 0..4]
    BY <2>2, <1>3 DEF Rename
  <2>. QED
    BY <2>1, <2>3, <1>3 DEF Rename, processVars, readerVars
<1>4. ASSUME NEW r \in Reviews, Written(r) PROVE WriterTypeOK'
  <2>1. [day |-> day[r], relative |-> cwd[r] = "project"] \in Paths
    OBVIOUS
  <2>2. run_dir_path' \in [Reviews -> Paths \cup {NoPath}]
    <3>. HIDE DEF Paths
    <3>. QED
      BY <2>1, <1>4 DEF Written
  <2>. QED
    BY <2>2, <1>4 DEF Written, processVars, readerVars
<1>5. ASSUME NEW r \in Reviews, EmitStdout(r) PROVE WriterTypeOK'
  BY <1>5 DEF EmitStdout, writeVars, processVars, readerVars
<1>6. ASSUME NEW r \in Reviews, Resume(r) PROVE WriterTypeOK'
  BY <1>6 DEF Resume, writeVars, readerVars
<1>7. ASSUME NEW r \in Reviews, Rematerialise(r) PROVE WriterTypeOK'
  BY <1>7 DEF Rematerialise, writeVars, processVars, readerVars
<1>8. ASSUME NEW r \in Reviews, Crash(r) PROVE WriterTypeOK'
  BY <1>8 DEF Crash, writeVars, readerVars
<1>9. CASE Midnight
  BY <1>9, ArtefactsAssumption DEF Midnight, writeVars, processVars, readerVars, Days
<1>10. CASE FindTimingsFiles \/ FindAgain \/ WriteRows
  BY <1>10 DEF FindTimingsFiles, FindAgain, WriteRows, writeVars, processVars
<1>11. ASSUME NEW x \in Reviews \X Days, Collect(x) \/ PerReviewCost(x) PROVE WriterTypeOK'
  BY <1>11 DEF Collect, PerReviewCost, writeVars, processVars
<1>12. CASE UNCHANGED vars
  BY <1>12 DEF vars, writeVars, processVars
<1>. QED
  BY <1>1, <1>2, <1>3, <1>4, <1>5, <1>6, <1>7, <1>8, <1>9, <1>10, <1>11, <1>12 DEF Next, RunStep

\* The disk changes in a rename only, and only for the better.
LEMMA DiskGrows ==
  ASSUME WriterInv, [Next]_vars
  PROVE  /\ \A r \in Reviews, d \in Days, n \in 1..4 : Whole(r, d, n) => Whole(r, d, n)'
         /\ UNCHANGED disk \/ \E r \in Reviews : Rename(r)
<1>1. UNCHANGED disk \/ \E r \in Reviews : Rename(r)
  <2>1. CASE \E r \in Reviews : RunStep(r) \/ Rematerialise(r) \/ Crash(r)
    BY <2>1 DEF RunStep, StartWriting, WriteTemporary, Written, EmitStdout, Resume, Rematerialise,
                Crash, writeVars
  <2>2. CASE Midnight \/ FindTimingsFiles \/ FindAgain \/ WriteRows
    BY <2>2 DEF Midnight, FindTimingsFiles, FindAgain, WriteRows, writeVars
  <2>3. CASE \E x \in Reviews \X Days : Collect(x) \/ PerReviewCost(x)
    BY <2>3 DEF Collect, PerReviewCost, writeVars
  <2>4. CASE UNCHANGED vars
    BY <2>4 DEF vars, writeVars
  <2>. QED
    BY <2>1, <2>2, <2>3, <2>4 DEF Next
<1>2. CASE UNCHANGED disk
  BY <1>2 DEF Whole
<1>3. ASSUME NEW r \in Reviews, Rename(r)
      PROVE  \A q \in Reviews, d \in Days, n \in 1..4 : Whole(q, d, n) => Whole(q, d, n)'
  BY <1>3, RenameWrites DEF Whole
<1>. QED
  BY <1>1, <1>2, <1>3

\* Files are renamed into place in their order.
LEMMA DiskStep ==
  ASSUME WriterInv, [Next]_vars
  PROVE  DiskInOrder'
<1>1. CASE UNCHANGED disk
  BY <1>1 DEF WriterInv, DiskInOrder, Whole
<1>2. ASSUME NEW r \in Reviews, Rename(r) PROVE DiskInOrder'
  <2>1. SUFFICES ASSUME NEW q \in Reviews, NEW d \in Days, NEW n \in 1..4
                 PROVE  /\ disk'[q][d][n] # "torn"
                        /\ Whole(q, d, n)' => \A k \in 1..n : Whole(q, d, k)'
    BY DEF DiskInOrder
  <2>2. disk'[q][d][n] # "torn"
    <3>1. disk[q][d][n] # "torn"
      BY DEF WriterInv, DiskInOrder
    <3>. QED
      BY <3>1, <1>2, RenameWrites
  <2>3. CASE q = r /\ d = day[r] /\ n = written[r] + 1
    <3>1. \A k \in 1..written[r] : Whole(r, day[r], k)
      BY <1>2 DEF Rename, WriterInv, WritersCount, WriterCounts
    <3>2. ASSUME NEW k \in 1..n PROVE Whole(q, d, k)'
      <4>1. k \in 1..written[r] \/ k = written[r] + 1
        BY <2>3, <1>2, RenameWrites
      <4>2. CASE k \in 1..written[r]
        <5>1. Whole(q, d, k) /\ k \in 1..4
          BY <4>2, <3>1, <2>3
        <5>. QED
          BY <5>1, DiskGrows DEF Whole
      <4>3. CASE k = written[r] + 1
        BY <4>3, <2>3, <1>2, RenameWrites DEF Whole
      <4>. QED
        BY <4>1, <4>2, <4>3
    <3>. QED
      BY <2>2, <3>2
  <2>4. CASE ~(q = r /\ d = day[r] /\ n = written[r] + 1)
    <3>1. disk'[q][d][n] = disk[q][d][n]
      BY <2>4, <1>2, RenameWrites
    <3>2. Whole(q, d, n) => \A k \in 1..n : Whole(q, d, k)
      BY DEF WriterInv, DiskInOrder
    <3>. QED
      BY <2>2, <3>1, <3>2, DiskGrows DEF Whole
  <2>. QED
    BY <2>3, <2>4
<1>. QED
  BY <1>1, <1>2, DiskGrows

\* What a writer counts stays true of a disk that only grows, for a writer
\* that does not move.
LEMMA StillCounts ==
  ASSUME WriterInv, [Next]_vars, NEW q \in Reviews, stage'[q] = "writing" => stage[q] = "writing",
         UNCHANGED <<written[q], day[q], temporary[q], job[q], ad_hoc[q]>>
  PROVE  WriterCounts(q)'
<1>. SUFFICES ASSUME stage[q] = "writing" PROVE WriterCounts(q)'
  BY DEF WriterCounts
<1>1. /\ \A k \in 1..written[q] : Whole(q, day[q], k)
      /\ written[q] <= FilesOf(q) /\ (temporary[q] => written[q] < FilesOf(q))
  BY DEF WriterInv, WritersCount, WriterCounts
<1>2. day[q] \in Days /\ written[q] \in 0..4
  BY DEF WriterInv, WriterTypeOK
<1>3. FilesOf(q)' = FilesOf(q)
  BY DEF FilesOf
<1>4. \A k \in 1..written[q] : k \in 1..4
  BY <1>2
<1>5. ASSUME NEW k \in 1..written[q] PROVE Whole(q, day[q], k)'
  BY <1>1, <1>2, <1>4, DiskGrows DEF Whole
<1>. QED
  BY <1>1, <1>3, <1>5 DEF Whole, WriterCounts

\* A rename counts.
LEMMA RenameCounts ==
  ASSUME WriterInv, [Next]_vars, NEW r \in Reviews, Rename(r)
  PROVE  WriterCounts(r)'
<1>1. \A k \in 1..written[r] : Whole(r, day[r], k)
  BY DEF Rename, WriterInv, WritersCount, WriterCounts
<1>2. /\ written[r] \in 0..3 /\ day[r] \in Days /\ written'[r] = written[r] + 1
      /\ written[r] < FilesOf(r)
  BY RenameWrites
<1>3. day'[r] = day[r] /\ temporary'[r] = FALSE /\ FilesOf(r)' = FilesOf(r)
  BY DEF Rename, FilesOf, WriterInv, WriterTypeOK
<1>4. ASSUME NEW k \in 1..written'[r] PROVE Whole(r, day[r], k)'
  <2>1. k \in 1..written[r] \/ k = written[r] + 1
    BY <1>2
  <2>2. CASE k \in 1..written[r]
    <3>1. Whole(r, day[r], k) /\ k \in 1..4
      BY <2>2, <1>1, <1>2
    <3>. QED
      BY <3>1, <1>2, <1>3, DiskGrows DEF Whole
  <2>3. CASE k = written[r] + 1
    BY <2>3, <1>2, <1>3, RenameWrites DEF Whole
  <2>. QED
    BY <2>1, <2>2, <2>3
<1>5. written'[r] <= FilesOf(r)
  <2>1. FilesOf(r) \in 3..4
    BY FilesOfRange
  <2>. QED
    BY <2>1, <1>2
<1>. QED
  BY <1>3, <1>4, <1>5 DEF WriterCounts

\* The writers keep count.
LEMMA WritersStep ==
  ASSUME WriterInv, [Next]_vars
  PROVE  WritersCount'
<1>0. SUFFICES ASSUME NEW q \in Reviews PROVE WriterCounts(q)'
  BY DEF WritersCount
<1>. USE DEF WriterInv, WriterTypeOK
<1>1. ASSUME NEW r \in Reviews, StartWriting(r) PROVE WriterCounts(q)'
  <2>1. CASE q = r
    <3>1. written'[q] = 0 /\ temporary'[q] = FALSE /\ FilesOf(q)' = FilesOf(q)
      BY <2>1, <1>1 DEF StartWriting, FilesOf
    <3>2. FilesOf(q) \in 3..4
      BY FilesOfRange
    <3>. QED
      BY <3>1, <3>2 DEF WriterCounts
  <2>2. CASE q # r
    BY <2>2, <1>1, StillCounts DEF StartWriting
  <2>. QED
    BY <2>1, <2>2
<1>2. ASSUME NEW r \in Reviews, WriteTemporary(r) PROVE WriterCounts(q)'
  <2>1. CASE q = r
    BY <2>1, <1>2 DEF WriteTemporary, FilesOf, WritersCount, WriterCounts, Whole
  <2>2. CASE q # r
    BY <2>2, <1>2, StillCounts DEF WriteTemporary
  <2>. QED
    BY <2>1, <2>2
<1>3. ASSUME NEW r \in Reviews, Rename(r) PROVE WriterCounts(q)'
  <2>1. CASE q = r
    BY <2>1, <1>3, RenameCounts
  <2>2. CASE q # r
    BY <2>2, <1>3, StillCounts DEF Rename
  <2>. QED
    BY <2>1, <2>2
<1>4. ASSUME NEW r \in Reviews, Written(r) \/ EmitStdout(r) \/ Rematerialise(r) \/ Crash(r)
      PROVE  WriterCounts(q)'
  <2>1. CASE q = r
    BY <2>1, <1>4 DEF Written, EmitStdout, Rematerialise, Crash, WriterCounts
  <2>2. CASE q # r
    BY <2>2, <1>4, StillCounts DEF Written, EmitStdout, Rematerialise, Crash, writeVars
  <2>. QED
    BY <2>1, <2>2
<1>5. ASSUME NEW r \in Reviews, Resume(r) PROVE WriterCounts(q)'
  BY <1>5, StillCounts DEF Resume, writeVars
<1>6. CASE Midnight \/ FindTimingsFiles \/ FindAgain \/ WriteRows
  BY <1>6, StillCounts DEF Midnight, FindTimingsFiles, FindAgain, WriteRows, writeVars
<1>7. ASSUME NEW x \in Reviews \X Days, Collect(x) \/ PerReviewCost(x) PROVE WriterCounts(q)'
  BY <1>7, StillCounts DEF Collect, PerReviewCost, writeVars
<1>8. CASE UNCHANGED vars
  BY <1>8, StillCounts DEF vars, writeVars
<1>. QED
  BY <1>1, <1>2, <1>3, <1>4, <1>5, <1>6, <1>7, <1>8 DEF Next, RunStep

\* A record stays a record.
LEMMA RecordStays ==
  ASSUME WriterInv, [Next]_vars, NEW r \in Reviews, NEW d \in Days, Record(r, d)
  PROVE  Record(r, d)'
BY DiskGrows DEF Record, Manifest, Markdown, Json, Whole

\* A path that stays leads where it led.
LEMMA PathStays ==
  ASSUME WriterInv, [Next]_vars, NEW q \in Reviews, run_dir_path'[q] = run_dir_path[q],
         stage'[q] = "emitting" => stage[q] = "emitting"
  PROVE  PathLeads(q)'
<1>1. /\ stage[q] = "emitting" => run_dir_path[q] # NoPath
      /\ run_dir_path[q] # NoPath => Record(q, run_dir_path[q].day)
  BY DEF WriterInv, PathsLead, PathLeads
<1>2. CASE run_dir_path[q] # NoPath
  <2>1. PICK d \in Days : d = run_dir_path[q].day
    BY <1>2 DEF WriterInv, WriterTypeOK, Paths
  <2>2. Record(q, d)'
    BY <1>1, <1>2, <2>1, RecordStays
  <2>. QED
    BY <1>1, <2>1, <2>2 DEF PathLeads, Record, Whole
<1>3. CASE run_dir_path[q] = NoPath
  BY <1>1, <1>3 DEF PathLeads, NoPath
<1>. QED
  BY <1>2, <1>3

\* A run reports a directory when all its files are in place.
LEMMA WrittenLeads ==
  ASSUME WriterInv, [Next]_vars, NEW r \in Reviews, Written(r), ~ad_hoc[r]
  PROVE  PathLeads(r)'
<1>1. run_dir_path'[r] = [day |-> day[r], relative |-> cwd[r] = "project"]
  BY DEF Written, WriterInv, WriterTypeOK
<1>2. PICK d \in Days : d = day[r]
  BY DEF WriterInv, WriterTypeOK
<1>3. \A k \in 1..FilesOf(r) : Whole(r, d, k)
  BY <1>2 DEF Written, WriterInv, WritersCount, WriterCounts
<1>4. FilesOf(r) \in 3..4
  BY FilesOfRange
<1>5. Record(r, d)
  BY <1>3, <1>4 DEF Record, Manifest, Markdown, Json
<1>6. Record(r, d)'
  BY <1>5, RecordStays
<1>7. run_dir_path'[r].day = d /\ run_dir_path'[r] # NoPath
  BY <1>1, <1>2, ArtefactsAssumption DEF NoPath, Days
<1>. QED
  BY <1>6, <1>7 DEF PathLeads, Record, Whole, NoPath

\* The directories that runs report are records.
LEMMA PathsStep ==
  ASSUME WriterInv, [Next]_vars
  PROVE  PathsLead'
<1>0. SUFFICES ASSUME NEW q \in Reviews PROVE PathLeads(q)'
  BY DEF PathsLead
<1>1. ASSUME NEW r \in Reviews, Written(r) PROVE PathLeads(q)'
  <2>1. CASE q = r /\ ~ad_hoc[r]
    BY <2>1, <1>1, WrittenLeads
  <2>2. CASE ~(q = r /\ ~ad_hoc[r])
    BY <2>2, <1>1, PathStays DEF Written, WriterInv, WriterTypeOK
  <2>. QED
    BY <2>1, <2>2
<1>2. ASSUME NEW r \in Reviews,
             StartWriting(r) \/ WriteTemporary(r) \/ Rename(r) \/ EmitStdout(r) \/ Resume(r)
               \/ Rematerialise(r) \/ Crash(r)
      PROVE  PathLeads(q)'
  <2>1. run_dir_path'[q] = run_dir_path[q]
    BY <1>2 DEF StartWriting, WriteTemporary, Rename, EmitStdout, Resume, Rematerialise, Crash, writeVars
  <2>2. stage'[q] = "emitting" => stage[q] = "emitting"
    BY <1>2 DEF StartWriting, WriteTemporary, Rename, EmitStdout, Resume, Rematerialise, Crash,
                WriterInv, WriterTypeOK
  <2>. QED
    BY <2>1, <2>2, PathStays
<1>3. CASE Midnight \/ FindTimingsFiles \/ FindAgain \/ WriteRows
  BY <1>3, PathStays DEF Midnight, FindTimingsFiles, FindAgain, WriteRows, writeVars
<1>4. ASSUME NEW x \in Reviews \X Days, Collect(x) \/ PerReviewCost(x) PROVE PathLeads(q)'
  BY <1>4, PathStays DEF Collect, PerReviewCost, writeVars
<1>5. CASE UNCHANGED vars
  BY <1>5, PathStays DEF vars, writeVars
<1>. QED
  BY <1>1, <1>2, <1>3, <1>4, <1>5 DEF Next, RunStep

\* The writer's invariant, and what every reader relies on.
LEMMA WriterInvariant == Spec => []WriterInv
<1>1. WriterInv /\ [Next]_vars => WriterInv'
  BY WriterTypeStep, DiskStep, WritersStep, PathsStep DEF WriterInv
<1>. QED
  BY WriterInit, <1>1, PTL DEF Spec

\* However often runs die, are resumed or write again, before or after
\* midnight, no reader finds a part of a file, a manifest or timings without
\* the reports, or the reported directory incomplete (write_run_artefacts).
THEOREM RecordsAreWhole == Spec => []RecordIsWhole
<1>1. WriterInv => RecordIsWhole
  <2>. SUFFICES ASSUME WriterInv, NEW r \in Reviews
                PROVE  /\ \A d \in Days :
                            /\ \A n \in 1..4 : disk[r][d][n] # "torn"
                            /\ Whole(r, d, Manifest) => Record(r, d)
                            /\ Whole(r, d, Timings) => Record(r, d)
                       /\ run_dir_path[r] # NoPath => Record(r, run_dir_path[r].day)
    BY DEF RecordIsWhole
  <2>. QED
    BY DEF WriterInv, DiskInOrder, PathsLead, PathLeads, Record, Manifest, Timings, Markdown, Json
<1>. QED
  BY WriterInvariant, <1>1, PTL

-----------------------------------------------------------------------------
(* The printer.                                                            *)

\* A run prints once, after its directory is there; what comes back to a
\* finished run keeps its process and what it printed.
PrinterSound(r) ==
  /\ stage[r] = "emitting" \/ (stage[r] \in {"judged", "writing"} /\ ~ad_hoc[r]) => printed[r] = Nothing
  /\ ad_hoc[r] => stage[r] # "emitting"
  /\ stage[r] \in {"writing", "emitting", "done"} => Reportable(r)
  /\ stage[r] = "done" \/ ad_hoc[r] =>
       /\ alive[r]
       /\ printed[r] = Nothing => run_dir_path[r].relative /\ cwd[r] = "elsewhere"
  /\ printed[r] # Nothing =>
       /\ run_dir_path[r] # NoPath
       /\ printed[r] = ApplyScopeFilters(job[r].env, job[r].request)
PrintersSound == \A r \in Reviews : PrinterSound(r)

LEMMA PrinterInit == Init => PrintersSound
BY DEF Init, PrintersSound, PrinterSound

\* A run that is left alone stays sound.
LEMMA PrinterStays ==
  ASSUME NEW q \in Reviews, PrinterSound(q),
         UNCHANGED <<stage[q], ad_hoc[q], alive[q], cwd[q], printed[q], run_dir_path[q], job[q]>>
  PROVE  PrinterSound(q)'
BY DEF PrinterSound, Reportable, ApplyScopeFilters

\* The report a run prints from is there unless the run looks for it from
\* another directory.
LEMMA ReportIsThere ==
  ASSUME WriterInv, NEW r \in Reviews, stage[r] = "emitting",
         Contents(r, FileRead(job[r].request)) = "none"
  PROVE  run_dir_path[r].relative /\ cwd[r] = "elsewhere"
<1>1. Record(r, run_dir_path[r].day)
  BY DEF WriterInv, PathsLead, PathLeads
<1>2. FileRead(job[r].request) \in {Json, Markdown}
  BY DEF FileRead
<1>3. disk[r][run_dir_path[r].day][FileRead(job[r].request)] = "whole"
  BY <1>1, <1>2 DEF Record, Whole
<1>4. cwd[r] \in {"project", "elsewhere"}
  BY DEF WriterInv, WriterTypeOK
<1>. QED
  BY <1>3, <1>4 DEF Contents

LEMMA EmitSound ==
  ASSUME WriterInv, PrintersSound, NEW r \in Reviews, EmitStdout(r)
  PROVE  PrinterSound(r)'
<1>1. PrinterSound(r) /\ stage[r] = "emitting" /\ alive[r]
  BY DEF PrintersSound, EmitStdout
<1>2. stage'[r] = "done" /\ UNCHANGED <<job, ad_hoc, alive, cwd, run_dir_path>>
  BY DEF EmitStdout, WriterInv, WriterTypeOK, writeVars, processVars
<1>3. printed'[r] = IF Contents(r, FileRead(job[r].request)) = "none" THEN Nothing
                    ELSE ApplyScopeFilters(job[r].env, job[r].request)
  BY DEF EmitStdout, WriterInv, WriterTypeOK
<1>4. Reportable(r) /\ ~ad_hoc[r]
  BY <1>1 DEF PrinterSound
<1>5. ApplyScopeFilters(job[r].env, job[r].request) # Nothing
  BY <1>4 DEF Reportable, ApplyScopeFilters, Nothing
<1>6. run_dir_path[r] # NoPath
  BY <1>1 DEF WriterInv, PathsLead, PathLeads
<1>7. printed'[r] = Nothing => run_dir_path[r].relative /\ cwd[r] = "elsewhere"
  BY <1>1, <1>3, <1>5, ReportIsThere
<1>8. Reportable(r)'
  BY <1>2, <1>4 DEF Reportable
<1>9. ApplyScopeFilters(job[r].env, job[r].request)' = ApplyScopeFilters(job[r].env, job[r].request)
  BY <1>2 DEF ApplyScopeFilters
<1>. QED
  BY <1>1, <1>2, <1>3, <1>4, <1>6, <1>7, <1>8, <1>9 DEF PrinterSound, NoPath, Nothing

\* Every step keeps the printers sound.
LEMMA PrinterStep ==
  ASSUME WriterInv, PrintersSound, [Next]_vars
  PROVE  PrintersSound'
<1>0. SUFFICES ASSUME NEW q \in Reviews PROVE PrinterSound(q)'
  BY DEF PrintersSound
<1>. DEFINE Here == <<stage[q], ad_hoc[q], alive[q], cwd[q], printed[q], run_dir_path[q], job[q]>>
<1>1. PrinterSound(q) /\ (UNCHANGED Here => PrinterSound(q)')
  BY PrinterStays DEF PrintersSound
<1>2. ASSUME NEW r \in Reviews, StartWriting(r) PROVE PrinterSound(q)'
  <2>1. CASE q = r
    BY <2>1, <1>1, <1>2 DEF StartWriting, PrinterSound, Reportable, ApplyScopeFilters, WriterInv,
                            WriterTypeOK, processVars
  <2>2. CASE q # r
    BY <2>2, <1>1, <1>2 DEF StartWriting, WriterInv, WriterTypeOK, processVars
  <2>. QED
    BY <2>1, <2>2
<1>3. ASSUME NEW r \in Reviews, WriteTemporary(r) \/ Rename(r) PROVE PrinterSound(q)'
  BY <1>1, <1>3 DEF WriteTemporary, Rename, processVars
<1>4. ASSUME NEW r \in Reviews, Written(r) PROVE PrinterSound(q)'
  <2>1. CASE q = r
    BY <2>1, <1>1, <1>4 DEF Written, PrinterSound, Reportable, ApplyScopeFilters, WriterInv,
                            WriterTypeOK, processVars
  <2>2. CASE q # r
    BY <2>2, <1>1, <1>4 DEF Written, WriterInv, WriterTypeOK, processVars
  <2>. QED
    BY <2>1, <2>2
<1>5. ASSUME NEW r \in Reviews, EmitStdout(r) PROVE PrinterSound(q)'
  <2>1. CASE q = r
    BY <2>1, <1>5, EmitSound
  <2>2. CASE q # r
    BY <2>2, <1>1, <1>5 DEF EmitStdout, WriterInv, WriterTypeOK, processVars, writeVars
  <2>. QED
    BY <2>1, <2>2
<1>6. ASSUME NEW r \in Reviews, Resume(r) PROVE PrinterSound(q)'
  <2>1. CASE q = r
    BY <2>1, <1>1, <1>6 DEF Resume, PrinterSound, Reportable, ApplyScopeFilters, WriterInv,
                            WriterTypeOK, writeVars
  <2>2. CASE q # r
    BY <2>2, <1>1, <1>6 DEF Resume, WriterInv, WriterTypeOK, writeVars
  <2>. QED
    BY <2>1, <2>2
<1>7. ASSUME NEW r \in Reviews, Rematerialise(r) PROVE PrinterSound(q)'
  <2>1. CASE q = r
    BY <2>1, <1>1, <1>7 DEF Rematerialise, PrinterSound, Reportable, ApplyScopeFilters, WriterInv,
                            WriterTypeOK, writeVars, processVars
  <2>2. CASE q # r
    BY <2>2, <1>1, <1>7 DEF Rematerialise, WriterInv, WriterTypeOK, writeVars, processVars
  <2>. QED
    BY <2>1, <2>2
<1>8. ASSUME NEW r \in Reviews, Crash(r) PROVE PrinterSound(q)'
  <2>1. CASE q = r
    BY <2>1, <1>1, <1>8 DEF Crash, PrinterSound, Reportable, ApplyScopeFilters, WriterInv,
                            WriterTypeOK, writeVars
  <2>2. CASE q # r
    BY <2>2, <1>1, <1>8 DEF Crash, WriterInv, WriterTypeOK, writeVars
  <2>. QED
    BY <2>1, <2>2
<1>9. CASE Midnight \/ FindTimingsFiles \/ FindAgain \/ WriteRows
  BY <1>9, <1>1 DEF Midnight, FindTimingsFiles, FindAgain, WriteRows, writeVars, processVars
<1>10. ASSUME NEW x \in Reviews \X Days, Collect(x) \/ PerReviewCost(x) PROVE PrinterSound(q)'
  BY <1>10, <1>1 DEF Collect, PerReviewCost, writeVars, processVars
<1>11. CASE UNCHANGED vars
  BY <1>11, <1>1 DEF vars, writeVars, processVars
<1>. QED
  BY <1>2, <1>3, <1>4, <1>5, <1>6, <1>7, <1>8, <1>9, <1>10, <1>11 DEF Next, RunStep

\* What is printed is the recorded verdict with everything the request asks
\* for, and a run that ends has printed unless it was resumed in another
\* directory (handle_emit_stdout).
THEOREM PrintsTheRecord == Spec => []PrintedAsRecorded
<1>1. ASSUME WriterInv, PrintersSound PROVE PrintedAsRecorded
  <2>. SUFFICES ASSUME NEW r \in Reviews
                PROVE  /\ printed[r] # Nothing =>
                            /\ printed[r].verdict = job[r].env.verdict
                            /\ \A s \in job[r].env.issues :
                                 s \notin printed[r].issues => Rank(s) < job[r].request.threshold
                            /\ \A g \in job[r].env.gates :
                                 g \notin printed[r].gates =>
                                   job[r].request.gates # {} /\ g \notin job[r].request.gates
                            /\ Record(r, run_dir_path[r].day)
                       /\ (stage[r] = "done" /\ printed[r] = Nothing) =>
                            run_dir_path[r].relative /\ cwd[r] = "elsewhere"
    BY DEF PrintedAsRecorded
  <2>1. PrinterSound(r) /\ PathLeads(r)
    BY <1>1 DEF PrintersSound, WriterInv, PathsLead
  <2>2. job[r].request.threshold \in 0..3
    BY <1>1 DEF WriterInv, WriterTypeOK, Requests
  <2>3. ASSUME NEW s \in job[r].env.issues,
               ~(job[r].request.threshold = 0 \/ Rank(s) >= job[r].request.threshold)
        PROVE  Rank(s) < job[r].request.threshold
    BY <2>2, <2>3 DEF Rank
  <2>. QED
    BY <2>1, <2>3 DEF PrinterSound, PathLeads, ApplyScopeFilters
<1>. QED
  BY <1>1, WriterInvariant, PrinterInit, PrinterStep, PTL DEF Spec

-----------------------------------------------------------------------------
(* The reader.                                                             *)

\* What the ingestion has listed, read and kept are timings on the disk; in
\* the middle of a command the records kept are among those it has listed
\* or read.
ReaderInv ==
  /\ reader \in {"idle", "collect", "price"}
  /\ listing \subseteq TimingsFiles /\ rows \subseteq TimingsFiles /\ priced \subseteq TimingsFiles
  /\ timings \in [Prs \X Names -> TimingsFiles \cup {NoRecord}]
  /\ \A key \in Prs \X Names : timings[key] # NoRecord => PrOf[timings[key][1]] = key[1]
  /\ RowsInOrder
  /\ ~skipped
  /\ reader = "collect" => Kept \subseteq rows \cup listing \cup {NoRecord}
  /\ reader = "price" => Kept \subseteq rows \cup {NoRecord} /\ rows \subseteq priced \cup listing

LEMMA ReaderInit == Init => ReaderInv
<1>. SUFFICES ASSUME Init PROVE ReaderInv
  OBVIOUS
<1>1. \A key \in Prs \X Names : timings[key] = NoRecord
  BY DEF Init
<1>2. RowsInOrder
  BY <1>1 DEF RowsInOrder
<1>. QED
  BY <1>1, <1>2 DEF Init, ReaderInv, Kept

\* Timings on the disk are whole, and they stay.
LEMMA TimingsAreWhole ==
  ASSUME WriterInv, NEW x \in TimingsFiles
  PROVE  /\ x \in Reviews \X Days
         /\ disk[x[1]][x[2]][Timings] = "whole"
         /\ Record(x[1], x[2])
<1>1. x \in Reviews \X Days /\ x[1] \in Reviews /\ x[2] \in Days
  BY DEF TimingsFiles
<1>2. disk[x[1]][x[2]][Timings] \in Bodies /\ disk[x[1]][x[2]][Timings] # "torn"
  BY <1>1 DEF WriterInv, WriterTypeOK, DiskInOrder, Timings
<1>3. disk[x[1]][x[2]][Timings] = "whole"
  BY <1>2 DEF TimingsFiles, Bodies
<1>4. Record(x[1], x[2])
  BY <1>1, <1>3 DEF WriterInv, DiskInOrder, Whole, Timings, Record, Manifest, Markdown, Json
<1>. QED
  BY <1>1, <1>3, <1>4

LEMMA TimingsGrow ==
  ASSUME WriterInv, [Next]_vars
  PROVE  TimingsFiles \subseteq TimingsFiles'
<1>1. SUFFICES ASSUME NEW x \in TimingsFiles PROVE x \in TimingsFiles'
  OBVIOUS
<1>2. x \in Reviews \X Days /\ x[1] \in Reviews /\ x[2] \in Days /\ Whole(x[1], x[2], Timings)
  BY TimingsAreWhole DEF Whole
<1>3. Whole(x[1], x[2], Timings)'
  BY <1>2, DiskGrows DEF Timings, Whole
<1>. QED
  BY <1>2, <1>3 DEF TimingsFiles, Whole, Timings

\* A reader that does not move stays sound on a disk that grows.
LEMMA ReaderStays ==
  ASSUME WriterInv, [Next]_vars, ReaderInv, UNCHANGED readerVars
  PROVE  ReaderInv'
BY TimingsGrow DEF ReaderInv, readerVars, Kept, RowsInOrder

\* Reading the next file: it is whole, so its record is taken.
LEMMA CollectTakes ==
  ASSUME WriterInv, ReaderInv, NEW x \in Reviews \X Days, Collect(x)
  PROVE  /\ x \in listing /\ listing' = listing \ {x} /\ rows' = rows \cup {x}
         /\ UNCHANGED <<disk, reader, priced, skipped, timings>> /\ reader = "collect"
<1>1. x \in listing /\ x \in TimingsFiles
  BY DEF Collect, IsNext, ReaderInv
<1>2. disk[x[1]][x[2]][Timings] = "whole"
  BY <1>1, TimingsAreWhole
<1>. QED
  BY <1>1, <1>2 DEF Collect, writeVars

LEMMA PriceTakes ==
  ASSUME WriterInv, ReaderInv, NEW x \in Reviews \X Days, PerReviewCost(x)
  PROVE  /\ x \in listing /\ listing' = listing \ {x} /\ priced' = priced \cup {x}
         /\ UNCHANGED <<disk, reader, rows, skipped, timings>> /\ reader = "price"
<1>1. x \in listing /\ x \in TimingsFiles
  BY DEF PerReviewCost, IsNext, ReaderInv
<1>2. disk[x[1]][x[2]][Timings] = "whole"
  BY <1>1, TimingsAreWhole
<1>. QED
  BY <1>1, <1>2 DEF PerReviewCost, writeVars

\* The transaction keeps records that were read.
LEMMA WriteRowsKeeps ==
  ASSUME ReaderInv, WriteRows
  PROVE  /\ timings' \in [Prs \X Names -> TimingsFiles \cup {NoRecord}]
         /\ \A key \in Prs \X Names :
              /\ timings'[key] # NoRecord => PrOf[timings'[key][1]] = key[1]
              /\ timings'[key] # NoRecord => timings'[key] \in rows
              /\ RowsOf(key) # {} =>
                   /\ timings'[key] \in RowsOf(key)
                   /\ \A y \in RowsOf(key) \ {timings'[key]} : Before(y, timings'[key])
<1>1. timings' \in [Prs \X Names -> rows \cup Kept]
  BY DEF WriteRows
<1>2. Kept \subseteq rows \cup {NoRecord}
  BY DEF ReaderInv, WriteRows
<1>3. rows \subseteq TimingsFiles
  BY DEF ReaderInv
<1>4. timings' \in [Prs \X Names -> TimingsFiles \cup {NoRecord}]
  BY <1>1, <1>2, <1>3
<1>5. ASSUME NEW key \in Prs \X Names
      PROVE  /\ timings'[key] # NoRecord => timings'[key] \in rows
             /\ RowsOf(key) = {} => timings'[key] = timings[key]
             /\ RowsOf(key) # {} =>
                  /\ timings'[key] \in RowsOf(key)
                  /\ \A y \in RowsOf(key) \ {timings'[key]} : Before(y, timings'[key])
  BY <1>1, <1>2 DEF WriteRows
<1>6. ASSUME NEW key \in Prs \X Names, timings'[key] # NoRecord
      PROVE  PrOf[timings'[key][1]] = key[1]
  <2>1. CASE RowsOf(key) = {}
    BY <2>1, <1>5, <1>6 DEF ReaderInv
  <2>2. CASE RowsOf(key) # {}
    BY <2>2, <1>5 DEF RowsOf
  <2>. QED
    BY <2>1, <2>2
<1>. QED
  BY <1>4, <1>5, <1>6

\* Records of one pull request are in one order.
LEMMA BeforeAsymmetric ==
  ASSUME NEW x \in Reviews \X Days, NEW y \in Reviews \X Days, Before(x, y)
  PROVE  ~Before(y, x)
<1>1. x[1] \in Reviews /\ y[1] \in Reviews /\ x[2] \in Days /\ y[2] \in Days
  OBVIOUS
<1>2. x[1] \in Nat /\ y[1] \in Nat /\ x[2] \in Nat /\ y[2] \in Nat
  BY <1>1, ArtefactsAssumption DEF Reviews, Days
<1>3. PrOf[x[1]] \in Nat /\ PrOf[y[1]] \in Nat
  BY <1>1, ArtefactsAssumption
<1>. QED
  BY <1>2, <1>3 DEF Before

LEMMA NotBeforeItself ==
  ASSUME NEW x \in Reviews \X Days
  PROVE  ~Before(x, x)
BY BeforeAsymmetric

\* Whatever row an ingestion leaves under another name, its record was read,
\* so the last record that has this name is not an earlier one.
LEMMA WriteRowsInOrder ==
  ASSUME ReaderInv, WriteRows
  PROVE  RowsInOrder'
<1>1. SUFFICES ASSUME NEW pr \in Prs, NEW n \in Names, NEW m \in Names,
                      timings'[<<pr, m>>] # NoRecord, n \in NamesOf[timings'[<<pr, m>>][1]]
               PROVE  timings'[<<pr, n>>] # NoRecord /\ ~Before(timings'[<<pr, n>>], timings'[<<pr, m>>])
  BY DEF RowsInOrder
<1>. DEFINE key == <<pr, n>>
            x == timings'[<<pr, n>>]
            later == timings'[<<pr, m>>]
<1>2. key \in Prs \X Names /\ <<pr, m>> \in Prs \X Names /\ key[1] = pr /\ key[2] = n
  OBVIOUS
<1>3. later \in rows /\ PrOf[later[1]] = pr
  BY <1>1, <1>2, WriteRowsKeeps
<1>4. later \in RowsOf(key)
  BY <1>1, <1>2, <1>3 DEF RowsOf
<1>5. x \in RowsOf(key) /\ (later # x => Before(later, x))
  BY <1>2, <1>4, WriteRowsKeeps
<1>6. rows \subseteq Reviews \X Days
  BY DEF ReaderInv, TimingsFiles
<1>7. x \in Reviews \X Days /\ later \in Reviews \X Days
  BY <1>3, <1>5, <1>6 DEF RowsOf
<1>8. x # NoRecord
  <2>1. x[1] \in Reviews
    BY <1>7
  <2>. QED
    BY <2>1, ArtefactsAssumption DEF Reviews, NoRecord
<1>9. ~Before(x, later)
  BY <1>5, <1>7, BeforeAsymmetric, NotBeforeItself
<1>. QED
  BY <1>8, <1>9

LEMMA ReaderStep ==
  ASSUME WriterInv, ReaderInv, [Next]_vars
  PROVE  ReaderInv'
<1>1. CASE \E r \in Reviews : RunStep(r) \/ Rematerialise(r) \/ Crash(r)
  BY <1>1, ReaderStays DEF RunStep, StartWriting, WriteTemporary, Rename, Written, EmitStdout, Resume,
                           Rematerialise, Crash
<1>2. CASE Midnight
  BY <1>2, ReaderStays DEF Midnight
<1>3. CASE FindTimingsFiles
  <2>1. /\ reader' = "collect" /\ listing' = TimingsFiles /\ rows' = {} /\ priced' = {}
        /\ skipped' = FALSE /\ timings' = timings /\ TimingsFiles' = TimingsFiles
        /\ RowsInOrder' = RowsInOrder
    BY <1>3 DEF FindTimingsFiles, writeVars, TimingsFiles, RowsInOrder
  <2>. QED
    BY <2>1 DEF ReaderInv, Kept
<1>4. CASE FindAgain
  <2>1. /\ reader = "collect" /\ listing = {} /\ reader' = "price" /\ listing' = TimingsFiles
        /\ UNCHANGED <<rows, priced, skipped, timings>> /\ TimingsFiles' = TimingsFiles
        /\ RowsInOrder' = RowsInOrder
    BY <1>4 DEF FindAgain, writeVars, TimingsFiles, RowsInOrder
  <2>. QED
    BY <2>1 DEF ReaderInv, Kept
<1>5. CASE WriteRows
  <2>1. /\ reader' = "idle" /\ rows' = {} /\ priced' = {} /\ listing' = listing
        /\ skipped' = skipped /\ TimingsFiles' = TimingsFiles
    BY <1>5 DEF WriteRows, writeVars, TimingsFiles
  <2>. QED
    BY <2>1, <1>5, WriteRowsKeeps, WriteRowsInOrder DEF ReaderInv
<1>6. ASSUME NEW x \in Reviews \X Days, Collect(x) PROVE ReaderInv'
  <2>1. TimingsFiles' = TimingsFiles /\ Kept' = Kept /\ RowsInOrder' = RowsInOrder
    BY <1>6, CollectTakes DEF TimingsFiles, Kept, RowsInOrder
  <2>. QED
    BY <2>1, <1>6, CollectTakes DEF ReaderInv
<1>7. ASSUME NEW x \in Reviews \X Days, PerReviewCost(x) PROVE ReaderInv'
  <2>1. TimingsFiles' = TimingsFiles /\ Kept' = Kept /\ RowsInOrder' = RowsInOrder
    BY <1>7, PriceTakes DEF TimingsFiles, Kept, RowsInOrder
  <2>. QED
    BY <2>1, <1>7, PriceTakes DEF ReaderInv
<1>8. CASE UNCHANGED vars
  BY <1>8, ReaderStays DEF vars
<1>. QED
  BY <1>1, <1>2, <1>3, <1>4, <1>5, <1>6, <1>7, <1>8 DEF Next

LEMMA ReaderInvariant == Spec => []ReaderInv
BY WriterInvariant, ReaderInit, ReaderStep, PTL DEF Spec

\* An ingestion at any moment skips nothing, takes finished records, has
\* priced all it has rows of, and leaves no earlier record under a name that
\* a later one has (ingest_timings.py).
THEOREM IngestsRecords == Spec => []IngestIsWhole
<1>1. ASSUME WriterInv, ReaderInv PROVE IngestIsWhole
  <2>1. \A x \in rows \cup priced : Record(x[1], x[2])
    BY <1>1, TimingsAreWhole DEF ReaderInv
  <2>. QED
    BY <1>1, <2>1 DEF IngestIsWhole, ReaderInv
<1>. QED
  BY <1>1, WriterInvariant, ReaderInvariant, PTL

-----------------------------------------------------------------------------
(* The refinement.                                                         *)

LEMMA RecordsInit == Init => Records!Init
<1>. SUFFICES ASSUME Init PROVE Records!Init
  OBVIOUS
<1>1. Published = {}
  <2>1. \A x \in Reviews \X Days : x[1] \in Reviews /\ x[2] \in Days
    OBVIOUS
  <2>2. \A r \in Reviews, d \in Days : disk[r][d][Manifest] = "none"
    BY DEF Init, Manifest
  <2>. QED
    BY <2>1, <2>2 DEF Published
<1>2. Shown = {}
  BY DEF Init, Shown
<1>3. Counted = {}
  BY DEF Init, Counted, Kept
<1>. QED
  BY <1>1, <1>2, <1>3 DEF Records!Init

\* The record of a run whose report is printed is published.
LEMMA RecordIsPublished ==
  ASSUME NEW r \in Reviews, NEW d \in Days, Record(r, d)
  PROVE  <<r, d>> \in Published
BY DEF Record, Whole, Published

LEMMA RenamePublishes ==
  ASSUME WriterInv, NEW r \in Reviews, Rename(r)
  PROVE  [Records!Next]_Records!vars
<1>1. UNCHANGED <<Shown, Counted>>
  BY DEF Rename, readerVars, Shown, Counted, Kept
<1>2. PICK d \in Days : d = day[r] /\ written[r] \in 0..3
  BY RenameWrites
<1>3. CASE written[r] + 1 = Manifest
  <2>1. Published' = Published \cup {<<r, d>>}
    BY <1>2, <1>3, RenameWrites DEF Published, Manifest
  <2>2. Records!Publish(r, d)
    BY <2>1, <1>1 DEF Records!Publish
  <2>. QED
    BY <2>2 DEF Records!Next
<1>4. CASE written[r] + 1 # Manifest
  <2>1. \A q \in Reviews, e \in Days : disk'[q][e][Manifest] = disk[q][e][Manifest]
    BY <1>2, <1>4, RenameWrites DEF Manifest
  <2>2. Published' = Published
    BY <2>1 DEF Published
  <2>. QED
    BY <2>2, <1>1 DEF Records!vars
<1>. QED
  BY <1>3, <1>4

LEMMA EmitShows ==
  ASSUME WriterInv, PrintersSound, NEW r \in Reviews, EmitStdout(r)
  PROVE  [Records!Next]_Records!vars
<1>1. UNCHANGED <<Published, Counted>>
  BY DEF EmitStdout, writeVars, readerVars, Published, Counted, Kept
<1>2. stage[r] = "emitting" /\ printed[r] = Nothing
  BY DEF EmitStdout, PrintersSound, PrinterSound
<1>3. Shown' = Shown \/ Shown' = Shown \cup {r}
  BY <1>2 DEF EmitStdout, WriterInv, WriterTypeOK, Shown
<1>4. PICK d \in Days : Record(r, d)
  BY <1>2 DEF WriterInv, WriterTypeOK, PathsLead, PathLeads, Paths
<1>5. <<r, d>> \in Published
  BY <1>4, RecordIsPublished
<1>6. CASE Shown' = Shown \cup {r}
  BY <1>1, <1>5, <1>6 DEF Records!Next, Records!Show
<1>7. CASE Shown' = Shown
  BY <1>1, <1>7 DEF Records!vars
<1>. QED
  BY <1>3, <1>6, <1>7

LEMMA WriteRowsCounts ==
  ASSUME WriterInv, ReaderInv, WriteRows
  PROVE  Records!Next
<1>1. UNCHANGED <<Published, Shown>>
  BY DEF WriteRows, writeVars, Published, Shown
<1>2. TimingsFiles \subseteq Published
  <2>1. SUFFICES ASSUME NEW x \in TimingsFiles PROVE x \in Published
    OBVIOUS
  <2>2. x \in Reviews \X Days /\ Record(x[1], x[2])
    BY TimingsAreWhole
  <2>. QED
    BY <2>2 DEF Published, Record, Whole
<1>3. Counted' \subseteq TimingsFiles
  BY WriteRowsKeeps DEF Counted, Kept
<1>4. Records!Count(Counted')
  BY <1>1 DEF Records!Count
<1>. QED
  BY <1>2, <1>3, <1>4 DEF Records!Next

\* Every step of the files is a step of the records or none.
LEMMA RecordsStep ==
  ASSUME WriterInv, PrintersSound, ReaderInv, [Next]_vars
  PROVE  [Records!Next]_Records!vars
<1>1. ASSUME UNCHANGED <<disk, printed, timings>> PROVE [Records!Next]_Records!vars
  BY <1>1 DEF Records!vars, Published, Shown, Counted, Kept
<1>2. ASSUME NEW r \in Reviews, Rename(r) \/ EmitStdout(r) PROVE [Records!Next]_Records!vars
  BY <1>2, RenamePublishes, EmitShows
<1>3. ASSUME NEW r \in Reviews,
             StartWriting(r) \/ WriteTemporary(r) \/ Written(r) \/ Resume(r) \/ Rematerialise(r) \/ Crash(r)
      PROVE  [Records!Next]_Records!vars
  BY <1>3, <1>1 DEF StartWriting, WriteTemporary, Written, Resume, Rematerialise, Crash, writeVars, readerVars
<1>4. CASE Midnight \/ FindTimingsFiles \/ FindAgain
  BY <1>4, <1>1 DEF Midnight, FindTimingsFiles, FindAgain, writeVars, readerVars
<1>5. CASE WriteRows
  BY <1>5, WriteRowsCounts
<1>6. ASSUME NEW x \in Reviews \X Days, Collect(x) \/ PerReviewCost(x) PROVE [Records!Next]_Records!vars
  BY <1>6, <1>1 DEF Collect, PerReviewCost, writeVars
<1>7. CASE UNCHANGED vars
  BY <1>7, <1>1 DEF vars, writeVars, readerVars
<1>. QED
  BY <1>2, <1>3, <1>4, <1>5, <1>6, <1>7 DEF Next, RunStep

\* The files keep the promise of RunRecords: what is printed or measured is
\* published, and nothing published goes away.
THEOREM ArtefactsImplementRecords == Spec => ImplementsRecords
<1>1. Spec => []PrintersSound
  BY WriterInvariant, PrinterInit, PrinterStep, PTL DEF Spec
<1>. QED
  BY <1>1, WriterInvariant, ReaderInvariant, RecordsInit, RecordsStep, PTL
  DEF Spec, ImplementsRecords, Records!Spec
=============================================================================
