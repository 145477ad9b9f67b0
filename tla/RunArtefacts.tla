----------------------------- MODULE RunArtefacts -----------------------------
(***************************************************************************)
(* The files a review leaves and who reads them.  write_run_artefacts      *)
(* writes report.json, report.md, manifest.json and, for a measured run,   *)
(* timings.json, each to a temporary name and then renamed, in a directory *)
(* named after the day and the run; handle_emit_stdout prints one of the   *)
(* reports from there; ingest_timings.py lists and reads the timings of    *)
(* all reviews at any moment.  A process may die between any two steps; a  *)
(* run an agent drives is resumed at the state it was in by a later        *)
(* process, one run_review drives is not.                                  *)
(*                                                                         *)
(* The directory is <yyyy>/<mm>/<dd>/<hash of the run>: two runs are taken *)
(* never to have one hash.  A report is its verdict and what a filter can  *)
(* hide of it: the severities of its issues and the numbers of its gates.  *)
(***************************************************************************)
EXTENDS Naturals, FiniteSets

CONSTANTS
  NumReviews,
  NumDays,       \* bound on the days that pass
  Prs, PrOf,     \* the pull requests in path order, and the one of each review
  Names, NamesOf, \* the names of the measured rows, and those of each review
  Jobs,          \* what each review found, who drives it, how it was asked for
  MaxCrashes     \* bound

Reviews == 1..NumReviews
Days == 1..NumDays
Verdicts == {"GO", "CONDITIONAL", "NO-GO"}
Gates == 1..8

\* What a file can hold: a temporary name never shows, "torn" is a part.
Bodies == {"none", "torn", "whole"}

\* _SEVERITY_RANK; a severity the report does not know has no rank.
Severities == {"minor", "important", "critical", "unknown"}
Rank(s) == CASE s = "minor" -> 1 [] s = "important" -> 2 [] s = "critical" -> 3 [] OTHER -> 0

\* The threshold is 0 when it is missing, a list, or no severity; the gates
\* are {} when the filter is missing or names no gate.
Requests ==
  [format : {"markdown", "json", "auto", "yaml", "other"}, is_tty : BOOLEAN,
   threshold : 0..3, gates : SUBSET Gates]
Reports == [verdict : Verdicts \cup {"none"}, issues : SUBSET Severities, gates : SUBSET Gates]

ASSUME ArtefactsAssumption ==
  /\ NumReviews \in Nat /\ NumDays \in Nat \ {0} /\ MaxCrashes \in Nat
  /\ Prs \subseteq Nat /\ PrOf \in [Reviews -> Prs]
  /\ NamesOf \in [Reviews -> SUBSET Names]
  /\ Jobs \subseteq [Reviews -> [env : Reports, request : Requests, by : {"runner", "agent"}]]

VARIABLES
  job,
  today,
  disk,          \* [review][day][position in Files]
  stage,         \* "judged", "writing", "emitting", "done", "faulted", "lost"
  day,           \* of the directory being written
  written,       \* how many of the files are in place
  temporary,     \* whether the next file is under its temporary name
  ad_hoc,        \* whether the files are being written again outside the run
  alive, cwd,    \* the process: whether it runs, and where (a run starts in the project)
  run_dir_path,  \* the directory, and whether its path is relative
  printed,       \* what emit_stdout printed
  crashes,
  reader,        \* ingest_timings.py: "idle", "collect", "price"
  listing,       \* the records it still has to read
  rows, priced,  \* the records it took rows and prices from
  skipped,       \* whether it skipped a file
  timings        \* per pull request and name: the record the row is of

writeVars == <<disk, day, written, temporary, run_dir_path>>
processVars == <<alive, cwd, crashes>>
readerVars == <<reader, listing, rows, priced, skipped, timings>>
vars == <<job, today, writeVars, stage, ad_hoc, processVars, printed, readerVars>>

NoRecord == <<0, 0>>
NoPath == [day |-> 0, relative |-> FALSE]
Nothing == [verdict |-> "none", issues |-> {}, gates |-> {}, manifest |-> FALSE]

Init ==
  /\ job \in Jobs
  /\ today = 1
  /\ disk = [r \in Reviews |-> [d \in Days |-> [n \in 1..4 |-> "none"]]]
  /\ stage = [r \in Reviews |-> "judged"]
  /\ day = [r \in Reviews |-> 1]
  /\ written = [r \in Reviews |-> 0]
  /\ temporary = [r \in Reviews |-> FALSE]
  /\ ad_hoc = [r \in Reviews |-> FALSE]
  /\ alive = [r \in Reviews |-> TRUE]
  /\ cwd = [r \in Reviews |-> "project"]
  /\ run_dir_path = [r \in Reviews |-> NoPath]
  /\ printed = [r \in Reviews |-> Nothing]
  /\ crashes = 0
  /\ reader = "idle" /\ listing = {} /\ rows = {} /\ priced = {} /\ skipped = FALSE
  /\ timings = [key \in Prs \X Names |-> NoRecord]

-----------------------------------------------------------------------------
(* write_run_artefacts.                                                    *)

\* The order of the writes.
Json == 1
Markdown == 2
Manifest == 3
Timings == 4

\* run_review hands its measurements over with the environment.
FilesOf(r) == IF job[r].by = "runner" /\ ~ad_hoc[r] THEN 4 ELSE 3

\* build_report_payload raises before any file is written.
Reportable(r) == job[r].env.verdict # "none" /\ "unknown" \notin job[r].env.issues

\* Mutant: the count of an earlier, interrupted attempt is kept.
StartWritingGoesOn(r) ==
  /\ stage[r] = "judged" /\ alive[r]
  /\ stage' = [stage EXCEPT ![r] = IF Reportable(r) THEN "writing" ELSE "faulted"]
  /\ day' = [day EXCEPT ![r] = today]
  /\ temporary' = [temporary EXCEPT ![r] = FALSE]
  /\ UNCHANGED <<job, today, disk, written, run_dir_path, ad_hoc, processVars, printed, readerVars>>

\* The name of the directory is taken from the clock once.
StartWriting(r) ==
  /\ stage[r] = "judged" /\ alive[r]
  /\ stage' = [stage EXCEPT ![r] = IF Reportable(r) THEN "writing" ELSE "faulted"]
  /\ day' = [day EXCEPT ![r] = today]
  /\ written' = [written EXCEPT ![r] = 0]
  /\ temporary' = [temporary EXCEPT ![r] = FALSE]
  /\ UNCHANGED <<job, today, disk, run_dir_path, ad_hoc, processVars, printed, readerVars>>

\* Mutant: the file is opened under its own name.
WriteTemporaryInPlace(r) ==
  /\ stage[r] = "writing" /\ alive[r] /\ ~temporary[r] /\ written[r] < FilesOf(r)
  /\ temporary' = [temporary EXCEPT ![r] = TRUE]
  /\ disk' = [disk EXCEPT ![r][day[r]][written[r] + 1] = "torn"]
  /\ UNCHANGED <<job, today, stage, day, written, run_dir_path, ad_hoc, processVars, printed, readerVars>>

WriteTemporary(r) ==
  /\ stage[r] = "writing" /\ alive[r] /\ ~temporary[r] /\ written[r] < FilesOf(r)
  /\ temporary' = [temporary EXCEPT ![r] = TRUE]
  /\ UNCHANGED <<job, today, disk, stage, day, written, run_dir_path, ad_hoc, processVars, printed, readerVars>>

Rename(r) ==
  /\ stage[r] = "writing" /\ alive[r] /\ temporary[r]
  /\ disk' = [disk EXCEPT ![r][day[r]][written[r] + 1] = "whole"]
  /\ temporary' = [temporary EXCEPT ![r] = FALSE]
  /\ written' = [written EXCEPT ![r] = @ + 1]
  /\ UNCHANGED <<job, today, stage, day, run_dir_path, ad_hoc, processVars, printed, readerVars>>

\* Mutant: the run goes on once the reports are there.
WrittenEarly(r) ==
  /\ stage[r] = "writing" /\ alive[r] /\ ~temporary[r] /\ written[r] = 2 /\ ~ad_hoc[r]
  /\ stage' = [stage EXCEPT ![r] = "emitting"]
  /\ run_dir_path' = [run_dir_path EXCEPT ![r] = [day |-> day[r], relative |-> cwd[r] = "project"]]
  /\ UNCHANGED <<job, today, disk, day, written, temporary, ad_hoc, processVars, printed, readerVars>>

\* handle_write_run_directory; a tool that only writes the files stops here.
Written(r) ==
  /\ stage[r] = "writing" /\ alive[r] /\ ~temporary[r] /\ written[r] = FilesOf(r)
  /\ IF ad_hoc[r]
     THEN stage' = [stage EXCEPT ![r] = "done"] /\ UNCHANGED run_dir_path
     ELSE /\ stage' = [stage EXCEPT ![r] = "emitting"]
          /\ run_dir_path' = [run_dir_path EXCEPT ![r] =
                                [day |-> day[r], relative |-> cwd[r] = "project"]]
  /\ UNCHANGED <<job, today, disk, day, written, temporary, ad_hoc, processVars, printed, readerVars>>

\* The files of a finished run are written again, without measurements.
Rematerialise(r) ==
  /\ stage[r] = "done" /\ ~ad_hoc[r]
  /\ ad_hoc' = [ad_hoc EXCEPT ![r] = TRUE]
  /\ stage' = [stage EXCEPT ![r] = "judged"]
  /\ UNCHANGED <<job, today, writeVars, processVars, printed, readerVars>>

-----------------------------------------------------------------------------
(* handle_emit_stdout.                                                     *)

ResolveFormat(q) ==
  CASE q.format \in {"markdown", "json"} -> q.format
    [] q.format = "yaml" -> "markdown"
    [] OTHER -> IF q.is_tty THEN "markdown" ELSE "json"

Filtered(q) == q.threshold # 0 \/ q.gates # {}

\* A filter is applied to report.json, whatever the format.
FileRead(q) == IF Filtered(q) \/ ResolveFormat(q) = "json" THEN Json ELSE Markdown

\* A relative path leads nowhere from another directory.
Contents(r, n) ==
  IF run_dir_path[r].relative /\ cwd[r] # "project" THEN "none"
  ELSE disk[r][run_dir_path[r].day][n]

\* Mutant: only what is graver than the threshold stays.
ApplyScopeFiltersAbove(env, q) ==
  [verdict |-> env.verdict,
   issues |-> {s \in env.issues : q.threshold = 0 \/ Rank(s) > q.threshold},
   gates |-> {g \in env.gates : q.gates = {} \/ g \in q.gates},
   manifest |-> ResolveFormat(q) = "markdown"]

ApplyScopeFilters(env, q) ==
  [verdict |-> env.verdict,
   issues |-> {s \in env.issues : q.threshold = 0 \/ Rank(s) >= q.threshold},
   gates |-> {g \in env.gates : q.gates = {} \/ g \in q.gates},
   manifest |-> ResolveFormat(q) = "markdown"]

EmitStdout(r) ==
  /\ stage[r] = "emitting" /\ alive[r]
  /\ stage' = [stage EXCEPT ![r] = "done"]
  /\ printed' = [printed EXCEPT ![r] =
                   IF Contents(r, FileRead(job[r].request)) = "none" THEN Nothing
                   ELSE ApplyScopeFilters(job[r].env, job[r].request)]
  /\ UNCHANGED <<job, today, writeVars, ad_hoc, processVars, readerVars>>

-----------------------------------------------------------------------------
(* Processes and days.                                                     *)

\* What was committed to the engine's store stays.
Crash(r) ==
  /\ alive[r] /\ crashes < MaxCrashes /\ stage[r] \in {"judged", "writing", "emitting"}
  /\ crashes' = crashes + 1
  /\ IF job[r].by = "runner" \/ ad_hoc[r]
     THEN stage' = [stage EXCEPT ![r] = "lost"] /\ UNCHANGED alive
     ELSE /\ alive' = [alive EXCEPT ![r] = FALSE]
          /\ stage' = [stage EXCEPT ![r] = IF @ = "writing" THEN "judged" ELSE @]
  /\ UNCHANGED <<job, today, writeVars, ad_hoc, cwd, printed, readerVars>>

Resume(r) ==
  /\ ~alive[r]
  /\ alive' = [alive EXCEPT ![r] = TRUE]
  /\ \E c \in {"project", "elsewhere"} : cwd' = [cwd EXCEPT ![r] = c]
  /\ UNCHANGED <<job, today, writeVars, stage, ad_hoc, crashes, printed, readerVars>>

Midnight ==
  /\ today < NumDays
  /\ today' = today + 1
  /\ UNCHANGED <<job, writeVars, stage, ad_hoc, processVars, printed, readerVars>>

-----------------------------------------------------------------------------
(* ingest_timings.py.                                                      *)

TimingsFiles == {x \in Reviews \X Days : disk[x[1]][x[2]][Timings] # "none"}

\* The files are read one by one in the order of their paths.
Before(x, y) ==
  \/ PrOf[x[1]] < PrOf[y[1]]
  \/ PrOf[x[1]] = PrOf[y[1]] /\ (x[2] < y[2] \/ (x[2] = y[2] /\ x[1] < y[1]))

IsNext(x) == x \in listing /\ \A y \in listing \ {x} : Before(x, y)

\* The records read that have a row for this pull request and name, and those
\* the tracker has rows of.
RowsOf(key) == {x \in rows : PrOf[x[1]] = key[1] /\ key[2] \in NamesOf[x[1]]}
Kept == {timings[key] : key \in Prs \X Names}

\* main takes the rows of one listing of the files and the prices of another.
FindTimingsFiles ==
  /\ reader = "idle"
  /\ reader' = "collect"
  /\ listing' = TimingsFiles
  /\ rows' = {} /\ priced' = {} /\ skipped' = FALSE
  /\ UNCHANGED <<job, today, writeVars, stage, ad_hoc, processVars, printed, timings>>

Collect(x) ==
  /\ reader = "collect" /\ IsNext(x)
  /\ listing' = listing \ {x}
  /\ IF disk[x[1]][x[2]][Timings] = "whole"
     THEN rows' = rows \cup {x} /\ UNCHANGED skipped
     ELSE skipped' = TRUE /\ UNCHANGED rows
  /\ UNCHANGED <<job, today, writeVars, stage, ad_hoc, processVars, printed, reader, priced, timings>>

FindAgain ==
  /\ reader = "collect" /\ listing = {}
  /\ reader' = "price"
  /\ listing' = TimingsFiles
  /\ UNCHANGED <<job, today, writeVars, stage, ad_hoc, processVars, printed, rows, priced, skipped, timings>>

PerReviewCost(x) ==
  /\ reader = "price" /\ IsNext(x)
  /\ listing' = listing \ {x}
  /\ IF disk[x[1]][x[2]][Timings] = "whole"
     THEN priced' = priced \cup {x} /\ UNCHANGED skipped
     ELSE skipped' = TRUE /\ UNCHANGED priced
  /\ UNCHANGED <<job, today, writeVars, stage, ad_hoc, processVars, printed, reader, rows, timings>>

\* Mutant: a row that is there stays.
WriteRowsOnce ==
  /\ reader = "price" /\ listing = {}
  /\ reader' = "idle"
  /\ timings' \in [Prs \X Names -> rows \cup Kept]
  /\ \A key \in Prs \X Names :
       IF timings[key] # NoRecord \/ RowsOf(key) = {} THEN timings'[key] = timings[key]
       ELSE /\ timings'[key] \in RowsOf(key)
            /\ \A y \in RowsOf(key) \ {timings'[key]} : Before(y, timings'[key])
  /\ rows' = {} /\ priced' = {}
  /\ UNCHANGED <<job, today, writeVars, stage, ad_hoc, processVars, printed, listing, skipped>>

\* The rows are upserted in order, by pull request and name: of each the last
\* record stays, and rows whose names the records read do not have are left
\* as they were.
WriteRows ==
  /\ reader = "price" /\ listing = {}
  /\ reader' = "idle"
  /\ timings' \in [Prs \X Names -> rows \cup Kept]
  /\ \A key \in Prs \X Names :
       IF RowsOf(key) = {} THEN timings'[key] = timings[key]
       ELSE /\ timings'[key] \in RowsOf(key)
            /\ \A y \in RowsOf(key) \ {timings'[key]} : Before(y, timings'[key])
  /\ rows' = {} /\ priced' = {}
  /\ UNCHANGED <<job, today, writeVars, stage, ad_hoc, processVars, printed, listing, skipped>>

-----------------------------------------------------------------------------

RunStep(r) ==
  StartWriting(r) \/ WriteTemporary(r) \/ Rename(r) \/ Written(r) \/ EmitStdout(r) \/ Resume(r)

Next ==
  \/ \E r \in Reviews : RunStep(r) \/ Rematerialise(r) \/ Crash(r)
  \/ Midnight
  \/ FindTimingsFiles \/ FindAgain \/ WriteRows
  \/ \E x \in Reviews \X Days : Collect(x) \/ PerReviewCost(x)

Spec == Init /\ [][Next]_vars

-----------------------------------------------------------------------------
(* Properties.                                                             *)

Whole(r, d, n) == disk[r][d][n] = "whole"
Record(r, d) == Whole(r, d, Manifest) /\ Whole(r, d, Markdown) /\ Whole(r, d, Json)

\* No reader ever finds a part of a file; a directory with a manifest has
\* both reports, one with timings has the manifest; and the directory a run
\* reports as its own is complete, however often the run died, was resumed
\* or was written again, before or after midnight.
RecordIsWhole ==
  \A r \in Reviews :
    /\ \A d \in Days :
         /\ \A n \in 1..4 : disk[r][d][n] # "torn"
         /\ Whole(r, d, Manifest) => Record(r, d)
         /\ Whole(r, d, Timings) => Record(r, d)
    /\ run_dir_path[r] # NoPath => Record(r, run_dir_path[r].day)

\* What is printed is the recorded verdict with every issue of the asked
\* severity or a graver one, from a directory whose manifest is there when
\* it is pointed at; and a run that ends prints, unless the process was
\* resumed in another directory.
PrintedAsRecorded ==
  \A r \in Reviews :
    LET env == job[r].env
        q == job[r].request
    IN /\ printed[r] # Nothing =>
            /\ printed[r].verdict = env.verdict
            /\ \A s \in env.issues : (s \notin printed[r].issues => Rank(s) < q.threshold)
            /\ \A g \in env.gates : (g \notin printed[r].gates => q.gates # {} /\ g \notin q.gates)
            /\ Record(r, run_dir_path[r].day)
       /\ (stage[r] = "done" /\ printed[r] = Nothing) =>
            run_dir_path[r].relative /\ cwd[r] = "elsewhere"

\* Of two rows of a pull request the one of the earlier record has a name
\* that the other's record has no row for.
RowsInOrder ==
  \A pr \in Prs, n \in Names, m \in Names :
    LET x == timings[<<pr, n>>]
        later == timings[<<pr, m>>]
    IN later # NoRecord /\ n \in NamesOf[later[1]] => x # NoRecord /\ ~Before(x, later)

\* Ingestion while reviews are being written, resumed or repeated: it skips
\* nothing, measures finished records only, and has a price pass over all it
\* has rows of.  Rows of several records can stand side by side in the
\* tracker, but an earlier record only under names the later ones have not.
IngestIsWhole ==
  /\ ~skipped
  /\ \A x \in rows \cup priced : Record(x[1], x[2])
  /\ (reader = "price" /\ listing = {}) => rows \subseteq priced
  /\ RowsInOrder

\* The directories with a manifest are the published records.
Published == {x \in Reviews \X Days : disk[x[1]][x[2]][Manifest] # "none"}
Shown == {r \in Reviews : printed[r] # Nothing}
Counted == Kept \ {NoRecord}
Records == INSTANCE RunRecords WITH published <- Published, shown <- Shown, counted <- Counted

\* The files implement published records: nothing is printed or measured
\* that is not published, and nothing published goes away.
ImplementsRecords == Records!Spec
=============================================================================
