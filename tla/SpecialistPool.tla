--------------------------- MODULE SpecialistPool ---------------------------
(***************************************************************************)
(* The specialist dispatch of code_review/runner.py: the adaptive limiter  *)
(* (_AdaptiveLimiter), the per-unit loop with back-off, retries and        *)
(* overflow splits (_dispatch_one) and the thread pool that runs it        *)
(* (_dispatch_units).                                                      *)
(*                                                                         *)
(* A unit's files are the positions 1..Size[u] of its file list.  A slice  *)
(* is an interval of positions.  The recursion of _dispatch_one on the two *)
(* halves of an overflowing slice runs in the same thread, first half      *)
(* first, and the frames it returns through touch nothing shared, so the   *)
(* call stack is the list todo[t] of slices still to be dispatched, the    *)
(* current one at its head.  Sleeping between two attempts is the time     *)
(* that passes before the thread's next Acquire or Wait step.              *)
(***************************************************************************)
EXTENDS Integers, Sequences, FiniteSets

CONSTANTS
  Threads,     \* the threads of the executor; max_workers is their number
  MinWorkers,  \* min_workers
  MaxRetries,  \* max_retries
  NumUnits,    \* the planned units are 1..NumUnits, in submission order
  Size,        \* number of files of each unit
  Key,         \* the (leaf_id, sub_index) of each unit
  Answers      \* the statuses a specialist's own answer can carry

Statuses == {"completed", "failed", "skipped"}
Units == 1..NumUnits
MaxWorkers == Cardinality(Threads)
Keys == {Key[u] : u \in Units}

ASSUME ThreadsAssumption == IsFiniteSet(Threads) /\ Threads # {}
ASSUME LimitsAssumption == MinWorkers \in Nat /\ MinWorkers <= MaxWorkers /\ MaxRetries \in Nat
ASSUME UnitsAssumption == NumUnits \in Nat \ {0} /\ Size \in [Units -> Nat]
ASSUME AnswersAssumption == Answers \subseteq Statuses

VARIABLES
  submitted,  \* units 1..submitted are in the executor's queue or beyond it
  taken,      \* units 1..taken have been picked up by a thread (the queue is FIFO)
  collected,  \* the main thread has read the futures of units 1..collected
  results,    \* the map the main thread fills: the unit whose output a key holds, 0 for none
  limit, inflight, stats_min, stats_max,  \* _AdaptiveLimiter
  pc,         \* where each thread is
  unit,       \* the unit each thread dispatches, 0 for none
  todo,       \* its slices still to be dispatched
  attempt,    \* failed attempts at the current slice
  split,      \* whether an overflow split the unit
  outcome,    \* the status in each unit's future, "none" until it is resolved
  reviewed,   \* files covered by an answer with status "completed"
  dropped,    \* files of slices that were given up, or answered "failed" or "skipped"
  stats       \* the RunnerStats counters the pool touches

mainVars == <<submitted, collected, results>>
limiterVars == <<limit, inflight, stats_min, stats_max>>
workVars == <<unit, todo, attempt, split, outcome, reviewed, dropped>>
vars == <<mainVars, taken, limiterVars, pc, workVars, stats>>

-----------------------------------------------------------------------------
MaxOf(a, b) == IF a >= b THEN a ELSE b
MinOf(a, b) == IF a <= b THEN a ELSE b

Slice == [lo : Nat, hi : Nat]
FilesOf(s) == s.lo .. s.hi
NumFiles(s) == (s.hi - s.lo) + 1

\* Mutant: the second half is forgotten.
HalvesFirstOnly(s) == << [lo |-> s.lo, hi |-> (s.lo + (NumFiles(s) \div 2)) - 1] >>

\* _split_unit: the two halves of a slice of at least two files.
Halves(s) ==
  LET mid == NumFiles(s) \div 2
  IN  << [lo |-> s.lo, hi |-> (s.lo + mid) - 1], [lo |-> s.lo + mid, hi |-> s.hi] >>

\* Mutant: the floor of one slot dropped.
MinLimitUnfloored == MinWorkers

\* The limiter never goes below max(1, minimum).
MinLimit == MaxOf(1, MinWorkers)

\* Mutant: the notify_all forgotten.
NotifiedNobody(t, p) == [pc EXCEPT ![t] = p]

\* The pcs after thread t moves to p inside a "with self._cond" block that
\* ends in notify_all: every waiting thread re-tests the limit.
Notified(t, p) ==
  [w \in Threads |-> IF w = t THEN p
                     ELSE IF pc[w] = "waiting" THEN "acquire" ELSE pc[w]]

Bump(c) == [stats EXCEPT ![c] = @ + 1]

-----------------------------------------------------------------------------
Init ==
  /\ submitted = 0 /\ taken = 0 /\ collected = 0
  /\ results = [k \in Keys |-> 0]
  /\ limit = MaxWorkers /\ inflight = 0
  /\ stats_min = MaxWorkers /\ stats_max = MaxWorkers
  /\ pc = [t \in Threads |-> "idle"]
  /\ unit = [t \in Threads |-> 0]
  /\ todo = [t \in Threads |-> <<>>]
  /\ attempt = [t \in Threads |-> 0]
  /\ split = [t \in Threads |-> FALSE]
  /\ outcome = [u \in Units |-> "none"]
  /\ reviewed = [u \in Units |-> {}]
  /\ dropped = [u \in Units |-> {}]
  /\ stats = [dispatched |-> 0, failed |-> 0, retries |-> 0,
              rate_limit_events |-> 0, overflow_splits |-> 0]

\* Main thread: pool.submit of the next unit.
Submit ==
  /\ submitted < NumUnits
  /\ submitted' = submitted + 1
  /\ UNCHANGED <<collected, results, taken, limiterVars, pc, workVars, stats>>

\* Mutant: the map is filled without waiting for the future.
CollectEarly ==
  /\ submitted = NumUnits
  /\ collected < NumUnits
  /\ results' = [results EXCEPT ![Key[collected + 1]] = collected + 1]
  /\ collected' = collected + 1
  /\ UNCHANGED <<submitted, taken, limiterVars, pc, workVars, stats>>

\* Main thread: fut.result() of the next future in submission order; a later
\* unit with the same key overwrites an earlier one.
Collect ==
  /\ submitted = NumUnits
  /\ collected < NumUnits
  /\ outcome[collected + 1] # "none"
  /\ results' = [results EXCEPT ![Key[collected + 1]] = collected + 1]
  /\ collected' = collected + 1
  /\ UNCHANGED <<submitted, taken, limiterVars, pc, workVars, stats>>

\* Mutant: the unit is not removed from the queue when a thread starts it.
TakePeeks(t) ==
  /\ pc[t] = "idle"
  /\ taken < submitted
  /\ unit' = [unit EXCEPT ![t] = taken + 1]
  /\ todo' = [todo EXCEPT ![t] = << [lo |-> 1, hi |-> Size[taken + 1]] >>]
  /\ pc' = [pc EXCEPT ![t] = "acquire"]
  /\ UNCHANGED <<mainVars, taken, limiterVars, attempt, split, outcome, reviewed, dropped, stats>>

\* A pool thread starts _dispatch_one on the unit at the head of the queue.
Take(t) ==
  /\ pc[t] = "idle"
  /\ taken < submitted
  /\ taken' = taken + 1
  /\ unit' = [unit EXCEPT ![t] = taken + 1]
  /\ todo' = [todo EXCEPT ![t] = << [lo |-> 1, hi |-> Size[taken + 1]] >>]
  /\ pc' = [pc EXCEPT ![t] = "acquire"]
  /\ UNCHANGED <<mainVars, limiterVars, attempt, split, outcome, reviewed, dropped, stats>>

\* acquire() finds a free slot.
Acquire(t) ==
  /\ pc[t] = "acquire"
  /\ inflight < limit
  /\ inflight' = inflight + 1
  /\ pc' = [pc EXCEPT ![t] = "call"]
  /\ UNCHANGED <<mainVars, taken, limit, stats_min, stats_max, workVars, stats>>

\* acquire() finds none and blocks on the condition.
Wait(t) ==
  /\ pc[t] = "acquire"
  /\ inflight >= limit
  /\ pc' = [pc EXCEPT ![t] = "waiting"]
  /\ UNCHANGED <<mainVars, taken, limiterVars, workVars, stats>>

\* release(), with the thread going on to p.
Release(t, p) ==
  /\ inflight' = inflight - 1
  /\ pc' = Notified(t, p)
  /\ UNCHANGED <<limit, stats_min, stats_max>>

\* Mutant: a split unit reports what its last part did.
SettleLastStatus(t, status) ==
  LET s == Head(todo[t])
      u == unit[t]
      last == Len(todo[t]) = 1
  IN  /\ reviewed' = IF status = "completed"
                     THEN [reviewed EXCEPT ![u] = @ \cup FilesOf(s)] ELSE reviewed
      /\ dropped' = IF status = "completed"
                    THEN dropped ELSE [dropped EXCEPT ![u] = @ \cup FilesOf(s)]
      /\ outcome' = IF last THEN [outcome EXCEPT ![u] = status] ELSE outcome
      /\ todo' = [todo EXCEPT ![t] = Tail(@)]
      /\ attempt' = [attempt EXCEPT ![t] = 0]
      /\ unit' = [unit EXCEPT ![t] = IF last THEN 0 ELSE u]
      /\ split' = [split EXCEPT ![t] = ~last /\ split[t]]

\* The current slice is over with the given status, and so is the unit when
\* it was the last one.  A unit that was split reports "completed" whatever
\* its parts reported; one that was not reports what its only part did.
Settle(t, status) ==
  LET s == Head(todo[t])
      u == unit[t]
      last == Len(todo[t]) = 1
  IN  /\ reviewed' = IF status = "completed"
                     THEN [reviewed EXCEPT ![u] = @ \cup FilesOf(s)] ELSE reviewed
      /\ dropped' = IF status = "completed"
                    THEN dropped ELSE [dropped EXCEPT ![u] = @ \cup FilesOf(s)]
      /\ outcome' = IF last
                    THEN [outcome EXCEPT ![u] = IF split[t] THEN "completed" ELSE status]
                    ELSE outcome
      /\ todo' = [todo EXCEPT ![t] = Tail(@)]
      /\ attempt' = [attempt EXCEPT ![t] = 0]
      /\ unit' = [unit EXCEPT ![t] = IF last THEN 0 ELSE u]
      /\ split' = [split EXCEPT ![t] = ~last /\ split[t]]

\* Where a thread goes once its current slice is settled.
AfterSettle(t) == IF Len(todo[t]) = 1 THEN "idle" ELSE "acquire"

\* The attempt budget of the current slice is used up.
LastAttempt(t) == attempt[t] + 1 > MaxRetries

\* Another attempt at the current slice.
Again(t) ==
  /\ attempt' = [attempt EXCEPT ![t] = @ + 1]
  /\ UNCHANGED <<unit, todo, split, outcome, reviewed, dropped>>

\* The hook raises RateLimitError: the slot is given back before penalize().
HookRateLimited(t) ==
  /\ pc[t] = "call"
  /\ Release(t, "penalize")
  /\ stats' = Bump("rate_limit_events")
  /\ UNCHANGED <<mainVars, taken, workVars>>

\* penalize() halves the limit; the attempt counts and may be the last.
Penalize(t) ==
  /\ pc[t] = "penalize"
  /\ limit' = MaxOf(MinLimit, limit \div 2)
  /\ stats_min' = MinOf(stats_min, limit')
  /\ IF LastAttempt(t)
     THEN /\ Settle(t, "failed")
          /\ pc' = Notified(t, AfterSettle(t))
          /\ stats' = [stats EXCEPT !.retries = @ + 1, !.failed = @ + 1]
     ELSE /\ Again(t)
          /\ pc' = Notified(t, "acquire")
          /\ stats' = Bump("retries")
  /\ UNCHANGED <<mainVars, taken, inflight, stats_max>>

\* The hook raises ContextOverflowError: the halves are dispatched next, with
\* a fresh attempt count; a slice of at most one file is given up.
HookOverflows(t) ==
  /\ pc[t] = "call"
  /\ IF NumFiles(Head(todo[t])) <= 1
     THEN /\ Settle(t, "failed")
          /\ Release(t, AfterSettle(t))
          /\ stats' = Bump("failed")
     ELSE /\ todo' = [todo EXCEPT ![t] = Halves(Head(@)) \o Tail(@)]
          /\ attempt' = [attempt EXCEPT ![t] = 0]
          /\ split' = [split EXCEPT ![t] = TRUE]
          /\ Release(t, "acquire")
          /\ stats' = Bump("overflow_splits")
          /\ UNCHANGED <<unit, outcome, reviewed, dropped>>
  /\ UNCHANGED <<mainVars, taken>>

\* The hook raises anything else.
HookErrors(t) ==
  /\ pc[t] = "call"
  /\ IF LastAttempt(t)
     THEN /\ Settle(t, "failed")
          /\ Release(t, AfterSettle(t))
          /\ stats' = [stats EXCEPT !.retries = @ + 1, !.failed = @ + 1]
     ELSE /\ Again(t)
          /\ Release(t, "acquire")
          /\ stats' = Bump("retries")
  /\ UNCHANGED <<mainVars, taken>>

\* Mutant: the slot is not given back on success.
HookAnswersLeaks(t) ==
  /\ pc[t] = "call"
  /\ pc' = Notified(t, "reward")
  /\ UNCHANGED <<mainVars, taken, limiterVars, workVars, stats>>

\* The hook returns an output: the slot is given back before reward().
HookAnswers(t) ==
  /\ pc[t] = "call"
  /\ Release(t, "reward")
  /\ UNCHANGED <<mainVars, taken, workVars, stats>>

\* reward() raises the limit by one up to its start value; the slice is done
\* with the status the answer carries.
Reward(t, status) ==
  /\ pc[t] = "reward"
  /\ limit' = IF limit < MaxWorkers THEN limit + 1 ELSE limit
  /\ stats_max' = MaxOf(stats_max, limit')
  /\ Settle(t, status)
  /\ pc' = Notified(t, AfterSettle(t))
  /\ stats' = Bump("dispatched")
  /\ UNCHANGED <<mainVars, taken, inflight, stats_min>>

HookReturns(t) ==
  HookRateLimited(t) \/ HookOverflows(t) \/ HookErrors(t) \/ HookAnswers(t)

ThreadStep(t) ==
  \/ Take(t) \/ Acquire(t) \/ Wait(t)
  \/ HookReturns(t)
  \/ Penalize(t)
  \/ \E status \in Answers : Reward(t, status)

Finished == collected = NumUnits

\* _dispatch_units has returned.
Done == Finished /\ UNCHANGED vars

Next == Submit \/ Collect \/ (\E t \in Threads : ThreadStep(t)) \/ Done

Spec == Init /\ [][Next]_vars

\* Every runnable thread runs, and every hook call ends: the backends bound a
\* call by a timeout and turn the timeout into RateLimitError.
Fairness ==
  /\ WF_vars(Submit \/ Collect)
  /\ \A t \in Threads : WF_vars(ThreadStep(t))

FairSpec == Spec /\ Fairness

-----------------------------------------------------------------------------
Pcs == {"idle", "acquire", "waiting", "call", "penalize", "reward"}
Counters == {"dispatched", "failed", "retries", "rate_limit_events", "overflow_splits"}

\* Every variable of the pool stays in the range the code gives it.
TypeOK ==
  /\ submitted \in 0..NumUnits /\ taken \in 0..submitted /\ collected \in 0..submitted
  /\ results \in [Keys -> 0..NumUnits]
  /\ limit \in Nat /\ inflight \in Nat /\ stats_min \in Nat /\ stats_max \in Nat
  /\ pc \in [Threads -> Pcs]
  /\ unit \in [Threads -> 0..NumUnits]
  /\ todo \in [Threads -> Seq(Slice)]
  /\ attempt \in [Threads -> 0..MaxRetries]
  /\ split \in [Threads -> BOOLEAN]
  /\ outcome \in [Units -> Statuses \cup {"none"}]
  /\ reviewed \in [Units -> SUBSET Nat]
  /\ dropped \in [Units -> SUBSET Nat]
  /\ stats \in [Counters -> Nat]

-----------------------------------------------------------------------------
\* The sum of n over the threads: the pairs of a thread t and a number up to n[t].
SumOverThreads(n) == Cardinality(UNION {{t} \X (1..n[t]) : t \in Threads})

\* Slot accounting (acquire/release on every path of _dispatch_one): the
\* in-flight count is the number of threads inside a hook call, so no exit
\* path leaks a slot or gives one back twice, also across the recursion.
SlotAccounting == inflight = Cardinality({t \in Threads : pc[t] = "call"})

\* No lost wakeup (notify_all in release, penalize and reward): a thread is
\* blocked in acquire() only while there is no free slot.
NoLostWakeup == \A t \in Threads : pc[t] = "waiting" => inflight >= limit

\* AIMD bounds: concurrent penalties and rewards keep the limit between
\* max(1, min_workers) and max_workers, and stats_min and stats_max record
\* its extremes.
LimiterBounds ==
  /\ MinLimit <= stats_min /\ stats_min <= limit
  /\ limit <= stats_max /\ stats_max <= MaxWorkers

\* Tally conservation (_bump under _STATS_LOCK): every slice ends in exactly
\* one of dispatched, failed and overflow_splits, whatever the interleaving.
TallyConservation ==
  stats.dispatched + stats.failed
    + SumOverThreads([t \in Threads |-> Len(todo[t])]) + (NumUnits - taken)
  = NumUnits + stats.overflow_splits

\* Retry budget: a slice that was answered or split has cost at most
\* max_retries retries and one that failed at most one more, and each
\* rate-limit event is counted as a retry once it has been penalised.
RetryBudget ==
  /\ stats.retries <= MaxRetries * (stats.dispatched + stats.overflow_splits)
                      + (MaxRetries + 1) * stats.failed
                      + SumOverThreads(attempt)
  /\ stats.rate_limit_events
       <= stats.retries + Cardinality({t \in Threads : pc[t] = "penalize"})

\* What RunnerStats reports of a pool: every slice ended in one counter, and
\* the retries are those of the slices that ended and of the ones under way.
CountersAddUp == TallyConservation /\ RetryBudget

\* Each unit with a result has every one of its files settled, exactly once:
\* the merge of the halves loses no file and covers none twice.
FilesSettled ==
  \A u \in Units :
    /\ reviewed[u] \cap dropped[u] = {}
    /\ outcome[u] # "none" => reviewed[u] \cup dropped[u] = 1..Size[u]

\* A unit that reports "failed" or "skipped" (collect_findings ignores its
\* findings) has no reviewed file whose findings would be lost with it.
NoHiddenReview ==
  \A u \in Units : outcome[u] \in {"failed", "skipped"} => reviewed[u] = {}

\* The slices of s follow one another and end at file n.
Contiguous(s, n) ==
  /\ \A i \in 1..Len(s) : 1 <= s[i].lo /\ s[i].lo <= s[i].hi + 1 /\ s[i].hi <= n
  /\ \A i \in 1..(Len(s) - 1) : s[i + 1].lo = s[i].hi + 1
  /\ s[Len(s)].hi = n

\* What a thread inside _dispatch_one still has to do for its unit: exactly
\* the files from the head of todo on are unsettled, and nothing has happened
\* to a unit that was not split before its only slice is over.
WorkLeft(t) ==
  /\ unit[t] \in 1..taken /\ todo[t] # <<>>
  /\ outcome[unit[t]] = "none"
  /\ Contiguous(todo[t], Size[unit[t]])
  /\ reviewed[unit[t]] \cup dropped[unit[t]] = 1..(todo[t][1].lo - 1)
  /\ ~split[t] => Len(todo[t]) = 1 /\ todo[t][1].lo = 1

\* Ownership: a unit without a result is still in the queue or belongs to
\* exactly one thread, whose list of slices is what is left of it; so the
\* recursion neither forgets a half nor runs one twice.
Ownership ==
  /\ \A t \in Threads : IF pc[t] = "idle" THEN unit[t] = 0 /\ todo[t] = <<>> ELSE WorkLeft(t)
  /\ \A t, w \in Threads : t # w /\ unit[t] # 0 => unit[t] # unit[w]
  /\ \A u \in Units :
       /\ u > taken => outcome[u] = "none" /\ reviewed[u] = {} /\ dropped[u] = {}
       /\ u <= taken /\ outcome[u] = "none" => \E t \in Threads : unit[t] = u

\* A future is resolved once and its unit is then settled for good.
ResolvedOnce ==
  [][\A u \in Units : outcome[u] # "none" =>
       outcome'[u] = outcome[u] /\ reviewed'[u] = reviewed[u] /\ dropped'[u] = dropped[u]]_vars

\* The pool implements the promise of _dispatch_units (module UnitCoverage).
Coverage == INSTANCE UnitCoverage WITH returned <- Finished
ImplementsCoverage == Coverage!Spec

\* _dispatch_units returns: no deadlock between the limiter, the recursion on
\* halves and the executor, and no unbounded retrying.
AllReturned == <>Finished

\* No thread starves in acquire().
WaiterServed == \A t \in Threads : pc[t] = "waiting" ~> pc[t] = "call"

\* What runner.py:13-16 says: a unit with files that failed for good is a
\* "failed" unit and files are never silently skipped.
NoSilentSkip == \A u \in Units : outcome[u] = "completed" => dropped[u] = {}
=============================================================================
