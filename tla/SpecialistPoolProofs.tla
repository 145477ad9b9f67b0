------------------------ MODULE SpecialistPoolProofs ------------------------
(***************************************************************************)
(* Theorems about SpecialistPool, for every number of threads, every list  *)
(* of units and every retry limit.                                         *)
(***************************************************************************)
EXTENDS SpecialistPool, FiniteSetTheorems, SequenceTheorems, TLAPS

USE ThreadsAssumption, LimitsAssumption, UnitsAssumption, AnswersAssumption

\* The number of threads inside a hook call, whose equality with inflight is
\* SlotAccounting.
InCall == {t \in Threads : pc[t] = "call"}

-----------------------------------------------------------------------------
(* Facts about the operators of the model.                                 *)

\* max_workers is a positive number.
LEMMA MaxWorkersType == MaxWorkers \in Nat \ {0} /\ MinLimit \in 1..MaxWorkers
<1>1. MaxWorkers \in Nat
  BY FS_CardinalityType DEF MaxWorkers
<1>2. MaxWorkers # 0
  BY FS_EmptySet DEF MaxWorkers
<1>3. QED
  BY <1>1, <1>2 DEF MinLimit, MaxOf

\* _split_unit: two non-empty slices that meet in the middle.
LEMMA HalvesSplit ==
  ASSUME NEW s \in Slice, NumFiles(s) > 1
  PROVE  /\ Halves(s) \in Seq(Slice)
         /\ Len(Halves(s)) = 2
         /\ Halves(s)[1].lo = s.lo /\ Halves(s)[2].hi = s.hi
         /\ Halves(s)[2].lo = Halves(s)[1].hi + 1
         /\ Halves(s)[1].lo <= Halves(s)[1].hi
         /\ Halves(s)[2].lo <= Halves(s)[2].hi
<1> DEFINE mid == NumFiles(s) \div 2
<1>1. s.lo \in Nat /\ s.hi \in Nat
  BY DEF Slice
<1>2. mid \in Nat /\ 1 <= mid /\ mid < NumFiles(s)
  BY <1>1 DEF NumFiles
<1> DEFINE a == [lo |-> s.lo, hi |-> (s.lo + mid) - 1]
           b == [lo |-> s.lo + mid, hi |-> s.hi]
<1>3. a \in Slice /\ b \in Slice
  BY <1>1, <1>2 DEF Slice
<1>4. Halves(s) = <<a, b>>
  BY DEF Halves
<1> HIDE DEF mid
<1>5. a.lo <= a.hi /\ b.lo <= b.hi /\ b.lo = a.hi + 1
  BY <1>1, <1>2 DEF NumFiles
<1> HIDE DEF a, b
<1>6. a.lo = s.lo /\ b.hi = s.hi
  BY DEF a, b
<1>7. QED
  BY <1>3, <1>4, <1>5, <1>6

\* Types and lengths of a list of slices, of its head and of its tail.
LEMMA SliceSeq ==
  ASSUME NEW s \in Seq(Slice)
  PROVE  /\ Len(s) \in Nat
         /\ s = <<>> <=> Len(s) = 0
         /\ s # <<>> => Len(s) = 1 \/ Len(s) > 1
         /\ Len(s) = 1 => Tail(s) = <<>>
         /\ Len(s) > 1 => Tail(s) # <<>> /\ Len(s) # 1
         /\ \A i \in 1..Len(s) : s[i] \in Slice /\ s[i].lo \in Nat /\ s[i].hi \in Nat
         /\ s # <<>> => /\ Head(s) = s[1] /\ Tail(s) \in Seq(Slice)
                        /\ Len(Tail(s)) = Len(s) - 1
                        /\ \A i \in 1..Len(Tail(s)) : Tail(s)[i] = s[i + 1]
<1>1. Len(s) \in Nat /\ (s = <<>> <=> Len(s) = 0)
  BY EmptySeq, LenProperties
<1>2. \A i \in 1..Len(s) : s[i] \in Slice
  BY ElementOfSeq
<1>3. \A x \in Slice : x.lo \in Nat /\ x.hi \in Nat
  BY DEF Slice
<1>4. s # <<>> => /\ Head(s) = s[1] /\ Tail(s) \in Seq(Slice)
                  /\ Len(Tail(s)) = Len(s) - 1
                  /\ \A i \in 1..Len(Tail(s)) : Tail(s)[i] = s[i + 1]
  BY HeadTailProperties
<1>5. s # <<>> => Len(s) = 1 \/ Len(s) > 1
  <2> DEFINE L == Len(s)
  <2>1. L \in Nat /\ (s # <<>> => L # 0)
    BY <1>1
  <2> HIDE DEF L
  <2>2. s # <<>> => L = 1 \/ L > 1
    BY <2>1
  <2>3. QED
    BY <2>2 DEF L
<1>6. /\ Len(s) = 1 => Tail(s) = <<>>
      /\ Len(s) > 1 => Tail(s) # <<>> /\ Len(s) # 1
  <2> DEFINE L == Len(s)
            M == Len(Tail(s))
  <2>1. L \in Nat /\ (s = <<>> <=> L = 0)
    BY <1>1
  <2>2. s # <<>> => (Tail(s) = <<>> <=> M = 0) /\ M = L - 1
    BY <1>4, EmptySeq, LenProperties
  <2> HIDE DEF L, M
  <2>3. /\ L = 1 => Tail(s) = <<>>
        /\ L > 1 => Tail(s) # <<>> /\ L # 1
    BY <2>1, <2>2
  <2>4. QED
    BY <2>3 DEF L
<1>7. QED
  BY <1>1, <1>2, <1>3, <1>4, <1>5, <1>6

\* What is left of a list of slices after its head.
LEMMA TailContiguous ==
  ASSUME NEW s \in Seq(Slice), NEW n \in Nat, Contiguous(s, n), Len(s) > 1
  PROVE  /\ Tail(s) \in Seq(Slice) /\ Tail(s) # <<>>
         /\ Contiguous(Tail(s), n)
         /\ Tail(s)[1].lo = s[1].hi + 1
<1>1. s # <<>> /\ Len(s) \in Nat
  OBVIOUS
<1>2. Tail(s) \in Seq(Slice) /\ Len(Tail(s)) = Len(s) - 1
      /\ \A i \in 1..Len(Tail(s)) : Tail(s)[i] = s[i + 1]
  BY <1>1
<1>3. \A i \in 1..Len(Tail(s)) : i + 1 \in 1..Len(s)
  BY <1>1, <1>2
<1>4. \A i \in 1..(Len(Tail(s)) - 1) : i + 1 \in 1..(Len(s) - 1) /\ i \in 1..Len(Tail(s)) /\ i + 1 \in 1..Len(Tail(s))
  BY <1>1, <1>2
<1>5. Contiguous(Tail(s), n)
  <2>1. \A i \in 1..Len(Tail(s)) : 1 <= Tail(s)[i].lo /\ Tail(s)[i].lo <= Tail(s)[i].hi + 1 /\ Tail(s)[i].hi <= n
    BY <1>2, <1>3 DEF Contiguous
  <2>2. \A i \in 1..(Len(Tail(s)) - 1) : Tail(s)[i + 1].lo = Tail(s)[i].hi + 1
    BY <1>2, <1>4 DEF Contiguous
  <2>3. Tail(s)[Len(Tail(s))].hi = n
    BY <1>1, <1>2 DEF Contiguous
  <2>4. QED
    BY <2>1, <2>2, <2>3 DEF Contiguous
<1>6. Tail(s)[1] = s[2] /\ s[2].lo = s[1].hi + 1
  <2>1. 1 \in 1..Len(Tail(s)) /\ 1 \in 1..(Len(s) - 1)
    BY <1>1, <1>2
  <2>2. QED
    BY <2>1, <1>2 DEF Contiguous
<1>7. Tail(s) # <<>>
  BY SliceSeq
<1>8. QED
  BY <1>2, <1>5, <1>6, <1>7

\* Replacing the head by its halves.
LEMMA HalvesContiguous ==
  ASSUME NEW s \in Seq(Slice), NEW n \in Nat, s # <<>>, Contiguous(s, n), NumFiles(Head(s)) > 1,
         NEW r, r = Halves(Head(s)) \o Tail(s)
  PROVE  /\ r \in Seq(Slice) /\ r # <<>>
         /\ Contiguous(r, n)
         /\ r[1].lo = s[1].lo
<1>1. Head(s) = s[1] /\ s[1] \in Slice /\ Len(s) \in Nat /\ Len(s) >= 1
  OBVIOUS
<1> DEFINE h == Halves(Head(s))
           q == Tail(s)
<1>2. /\ h \in Seq(Slice) /\ Len(h) = 2
      /\ h[1].lo = s[1].lo /\ h[2].hi = s[1].hi
      /\ h[2].lo = h[1].hi + 1
      /\ h[1].lo <= h[1].hi /\ h[2].lo <= h[2].hi
  BY <1>1, HalvesSplit
<1>3. q \in Seq(Slice) /\ Len(q) = Len(s) - 1 /\ \A i \in 1..Len(q) : q[i] = s[i + 1]
  BY <1>1
<1> HIDE DEF h, q
<1>4. /\ r = h \o q /\ r \in Seq(Slice) /\ Len(r) = Len(s) + 1
      /\ r[1] = h[1] /\ r[2] = h[2]
      /\ \A i \in 3..Len(r) : r[i] = q[i - 2]
  BY <1>1, <1>2, <1>3, SMTT(20) DEF h, q
<1>5. \A i \in 3..Len(r) : r[i] = s[i - 1] /\ i - 1 \in 2..Len(s)
  BY <1>1, <1>3, <1>4
<1>6. /\ h[1].lo \in Nat /\ h[1].hi \in Nat /\ h[2].lo \in Nat /\ h[2].hi \in Nat
      /\ s[1].lo \in Nat /\ s[1].hi \in Nat
  <2>1. \A i \in 1..Len(h) : h[i].lo \in Nat /\ h[i].hi \in Nat
    BY <1>2, SliceSeq
  <2>2. \A i \in 1..Len(s) : s[i].lo \in Nat /\ s[i].hi \in Nat
    BY SliceSeq
  <2>3. 1 \in 1..Len(h) /\ 2 \in 1..Len(h) /\ 1 \in 1..Len(s)
    BY <1>1, <1>2
  <2>4. QED
    BY <2>1, <2>2, <2>3
<1>11. /\ \A i \in 1..Len(s) : 1 <= s[i].lo /\ s[i].lo <= s[i].hi + 1 /\ s[i].hi <= n
       /\ \A i \in 1..(Len(s) - 1) : s[i + 1].lo = s[i].hi + 1
       /\ s[Len(s)].hi = n
  BY DEF Contiguous
<1>12. 1 <= s[1].lo /\ s[1].hi <= n
  BY <1>11, <1>1
<1>13. /\ 1 <= h[1].lo /\ h[1].lo <= h[1].hi + 1 /\ h[1].hi <= n
       /\ 1 <= h[2].lo /\ h[2].lo <= h[2].hi + 1 /\ h[2].hi <= n
  <2> DEFINE a == h[1].lo
             b == h[1].hi
             c == h[2].lo
             d == h[2].hi
  <2>1. a \in Nat /\ b \in Nat /\ c \in Nat /\ d \in Nat /\ 1 <= a /\ a <= b /\ c = b + 1 /\ c <= d /\ d <= n
    BY <1>2, <1>6, <1>12
  <2> HIDE DEF a, b, c, d
  <2>2. 1 <= a /\ a <= b + 1 /\ b <= n /\ 1 <= c /\ c <= d + 1 /\ d <= n
    BY <2>1
  <2>3. QED
    BY <2>2 DEF a, b, c, d
<1>7. \A i \in 1..Len(r) : 1 <= r[i].lo /\ r[i].lo <= r[i].hi + 1 /\ r[i].hi <= n
  <2> SUFFICES ASSUME NEW i \in 1..Len(r)
               PROVE  1 <= r[i].lo /\ r[i].lo <= r[i].hi + 1 /\ r[i].hi <= n
    OBVIOUS
  <2>1. CASE i = 1
    BY <2>1, <1>4, <1>13
  <2>2. CASE i = 2
    BY <2>2, <1>4, <1>13
  <2>3. CASE i \in 3..Len(r)
    <3>1. i - 1 \in 1..Len(s) /\ r[i] = s[i - 1]
      BY <2>3, <1>5, <1>1
    <3>2. QED
      BY <3>1, <1>11
  <2>4. QED
    BY <2>1, <2>2, <2>3, <1>1, <1>4
<1>8. \A i \in 1..(Len(r) - 1) : r[i + 1].lo = r[i].hi + 1
  <2> SUFFICES ASSUME NEW i \in 1..(Len(r) - 1) PROVE r[i + 1].lo = r[i].hi + 1
    OBVIOUS
  <2>1. CASE i = 1
    BY <2>1, <1>2, <1>4
  <2>2. CASE i = 2
    <3>1. r[3] = s[2] /\ 1 \in 1..(Len(s) - 1)
      BY <2>2, <1>1, <1>4, <1>5
    <3>2. s[1 + 1].lo = s[1].hi + 1
      BY <3>1, <1>11
    <3>3. QED
      BY <2>2, <3>1, <3>2, <1>2, <1>4
  <2>3. CASE i >= 3
    <3>1. r[i] = s[i - 1] /\ r[i + 1] = s[i] /\ i - 1 \in 1..(Len(s) - 1)
      BY <2>3, <1>1, <1>4, <1>5, SMTT(20)
    <3>2. s[(i - 1) + 1].lo = s[i - 1].hi + 1
      BY <3>1, <1>11
    <3>3. (i - 1) + 1 = i
      OBVIOUS
    <3>4. QED
      BY <3>1, <3>2, <3>3
  <2>4. i \in Nat /\ i >= 1
    BY <1>1, <1>4
  <2>5. i = 1 \/ i = 2 \/ i >= 3
    BY <2>4
  <2>6. QED
    BY <2>1, <2>2, <2>3, <2>5
<1>9. r[Len(r)].hi = n
  <2>1. CASE Len(s) = 1
    BY <2>1, <1>1, <1>2, <1>4, <1>11
  <2>2. CASE Len(s) > 1
    <3>1. Len(r) \in 3..Len(r) /\ Len(r) - 1 = Len(s)
      BY <2>2, <1>1, <1>4
    <3>2. QED
      BY <3>1, <1>5, <1>11
  <2>3. Len(s) = 1 \/ Len(s) > 1
    BY SliceSeq
  <2>4. QED
    BY <2>1, <2>2, <2>3
<1>10. r # <<>>
  BY <1>1, <1>4, SliceSeq
<1>14. QED
  BY <1>2, <1>4, <1>7, <1>8, <1>9, <1>10 DEF Contiguous

\* notify_all: the other threads stay where they are, but none is waiting.
LEMMA NotifiedOthers ==
  ASSUME pc \in [Threads -> Pcs], NEW t \in Threads, NEW p \in Pcs
  PROVE  /\ Notified(t, p) \in [Threads -> Pcs]
         /\ Notified(t, p)[t] = p
         /\ \A w \in Threads \ {t} :
              /\ Notified(t, p)[w] # "waiting"
              /\ Notified(t, p)[w] = "call" <=> pc[w] = "call"
              /\ Notified(t, p)[w] = "idle" <=> pc[w] = "idle"
BY DEF Notified, Pcs

-----------------------------------------------------------------------------
(* The number of threads inside a hook call.                               *)

LEMMA InCallFinite == IsFiniteSet(InCall) /\ Cardinality(InCall) \in Nat
<1>1. InCall \subseteq Threads
  BY DEF InCall
<1>2. QED
  BY <1>1, FS_Subset, FS_CardinalityType

\* A thread enters its call.
LEMMA EnterCall ==
  ASSUME NEW t \in Threads, pc[t] # "call", pc'[t] = "call",
         \A w \in Threads \ {t} : pc'[w] = "call" <=> pc[w] = "call"
  PROVE  Cardinality(InCall') = Cardinality(InCall) + 1
<1>1. InCall' = InCall \cup {t} /\ t \notin InCall
  BY DEF InCall
<1>2. QED
  BY <1>1, InCallFinite, FS_AddElement

\* A thread leaves its call.
LEMMA LeaveCall ==
  ASSUME NEW t \in Threads, pc[t] = "call", pc'[t] # "call",
         \A w \in Threads \ {t} : pc'[w] = "call" <=> pc[w] = "call"
  PROVE  Cardinality(InCall') = Cardinality(InCall) - 1 /\ Cardinality(InCall) >= 1
<1>1. InCall' = InCall \ {t} /\ t \in InCall
  BY DEF InCall
<1>2. Cardinality(InCall) # 0
  BY <1>1, InCallFinite, FS_EmptySet
<1>3. Cardinality(InCall') = Cardinality(InCall) - 1
  BY <1>1, InCallFinite, FS_RemoveElement
<1>4. QED
  BY <1>2, <1>3, InCallFinite

\* No thread enters or leaves.
LEMMA SameCalls ==
  ASSUME \A w \in Threads : pc'[w] = "call" <=> pc[w] = "call"
  PROVE  Cardinality(InCall') = Cardinality(InCall)
<1>1. InCall' = InCall
  BY DEF InCall
<1>2. QED
  BY <1>1

-----------------------------------------------------------------------------
(* What each kind of step does to the work that is left.                   *)

\* The work a thread still has, in its typed form.
LEMMA BusyFacts ==
  ASSUME TypeOK, Ownership, NEW t \in Threads, pc[t] # "idle"
  PROVE  /\ WorkLeft(t)
         /\ unit[t] \in Units /\ unit[t] # 0 /\ Size[unit[t]] \in Nat
         /\ todo[t] \in Seq(Slice) /\ Len(todo[t]) \in Nat /\ Len(todo[t]) >= 1
         /\ Head(todo[t]) = todo[t][1] /\ todo[t][1] \in Slice
         /\ todo[t][1].lo \in Nat /\ todo[t][1].hi \in Nat
<1>1. WorkLeft(t)
  BY DEF Ownership
<1>2. unit[t] \in 1..taken /\ taken \in 0..NumUnits /\ NumUnits \in Nat
  BY <1>1 DEF WorkLeft, TypeOK
<1>3. unit[t] \in Units /\ unit[t] # 0
  BY <1>2 DEF Units
<1>4. todo[t] \in Seq(Slice) /\ todo[t] # <<>>
  BY <1>1 DEF WorkLeft, TypeOK
<1>5. Len(todo[t]) \in Nat /\ Len(todo[t]) >= 1 /\ Head(todo[t]) = todo[t][1] /\ todo[t][1] \in Slice
  BY <1>4
<1>6. QED
  BY <1>1, <1>3, <1>4, <1>5 DEF Slice

\* Steps that move no unit and no slice.
LEMMA WorkKept ==
  ASSUME Ownership, UNCHANGED <<taken, unit, todo, split, outcome, reviewed, dropped>>,
         \A w \in Threads : pc'[w] = "idle" <=> pc[w] = "idle"
  PROVE  Ownership'
BY DEF Ownership, WorkLeft

\* The files settled so far and those of the head make up all before the rest.
LEMMA PrefixGrows ==
  ASSUME NEW s \in Slice, 1 <= s.lo, s.lo <= s.hi + 1
  PROVE  (1..(s.lo - 1)) \cup FilesOf(s) = 1..s.hi
BY DEF Slice, FilesOf

\* The end of a slice, Settle.
LEMMA SettleKeeps ==
  ASSUME TypeOK, Ownership, NEW t \in Threads, NEW status \in Statuses,
         pc[t] # "idle", Settle(t, status), taken' = taken,
         \A w \in Threads \ {t} : pc'[w] = "idle" <=> pc[w] = "idle",
         pc'[t] = "idle" <=> Len(todo[t]) = 1
  PROVE  /\ Ownership'
         /\ unit' \in [Threads -> 0..NumUnits]
         /\ todo' \in [Threads -> Seq(Slice)]
         /\ attempt' \in [Threads -> 0..MaxRetries]
         /\ split' \in [Threads -> BOOLEAN]
         /\ outcome' \in [Units -> Statuses \cup {"none"}]
         /\ reviewed' \in [Units -> SUBSET Nat]
         /\ dropped' \in [Units -> SUBSET Nat]
<1> DEFINE u == unit[t]
           s == todo[t][1]
           last == Len(todo[t]) = 1
<1>1. /\ WorkLeft(t) /\ u \in Units /\ u # 0 /\ u \in 0..NumUnits /\ Size[u] \in Nat
      /\ todo[t] \in Seq(Slice) /\ Len(todo[t]) \in Nat /\ Len(todo[t]) >= 1
      /\ Head(todo[t]) = s /\ s \in Slice /\ s.lo \in Nat /\ s.hi \in Nat
  BY BusyFacts DEF Units
<1>2. FilesOf(s) \in SUBSET Nat
  BY <1>1 DEF FilesOf
<1>3. /\ reviewed' = IF status = "completed" THEN [reviewed EXCEPT ![u] = @ \cup FilesOf(s)] ELSE reviewed
      /\ dropped' = IF status = "completed" THEN dropped ELSE [dropped EXCEPT ![u] = @ \cup FilesOf(s)]
      /\ outcome' = IF last THEN [outcome EXCEPT ![u] = IF split[t] THEN "completed" ELSE status] ELSE outcome
      /\ todo' = [todo EXCEPT ![t] = Tail(@)]
      /\ attempt' = [attempt EXCEPT ![t] = 0]
      /\ unit' = [unit EXCEPT ![t] = IF last THEN 0 ELSE u]
      /\ split' = [split EXCEPT ![t] = ~last /\ split[t]]
  BY <1>1 DEF Settle
<1>4. Tail(todo[t]) \in Seq(Slice) /\ Len(Tail(todo[t])) = Len(todo[t]) - 1
  BY <1>1
<1>5. /\ unit' \in [Threads -> 0..NumUnits]
      /\ todo' \in [Threads -> Seq(Slice)]
      /\ attempt' \in [Threads -> 0..MaxRetries]
      /\ split' \in [Threads -> BOOLEAN]
  BY <1>1, <1>3, <1>4 DEF TypeOK
<1>6. /\ outcome' \in [Units -> Statuses \cup {"none"}]
      /\ reviewed' \in [Units -> SUBSET Nat]
      /\ dropped' \in [Units -> SUBSET Nat]
  BY <1>1, <1>2, <1>3 DEF TypeOK, Statuses
<1>7. \A v \in Units \ {u} : outcome'[v] = outcome[v] /\ reviewed'[v] = reviewed[v] /\ dropped'[v] = dropped[v]
  BY <1>1, <1>3 DEF TypeOK
<1>8. reviewed'[u] \cup dropped'[u] = reviewed[u] \cup dropped[u] \cup FilesOf(s)
  BY <1>1, <1>3 DEF TypeOK
<1>9. Contiguous(todo[t], Size[u]) /\ reviewed[u] \cup dropped[u] = 1..(s.lo - 1) /\ u \in 1..taken
  BY <1>1 DEF WorkLeft
<1>10. 1 <= s.lo /\ s.lo <= s.hi + 1 /\ s.hi <= Size[u]
  BY <1>1, <1>9 DEF Contiguous
<1>11. reviewed'[u] \cup dropped'[u] = 1..s.hi
  BY <1>1, <1>8, <1>9, <1>10, PrefixGrows
<1>12. \A w \in Threads \ {t} : unit[w] # u /\ unit'[w] = unit[w] /\ todo'[w] = todo[w] /\ split'[w] = split[w]
  BY <1>1, <1>3 DEF Ownership, TypeOK
<1>13. \A w \in Threads \ {t} : IF pc'[w] = "idle" THEN unit'[w] = 0 /\ todo'[w] = <<>> ELSE WorkLeft(w)'
  <2> SUFFICES ASSUME NEW w \in Threads \ {t}
               PROVE  IF pc'[w] = "idle" THEN unit'[w] = 0 /\ todo'[w] = <<>> ELSE WorkLeft(w)'
    OBVIOUS
  <2>1. CASE pc'[w] = "idle"
    BY <2>1, <1>12 DEF Ownership
  <2>2. CASE pc'[w] # "idle"
    <3>1. WorkLeft(w) /\ unit[w] \in Units \ {u}
      BY <2>2, <1>12, BusyFacts
    <3>2. QED
      BY <3>1, <2>2, <1>7, <1>12 DEF WorkLeft
  <2>3. QED
    BY <2>1, <2>2
<1>14. IF pc'[t] = "idle" THEN unit'[t] = 0 /\ todo'[t] = <<>> ELSE WorkLeft(t)'
  <2>1. CASE last
    <3>1. Tail(todo[t]) = <<>>
      BY <2>1, <1>1, SliceSeq
    <3>2. QED
      BY <2>1, <3>1, <1>3 DEF TypeOK
  <2>2. CASE ~last
    <3>1. unit'[t] = u /\ todo'[t] = Tail(todo[t]) /\ split'[t] = split[t] /\ outcome'[u] = outcome[u]
      BY <2>2, <1>1, <1>3 DEF TypeOK
    <3>2. Len(todo[t]) > 1
      <4>1. Len(todo[t]) = 1 \/ Len(todo[t]) > 1
        BY <1>1, SliceSeq DEF WorkLeft
      <4>2. QED
        BY <4>1, <2>2
    <3>3. Tail(todo[t]) # <<>> /\ Contiguous(Tail(todo[t]), Size[u]) /\ Tail(todo[t])[1].lo = s.hi + 1
      BY <3>2, <1>1, <1>9, TailContiguous
    <3>4. split[t]
      <4>1. split[t] \in BOOLEAN /\ (~split[t] => Len(todo[t]) = 1)
        BY <1>1 DEF WorkLeft, TypeOK
      <4>2. QED
        BY <4>1, <2>2
    <3>5. reviewed'[u] \cup dropped'[u] = 1..(todo'[t][1].lo - 1)
      BY <3>1, <3>3, <1>1, <1>11, SMTT(20)
    <3>6. unit'[t] \in 1..taken /\ outcome'[unit'[t]] = "none" /\ split'[t]
      BY <3>1, <3>4, <1>1, <1>9 DEF WorkLeft
    <3>8. Contiguous(todo'[t], Size[unit'[t]]) /\ todo'[t] # <<>>
      BY <3>1, <3>3
    <3>9. WorkLeft(t)'
      BY <3>1, <3>5, <3>6, <3>8 DEF WorkLeft
    <3>7. QED
      BY <3>9, <2>2
  <2>3. QED
    BY <2>1, <2>2
<1>15. \A v, w \in Threads : v # w /\ unit'[v] # 0 => unit'[v] # unit'[w]
  BY <1>1, <1>3, <1>12, SMTT(20) DEF Ownership, TypeOK
<1>16. \A v \in Units :
         /\ v > taken => outcome'[v] = "none" /\ reviewed'[v] = {} /\ dropped'[v] = {}
         /\ v <= taken /\ outcome'[v] = "none" => \E w \in Threads : unit'[w] = v
  <2> SUFFICES ASSUME NEW v \in Units
               PROVE  /\ v > taken => outcome'[v] = "none" /\ reviewed'[v] = {} /\ dropped'[v] = {}
                      /\ v <= taken /\ outcome'[v] = "none" => \E w \in Threads : unit'[w] = v
    OBVIOUS
  <2>1. CASE v = u
    <3>1. ~(v > taken)
      BY <2>1, <1>9 DEF TypeOK, Units
    <3>2. CASE last
      <4>1. outcome'[v] # "none"
        BY <3>2, <2>1, <1>1, <1>3 DEF TypeOK, Statuses
      <4>2. QED
        BY <3>1, <4>1
    <3>3. CASE ~last
      BY <3>3, <3>1, <2>1, <1>3 DEF TypeOK
    <3>4. QED
      BY <3>2, <3>3
  <2>2. CASE v # u
    <3>1. outcome'[v] = outcome[v] /\ reviewed'[v] = reviewed[v] /\ dropped'[v] = dropped[v]
      BY <2>2, <1>7
    <3>2. ASSUME v <= taken, outcome[v] = "none"
          PROVE  \E w \in Threads : unit'[w] = v
      <4>1. PICK w \in Threads : unit[w] = v
        BY <3>2 DEF Ownership
      <4>2. w # t
        BY <4>1, <2>2
      <4>3. QED
        BY <4>1, <4>2, <1>12
    <3>3. QED
      BY <3>1, <3>2 DEF Ownership
  <2>3. QED
    BY <2>1, <2>2
<1>17. Ownership'
  BY <1>13, <1>14, <1>15, <1>16 DEF Ownership
<1>18. QED
  BY <1>5, <1>6, <1>17

\* An overflowing slice is replaced by its halves.
LEMMA SplitKeeps ==
  ASSUME TypeOK, Ownership, NEW t \in Threads, pc[t] # "idle",
         NumFiles(Head(todo[t])) > 1,
         todo' = [todo EXCEPT ![t] = Halves(Head(@)) \o Tail(@)],
         split' = [split EXCEPT ![t] = TRUE],
         UNCHANGED <<taken, unit, outcome, reviewed, dropped>>,
         \A w \in Threads : pc'[w] = "idle" <=> pc[w] = "idle"
  PROVE  Ownership' /\ todo' \in [Threads -> Seq(Slice)]
<1> DEFINE r == Halves(Head(todo[t])) \o Tail(todo[t])
<1>1. /\ WorkLeft(t) /\ Size[unit[t]] \in Nat
      /\ todo[t] \in Seq(Slice) /\ todo[t] # <<>>
  BY BusyFacts DEF WorkLeft
<1>2. Contiguous(todo[t], Size[unit[t]])
  BY <1>1 DEF WorkLeft
<1>3. r \in Seq(Slice) /\ r # <<>> /\ Contiguous(r, Size[unit[t]]) /\ r[1].lo = todo[t][1].lo
  BY <1>1, <1>2, HalvesContiguous
<1>4. todo' = [todo EXCEPT ![t] = r]
  OBVIOUS
<1> HIDE DEF r
<1>5. todo'[t] = r /\ split'[t] = TRUE
  BY <1>4 DEF TypeOK
<1>6. \A w \in Threads \ {t} : todo'[w] = todo[w] /\ split'[w] = split[w]
  BY <1>4 DEF TypeOK
<1>7. todo' \in [Threads -> Seq(Slice)]
  BY <1>3, <1>4 DEF TypeOK
<1>8. WorkLeft(t)'
  BY <1>1, <1>3, <1>5 DEF WorkLeft
<1>9. \A w \in Threads \ {t} : WorkLeft(w) => WorkLeft(w)'
  BY <1>6 DEF WorkLeft
<1>10. QED
  BY <1>6, <1>7, <1>8, <1>9 DEF Ownership

\* A thread takes the next unit of the queue.
LEMMA TakeKeeps ==
  ASSUME TypeOK, Ownership, NEW t \in Threads, Take(t)
  PROVE  Ownership' /\ TypeOK'
<1> DEFINE u == taken + 1
           s == [lo |-> 1, hi |-> Size[u]]
<1>1. /\ taken \in 0..submitted /\ taken < submitted /\ submitted \in 0..NumUnits
      /\ taken' = u /\ unit' = [unit EXCEPT ![t] = u] /\ todo' = [todo EXCEPT ![t] = <<s>>]
      /\ pc' = [pc EXCEPT ![t] = "acquire"] /\ pc[t] = "idle"
      /\ UNCHANGED <<mainVars, limiterVars, attempt, split, outcome, reviewed, dropped, stats>>
  BY DEF Take, TypeOK
<1>2. u \in Units /\ u \in 0..NumUnits /\ u # 0 /\ u \in 0..submitted /\ ~(u <= taken) /\ u > taken
  BY <1>1 DEF Units
<1>3. s \in Slice /\ Size[u] \in Nat
  BY <1>2 DEF Slice
<1>4. /\ <<s>> \in Seq(Slice) /\ <<s>> # <<>> /\ Len(<<s>>) = 1 /\ <<s>>[1] = s
      /\ s.lo = 1 /\ s.hi = Size[u]
  BY <1>3
<1> HIDE DEF s
<1>5. unit'[t] = u /\ todo'[t] = <<s>> /\ pc'[t] = "acquire"
  BY <1>1 DEF TypeOK
<1>6. \A w \in Threads \ {t} : unit'[w] = unit[w] /\ todo'[w] = todo[w] /\ pc'[w] = pc[w]
  BY <1>1 DEF TypeOK
<1>7. outcome[u] = "none" /\ reviewed[u] = {} /\ dropped[u] = {}
  BY <1>2 DEF Ownership
<1>8. Contiguous(<<s>>, Size[u])
  BY <1>3, <1>4 DEF Contiguous
<1>9. WorkLeft(t)'
  <2>1. reviewed[u] \cup dropped[u] = 1..(s.lo - 1)
    BY <1>4, <1>7
  <2>2. u \in 1..u
    BY <1>1
  <2>3. QED
    BY <1>1, <1>4, <1>5, <1>7, <1>8, <2>1, <2>2 DEF WorkLeft
<1>10. \A w \in Threads \ {t} : pc[w] # "idle" => unit[w] \in 1..taken /\ WorkLeft(w)'
  <2> SUFFICES ASSUME NEW w \in Threads \ {t}, pc[w] # "idle"
               PROVE  unit[w] \in 1..taken /\ WorkLeft(w)'
    OBVIOUS
  <2>1. WorkLeft(w) /\ unit[w] \in 1..taken
    BY DEF Ownership, WorkLeft
  <2>2. unit[w] \in 1..u
    BY <2>1, <1>1
  <2>3. QED
    BY <2>1, <2>2, <1>1, <1>6 DEF WorkLeft
<1>11. \A w \in Threads \ {t} : unit[w] # u
  <2> SUFFICES ASSUME NEW w \in Threads \ {t} PROVE unit[w] # u
    OBVIOUS
  <2>1. CASE pc[w] = "idle"
    BY <2>1, <1>2 DEF Ownership
  <2>2. CASE pc[w] # "idle"
    BY <2>2, <1>10, <1>1
  <2>3. QED
    BY <2>1, <2>2
<1>12. \A w \in Threads : IF pc'[w] = "idle" THEN unit'[w] = 0 /\ todo'[w] = <<>> ELSE WorkLeft(w)'
  BY <1>5, <1>6, <1>9, <1>10 DEF Ownership
<1>13. \A v, w \in Threads : v # w /\ unit'[v] # 0 => unit'[v] # unit'[w]
  BY <1>5, <1>6, <1>11 DEF Ownership
<1>14. \A v \in Units :
         /\ v > u => outcome[v] = "none" /\ reviewed[v] = {} /\ dropped[v] = {}
         /\ v <= u /\ outcome[v] = "none" => \E w \in Threads : unit'[w] = v
  <2> SUFFICES ASSUME NEW v \in Units
               PROVE  /\ v > u => outcome[v] = "none" /\ reviewed[v] = {} /\ dropped[v] = {}
                      /\ v <= u /\ outcome[v] = "none" => \E w \in Threads : unit'[w] = v
    OBVIOUS
  <2>1. v > u => v > taken
    BY <1>1 DEF Units
  <2>2. ASSUME v <= u, outcome[v] = "none"
        PROVE  \E w \in Threads : unit'[w] = v
    <3>1. CASE v = u
      BY <3>1, <1>5
    <3>2. CASE v # u
      <4>1. v <= taken
        BY <3>2, <2>2, <1>1 DEF Units
      <4>2. PICK w \in Threads : unit[w] = v
        BY <4>1, <2>2 DEF Ownership
      <4>3. w # t
        BY <4>2, <1>1 DEF Ownership, Units
      <4>4. QED
        BY <4>2, <4>3, <1>6
    <3>3. QED
      BY <3>1, <3>2
  <2>3. QED
    BY <2>1, <2>2 DEF Ownership
<1>15. Ownership'
  BY <1>1, <1>12, <1>13, <1>14 DEF Ownership
<1>16. TypeOK'
  <2>1. pc' \in [Threads -> Pcs] /\ unit' \in [Threads -> 0..NumUnits] /\ todo' \in [Threads -> Seq(Slice)]
    BY <1>1, <1>2, <1>4 DEF TypeOK, Pcs
  <2>2. QED
    BY <2>1, <1>1, <1>2 DEF TypeOK, mainVars, limiterVars
<1>17. QED
  BY <1>15, <1>16

-----------------------------------------------------------------------------
(* The invariant of the pool: types, who owns which unit, and the slots.   *)
(* Types alone are not inductive: inflight stays a natural number because  *)
(* it counts the threads in a call, and the slice a thread settles exists  *)
(* because a busy thread has work left.                                    *)

PoolInv == TypeOK /\ Ownership /\ SlotAccounting

LEMMA InitPoolInv == Init => PoolInv
<1> SUFFICES ASSUME Init PROVE PoolInv
  OBVIOUS
<1>1. TypeOK
  <2>1. MaxWorkers \in Nat /\ NumUnits \in Nat /\ MaxRetries \in Nat
    BY MaxWorkersType
  <2>2. <<>> \in Seq(Slice)
    OBVIOUS
  <2>3. stats \in [Counters -> Nat]
    BY DEF Init, Counters
  <2>4. QED
    BY <2>1, <2>2, <2>3 DEF Init, TypeOK, Pcs, Statuses, Units
<1>2. Ownership
  BY DEF Init, Ownership, Units
<1>3. SlotAccounting
  <2>1. {t \in Threads : pc[t] = "call"} = {}
    BY DEF Init
  <2>2. QED
    BY <2>1, FS_EmptySet DEF SlotAccounting, Init
<1>4. QED
  BY <1>1, <1>2, <1>3 DEF PoolInv

\* The counters stay natural numbers.
LEMMA BumpType ==
  ASSUME stats \in [Counters -> Nat], NEW c \in Counters
  PROVE  Bump(c) \in [Counters -> Nat]
BY DEF Bump

LEMMA BumpBothType ==
  ASSUME stats \in [Counters -> Nat]
  PROVE  [stats EXCEPT !.retries = @ + 1, !.failed = @ + 1] \in [Counters -> Nat]
<1>1. "retries" \in Counters /\ "failed" \in Counters
  BY DEF Counters
<1>2. stats.retries + 1 \in Nat /\ stats.failed + 1 \in Nat
  BY <1>1
<1>3. \A f \in [Counters -> Nat], c \in Counters, n \in Nat : [f EXCEPT ![c] = n] \in [Counters -> Nat]
  OBVIOUS
<1>4. QED
  BY <1>1, <1>2, <1>3

\* A thread's release(): one slot and one call less.
LEMMA ReleaseKeeps ==
  ASSUME TypeOK, SlotAccounting, NEW t \in Threads, NEW p \in Pcs \ {"call"},
         pc[t] = "call", Release(t, p)
  PROVE  /\ inflight' \in Nat /\ inflight' = inflight - 1 /\ SlotAccounting'
         /\ pc' \in [Threads -> Pcs] /\ pc'[t] = p
         /\ \A w \in Threads \ {t} : pc'[w] = "idle" <=> pc[w] = "idle"
<1>1. /\ pc' = Notified(t, p) /\ pc' \in [Threads -> Pcs] /\ pc'[t] = p
      /\ \A w \in Threads \ {t} : /\ pc'[w] = "call" <=> pc[w] = "call"
                                  /\ pc'[w] = "idle" <=> pc[w] = "idle"
  <2>1. pc \in [Threads -> Pcs] /\ pc' = Notified(t, p) /\ p \in Pcs
    BY DEF Release, TypeOK
  <2>2. /\ Notified(t, p) \in [Threads -> Pcs] /\ Notified(t, p)[t] = p
        /\ \A w \in Threads \ {t} : /\ Notified(t, p)[w] = "call" <=> pc[w] = "call"
                                    /\ Notified(t, p)[w] = "idle" <=> pc[w] = "idle"
    BY <2>1, NotifiedOthers
  <2>3. QED
    BY <2>1, <2>2
<1>2. Cardinality(InCall') = Cardinality(InCall) - 1 /\ Cardinality(InCall) >= 1
  BY <1>1, LeaveCall
<1>3. inflight = Cardinality(InCall) /\ inflight' = inflight - 1
  BY DEF SlotAccounting, InCall, Release
<1>4. inflight' \in Nat /\ inflight' = Cardinality(InCall')
  BY <1>2, <1>3, InCallFinite
<1>5. QED
  BY <1>1, <1>3, <1>4 DEF SlotAccounting, InCall

\* penalize() and reward(): nobody enters or leaves a call.
LEMMA NotifyKeeps ==
  ASSUME TypeOK, SlotAccounting, NEW t \in Threads, NEW p \in Pcs \ {"call"},
         pc[t] # "call", pc' = Notified(t, p), inflight' = inflight
  PROVE  /\ SlotAccounting'
         /\ pc' \in [Threads -> Pcs] /\ pc'[t] = p
         /\ \A w \in Threads \ {t} : pc'[w] = "idle" <=> pc[w] = "idle"
<1>1. /\ pc' \in [Threads -> Pcs] /\ pc'[t] = p
      /\ \A w \in Threads \ {t} : /\ pc'[w] = "call" <=> pc[w] = "call"
                                  /\ pc'[w] = "idle" <=> pc[w] = "idle"
  <2>1. pc \in [Threads -> Pcs] /\ p \in Pcs
    BY DEF TypeOK
  <2>2. pc' = [w \in Threads |-> IF w = t THEN p
                                ELSE IF pc[w] = "waiting" THEN "acquire" ELSE pc[w]]
    BY DEF Notified
  <2>3. QED
    BY <2>1, <2>2 DEF Pcs
<1>2. \A w \in Threads : pc'[w] = "call" <=> pc[w] = "call"
  BY <1>1
<1>3. Cardinality(InCall') = Cardinality(InCall)
  BY <1>2, SameCalls
<1>4. SlotAccounting'
  BY <1>3 DEF SlotAccounting, InCall
<1>5. QED
  BY <1>1, <1>4

\* Another attempt changes the attempt count only.
LEMMA AgainKeeps ==
  ASSUME TypeOK, NEW t \in Threads, Again(t), ~LastAttempt(t)
  PROVE  /\ attempt' \in [Threads -> 0..MaxRetries]
         /\ UNCHANGED <<unit, todo, split, outcome, reviewed, dropped>>
<1>1. attempt[t] + 1 \in 0..MaxRetries
  BY DEF TypeOK, LastAttempt
<1>2. QED
  BY <1>1 DEF Again, TypeOK

LEMMA AfterSettlePc ==
  ASSUME NEW t \in Threads
  PROVE  /\ AfterSettle(t) \in Pcs \ {"call"}
         /\ AfterSettle(t) = "idle" <=> Len(todo[t]) = 1
BY DEF AfterSettle, Pcs

\* One step per action.
LEMMA NextPoolInv ==
  ASSUME PoolInv, [Next]_vars
  PROVE  PoolInv'
<1> USE DEF PoolInv
<1>1. CASE Submit
  <2>1. TypeOK'
    BY <1>1 DEF Submit, TypeOK, mainVars, limiterVars, workVars
  <2>2. Ownership'
    BY <1>1, WorkKept DEF Submit, workVars
  <2>3. SlotAccounting'
    BY <1>1 DEF Submit, SlotAccounting, limiterVars
  <2>4. QED
    BY <2>1, <2>2, <2>3
<1>2. CASE Collect
  <2>1. collected + 1 \in Units /\ collected + 1 \in 0..NumUnits /\ collected + 1 \in 0..submitted
    BY <1>2 DEF Collect, TypeOK, Units
  <2>2. Key[collected + 1] \in Keys
    BY <2>1 DEF Keys
  <2>3. TypeOK'
    BY <1>2, <2>1, <2>2 DEF Collect, TypeOK, limiterVars, workVars
  <2>4. Ownership'
    BY <1>2, WorkKept DEF Collect, workVars
  <2>5. SlotAccounting'
    BY <1>2 DEF Collect, SlotAccounting, limiterVars
  <2>6. QED
    BY <2>3, <2>4, <2>5
<1>3. ASSUME NEW t \in Threads, ThreadStep(t)
      PROVE  PoolInv'
  <2>1. CASE Take(t)
    <3>1. Ownership' /\ TypeOK'
      BY <2>1, TakeKeeps
    <3>2. \A w \in Threads : pc'[w] = "call" <=> pc[w] = "call"
      BY <2>1 DEF Take, TypeOK
    <3>3. SlotAccounting'
      BY <2>1, <3>2, SameCalls DEF Take, SlotAccounting, InCall, limiterVars
    <3>4. QED
      BY <3>1, <3>3
  <2>2. CASE Acquire(t)
    <3>1. /\ pc[t] = "acquire" /\ pc' = [pc EXCEPT ![t] = "call"] /\ inflight' = inflight + 1
          /\ pc' \in [Threads -> Pcs]
      BY <2>2 DEF Acquire, TypeOK, Pcs
    <3>2. /\ \A w \in Threads \ {t} : pc'[w] = "call" <=> pc[w] = "call"
          /\ pc'[t] = "call"
          /\ \A w \in Threads : pc'[w] = "idle" <=> pc[w] = "idle"
      BY <3>1 DEF TypeOK
    <3>3. Cardinality(InCall') = Cardinality(InCall) + 1
      BY <3>1, <3>2, EnterCall
    <3>4. SlotAccounting'
      BY <3>1, <3>3 DEF SlotAccounting, InCall
    <3>5. Ownership'
      BY <2>2, <3>2, WorkKept DEF Acquire, workVars
    <3>6. TypeOK'
      BY <2>2, <3>1 DEF Acquire, TypeOK, mainVars, workVars
    <3>7. QED
      BY <3>4, <3>5, <3>6
  <2>3. CASE Wait(t)
    <3>1. /\ pc' \in [Threads -> Pcs]
          /\ \A w \in Threads : pc'[w] = "call" <=> pc[w] = "call"
          /\ \A w \in Threads : pc'[w] = "idle" <=> pc[w] = "idle"
      BY <2>3 DEF Wait, TypeOK, Pcs
    <3>2. SlotAccounting'
      BY <2>3, <3>1, SameCalls DEF Wait, SlotAccounting, InCall, limiterVars
    <3>3. Ownership'
      BY <2>3, <3>1, WorkKept DEF Wait, workVars
    <3>4. TypeOK'
      BY <2>3, <3>1 DEF Wait, TypeOK, mainVars, limiterVars, workVars
    <3>5. QED
      BY <3>2, <3>3, <3>4
  <2>4. CASE HookRateLimited(t)
    <3>1. pc[t] = "call" /\ Release(t, "penalize") /\ "penalize" \in Pcs \ {"call"}
      BY <2>4 DEF HookRateLimited, Pcs
    <3>2. /\ inflight' \in Nat /\ SlotAccounting' /\ pc' \in [Threads -> Pcs]
          /\ \A w \in Threads : pc'[w] = "idle" <=> pc[w] = "idle"
      BY <3>1, ReleaseKeeps
    <3>3. Ownership'
      BY <2>4, <3>2, WorkKept DEF HookRateLimited, workVars
    <3>4. stats' \in [Counters -> Nat]
      BY <2>4, BumpType DEF HookRateLimited, TypeOK, Counters
    <3>5. TypeOK'
      BY <2>4, <3>1, <3>2, <3>4 DEF HookRateLimited, Release, TypeOK, mainVars, workVars
    <3>6. QED
      BY <3>2, <3>3, <3>5
  <2>5. CASE HookAnswers(t)
    <3>1. pc[t] = "call" /\ Release(t, "reward") /\ "reward" \in Pcs \ {"call"}
      BY <2>5 DEF HookAnswers, Pcs
    <3>2. /\ inflight' \in Nat /\ SlotAccounting' /\ pc' \in [Threads -> Pcs]
          /\ \A w \in Threads : pc'[w] = "idle" <=> pc[w] = "idle"
      BY <3>1, ReleaseKeeps
    <3>3. Ownership'
      BY <2>5, <3>2, WorkKept DEF HookAnswers, workVars
    <3>4. TypeOK'
      BY <2>5, <3>1, <3>2 DEF HookAnswers, Release, TypeOK, mainVars, workVars
    <3>5. QED
      BY <3>2, <3>3, <3>4
  <2>6. CASE HookOverflows(t)
    <3> DEFINE p == IF NumFiles(Head(todo[t])) <= 1 THEN AfterSettle(t) ELSE "acquire"
    <3>1. pc[t] = "call" /\ Release(t, p) /\ p \in Pcs \ {"call"}
      BY <2>6, AfterSettlePc DEF HookOverflows, Pcs
    <3>2. /\ inflight' \in Nat /\ SlotAccounting' /\ pc' \in [Threads -> Pcs] /\ pc'[t] = p
          /\ \A w \in Threads \ {t} : pc'[w] = "idle" <=> pc[w] = "idle"
      BY <3>1, ReleaseKeeps
    <3>3. taken' = taken /\ UNCHANGED <<mainVars, limit, stats_min, stats_max>>
      BY <2>6, <3>1 DEF HookOverflows, Release
    <3>4. CASE NumFiles(Head(todo[t])) <= 1
      <4>1. Settle(t, "failed") /\ stats' = Bump("failed")
        BY <2>6, <3>4 DEF HookOverflows
      <4>2. pc'[t] = "idle" <=> Len(todo[t]) = 1
        BY <3>2, <3>4, AfterSettlePc
      <4>3. /\ Ownership'
            /\ unit' \in [Threads -> 0..NumUnits] /\ todo' \in [Threads -> Seq(Slice)]
            /\ attempt' \in [Threads -> 0..MaxRetries] /\ split' \in [Threads -> BOOLEAN]
            /\ outcome' \in [Units -> Statuses \cup {"none"}]
            /\ reviewed' \in [Units -> SUBSET Nat] /\ dropped' \in [Units -> SUBSET Nat]
        BY <3>1, <3>2, <3>3, <4>1, <4>2, SettleKeeps DEF Statuses
      <4>4. stats' \in [Counters -> Nat]
        BY <4>1, BumpType DEF TypeOK, Counters
      <4>5. TypeOK'
        BY <3>2, <3>3, <4>3, <4>4 DEF TypeOK, mainVars
      <4>6. QED
        BY <3>2, <4>3, <4>5
    <3>5. CASE ~(NumFiles(Head(todo[t])) <= 1)
      <4>1. /\ todo' = [todo EXCEPT ![t] = Halves(Head(@)) \o Tail(@)]
            /\ attempt' = [attempt EXCEPT ![t] = 0]
            /\ split' = [split EXCEPT ![t] = TRUE]
            /\ stats' = Bump("overflow_splits")
            /\ UNCHANGED <<unit, outcome, reviewed, dropped>>
        BY <2>6, <3>5 DEF HookOverflows
      <4>2. NumFiles(Head(todo[t])) > 1
        <5>1. Head(todo[t]).lo \in Nat /\ Head(todo[t]).hi \in Nat
          BY <3>1, BusyFacts
        <5>2. QED
          BY <5>1, <3>5 DEF NumFiles
      <4>3. \A w \in Threads : pc'[w] = "idle" <=> pc[w] = "idle"
        BY <3>1, <3>2, <3>5
      <4>4. Ownership' /\ todo' \in [Threads -> Seq(Slice)]
        BY <3>1, <3>3, <4>1, <4>2, <4>3, SplitKeeps
      <4>5. stats' \in [Counters -> Nat]
        BY <4>1, BumpType DEF TypeOK, Counters
      <4>6. attempt' \in [Threads -> 0..MaxRetries] /\ split' \in [Threads -> BOOLEAN]
        BY <4>1 DEF TypeOK
      <4>7. TypeOK'
        BY <3>2, <3>3, <4>1, <4>4, <4>5, <4>6 DEF TypeOK, mainVars
      <4>8. QED
        BY <3>2, <4>4, <4>7
    <3>6. QED
      BY <3>4, <3>5
  <2>7. CASE HookErrors(t)
    <3> DEFINE p == IF LastAttempt(t) THEN AfterSettle(t) ELSE "acquire"
    <3>1. pc[t] = "call" /\ Release(t, p) /\ p \in Pcs \ {"call"}
      BY <2>7, AfterSettlePc DEF HookErrors, Pcs
    <3>2. /\ inflight' \in Nat /\ SlotAccounting' /\ pc' \in [Threads -> Pcs] /\ pc'[t] = p
          /\ \A w \in Threads \ {t} : pc'[w] = "idle" <=> pc[w] = "idle"
      BY <3>1, ReleaseKeeps
    <3>3. taken' = taken /\ UNCHANGED <<mainVars, limit, stats_min, stats_max>>
      BY <2>7, <3>1 DEF HookErrors, Release
    <3>4. CASE LastAttempt(t)
      <4>1. Settle(t, "failed") /\ stats' = [stats EXCEPT !.retries = @ + 1, !.failed = @ + 1]
        BY <2>7, <3>4 DEF HookErrors
      <4>2. pc'[t] = "idle" <=> Len(todo[t]) = 1
        BY <3>2, <3>4, AfterSettlePc
      <4>3. /\ Ownership'
            /\ unit' \in [Threads -> 0..NumUnits] /\ todo' \in [Threads -> Seq(Slice)]
            /\ attempt' \in [Threads -> 0..MaxRetries] /\ split' \in [Threads -> BOOLEAN]
            /\ outcome' \in [Units -> Statuses \cup {"none"}]
            /\ reviewed' \in [Units -> SUBSET Nat] /\ dropped' \in [Units -> SUBSET Nat]
        BY <3>1, <3>2, <3>3, <4>1, <4>2, SettleKeeps DEF Statuses
      <4>4. stats' \in [Counters -> Nat]
        BY <4>1, BumpBothType DEF TypeOK
      <4>5. TypeOK'
        BY <3>2, <3>3, <4>3, <4>4 DEF TypeOK, mainVars
      <4>6. QED
        BY <3>2, <4>3, <4>5
    <3>5. CASE ~LastAttempt(t)
      <4>1. Again(t) /\ stats' = Bump("retries")
        BY <2>7, <3>5 DEF HookErrors
      <4>2. attempt' \in [Threads -> 0..MaxRetries] /\ UNCHANGED <<unit, todo, split, outcome, reviewed, dropped>>
        BY <4>1, <3>5, AgainKeeps
      <4>3. \A w \in Threads : pc'[w] = "idle" <=> pc[w] = "idle"
        BY <3>1, <3>2, <3>5
      <4>4. Ownership'
        BY <3>3, <4>2, <4>3, WorkKept
      <4>5. stats' \in [Counters -> Nat]
        BY <4>1, BumpType DEF TypeOK, Counters
      <4>6. TypeOK'
        BY <3>2, <3>3, <4>2, <4>5 DEF TypeOK, mainVars
      <4>7. QED
        BY <3>2, <4>4, <4>6
    <3>6. QED
      BY <3>4, <3>5
  <2>8. CASE Penalize(t)
    <3> DEFINE p == IF LastAttempt(t) THEN AfterSettle(t) ELSE "acquire"
    <3>1. /\ pc[t] = "penalize" /\ pc' = Notified(t, p) /\ p \in Pcs \ {"call"}
          /\ limit' = MaxOf(MinLimit, limit \div 2) /\ stats_min' = MinOf(stats_min, limit')
          /\ inflight' = inflight /\ taken' = taken /\ stats_max' = stats_max /\ UNCHANGED mainVars
      BY <2>8, AfterSettlePc DEF Penalize, Pcs
    <3>2. /\ SlotAccounting' /\ pc' \in [Threads -> Pcs] /\ pc'[t] = p
          /\ \A w \in Threads \ {t} : pc'[w] = "idle" <=> pc[w] = "idle"
      BY <3>1, NotifyKeeps
    <3>3. limit' \in Nat /\ stats_min' \in Nat
      BY <3>1, MaxWorkersType DEF MaxOf, MinOf, TypeOK
    <3>4. CASE LastAttempt(t)
      <4>1. Settle(t, "failed") /\ stats' = [stats EXCEPT !.retries = @ + 1, !.failed = @ + 1]
        BY <2>8, <3>4 DEF Penalize
      <4>2. pc'[t] = "idle" <=> Len(todo[t]) = 1
        BY <3>2, <3>4, AfterSettlePc
      <4>3. /\ Ownership'
            /\ unit' \in [Threads -> 0..NumUnits] /\ todo' \in [Threads -> Seq(Slice)]
            /\ attempt' \in [Threads -> 0..MaxRetries] /\ split' \in [Threads -> BOOLEAN]
            /\ outcome' \in [Units -> Statuses \cup {"none"}]
            /\ reviewed' \in [Units -> SUBSET Nat] /\ dropped' \in [Units -> SUBSET Nat]
        BY <3>1, <3>2, <4>1, <4>2, SettleKeeps DEF Statuses
      <4>4. stats' \in [Counters -> Nat]
        BY <4>1, BumpBothType DEF TypeOK
      <4>5. TypeOK'
        BY <3>1, <3>2, <3>3, <4>3, <4>4 DEF TypeOK, mainVars
      <4>6. QED
        BY <3>2, <4>3, <4>5
    <3>5. CASE ~LastAttempt(t)
      <4>1. Again(t) /\ stats' = Bump("retries")
        BY <2>8, <3>5 DEF Penalize
      <4>2. attempt' \in [Threads -> 0..MaxRetries] /\ UNCHANGED <<unit, todo, split, outcome, reviewed, dropped>>
        BY <4>1, <3>5, AgainKeeps
      <4>3. \A w \in Threads : pc'[w] = "idle" <=> pc[w] = "idle"
        BY <3>1, <3>2, <3>5
      <4>4. Ownership'
        BY <3>1, <4>2, <4>3, WorkKept
      <4>5. stats' \in [Counters -> Nat]
        BY <4>1, BumpType DEF TypeOK, Counters
      <4>6. TypeOK'
        BY <3>1, <3>2, <3>3, <4>2, <4>5 DEF TypeOK, mainVars
      <4>7. QED
        BY <3>2, <4>4, <4>6
    <3>6. QED
      BY <3>4, <3>5
  <2>9. ASSUME NEW status \in Answers, Reward(t, status)
        PROVE  PoolInv'
    <3>1. /\ pc[t] = "reward" /\ pc' = Notified(t, AfterSettle(t)) /\ AfterSettle(t) \in Pcs \ {"call"}
          /\ limit' = (IF limit < MaxWorkers THEN limit + 1 ELSE limit)
          /\ stats_max' = MaxOf(stats_max, limit')
          /\ inflight' = inflight /\ taken' = taken /\ stats_min' = stats_min /\ UNCHANGED mainVars
          /\ Settle(t, status) /\ stats' = Bump("dispatched")
      BY <2>9, AfterSettlePc DEF Reward
    <3>2. /\ SlotAccounting' /\ pc' \in [Threads -> Pcs] /\ pc'[t] = AfterSettle(t)
          /\ \A w \in Threads \ {t} : pc'[w] = "idle" <=> pc[w] = "idle"
      BY <3>1, NotifyKeeps
    <3>3. limit' \in Nat /\ stats_max' \in Nat
      BY <3>1, MaxWorkersType DEF MaxOf, TypeOK
    <3>4. pc'[t] = "idle" <=> Len(todo[t]) = 1
      BY <3>2, AfterSettlePc
    <3>5. /\ Ownership'
          /\ unit' \in [Threads -> 0..NumUnits] /\ todo' \in [Threads -> Seq(Slice)]
          /\ attempt' \in [Threads -> 0..MaxRetries] /\ split' \in [Threads -> BOOLEAN]
          /\ outcome' \in [Units -> Statuses \cup {"none"}]
          /\ reviewed' \in [Units -> SUBSET Nat] /\ dropped' \in [Units -> SUBSET Nat]
      BY <3>1, <3>2, <3>4, SettleKeeps
    <3>6. stats' \in [Counters -> Nat]
      BY <3>1, BumpType DEF TypeOK, Counters
    <3>7. TypeOK'
      BY <3>1, <3>2, <3>3, <3>5, <3>6 DEF TypeOK, mainVars
    <3>8. QED
      BY <3>2, <3>5, <3>7
  <2>10. QED
    BY <1>3, <2>1, <2>2, <2>3, <2>4, <2>5, <2>6, <2>7, <2>8, <2>9 DEF ThreadStep, HookReturns
<1>4. CASE UNCHANGED vars
  <2>1. TypeOK'
    BY <1>4 DEF vars, TypeOK, mainVars, limiterVars, workVars
  <2>2. Ownership'
    BY <1>4, WorkKept DEF vars, workVars
  <2>3. SlotAccounting'
    BY <1>4 DEF vars, SlotAccounting, limiterVars
  <2>4. QED
    BY <2>1, <2>2, <2>3
<1>5. QED
  BY <1>1, <1>2, <1>3, <1>4 DEF Next, Done

\* Slots: inflight is the number of threads inside a hook call, on every path
\* of _dispatch_one and for every number of threads; with it the types and
\* the ownership of units hold.
THEOREM PoolSafety == Spec => [](TypeOK /\ Ownership /\ SlotAccounting)
<1>1. PoolInv /\ [Next]_vars => PoolInv'
  BY NextPoolInv
<1>2. QED
  BY <1>1, InitPoolInv, PTL DEF Spec, PoolInv

\* acquire() and release() pair on every path of _dispatch_one: inflight is the
\* number of threads inside a hook call.
THEOREM SlotsAccounted == Spec => []SlotAccounting
<1>1. PoolInv => SlotAccounting
  BY DEF PoolInv
<1>2. PoolInv /\ [Next]_vars => PoolInv'
  BY NextPoolInv
<1>3. QED
  BY <1>1, <1>2, InitPoolInv, PTL DEF Spec

-----------------------------------------------------------------------------
(* The limiter.                                                            *)

LimiterInv == LimiterBounds /\ NoLostWakeup

LEMMA InitLimiterInv == Init => LimiterInv
BY MaxWorkersType DEF Init, LimiterInv, LimiterBounds, NoLostWakeup

\* After a notify_all nobody is blocked in acquire().
LEMMA NotifiedWakesAll ==
  ASSUME NEW t \in Threads, NEW p, p # "waiting", pc' = Notified(t, p)
  PROVE  NoLostWakeup'
BY DEF Notified, NoLostWakeup

LEMMA NextLimiterInv ==
  ASSUME PoolInv, LimiterInv, [Next]_vars
  PROVE  LimiterInv'
<1> USE DEF LimiterInv
<1>0. TypeOK /\ MaxWorkers \in Nat /\ MinLimit \in 1..MaxWorkers
  BY MaxWorkersType DEF PoolInv
<1>1. CASE Submit \/ Collect \/ UNCHANGED vars
  BY <1>1 DEF Submit, Collect, vars, limiterVars, LimiterBounds, NoLostWakeup
<1>2. ASSUME NEW t \in Threads, ThreadStep(t)
      PROVE  LimiterInv'
  <2>1. CASE Take(t)
    BY <2>1, <1>0 DEF Take, TypeOK, limiterVars, LimiterBounds, NoLostWakeup
  <2>2. CASE Acquire(t)
    <3>1. LimiterBounds'
      BY <2>2 DEF Acquire, LimiterBounds
    <3>2. NoLostWakeup'
      BY <2>2, <1>0 DEF Acquire, TypeOK, NoLostWakeup
    <3>3. QED
      BY <3>1, <3>2
  <2>3. CASE Wait(t)
    BY <2>3, <1>0 DEF Wait, TypeOK, limiterVars, LimiterBounds, NoLostWakeup
  <2>4. CASE HookReturns(t)
    <3>1. LimiterBounds'
      BY <2>4 DEF HookReturns, HookRateLimited, HookOverflows, HookErrors, HookAnswers, Release, LimiterBounds
    <3>2. \E p \in Pcs \ {"waiting"} : pc' = Notified(t, p)
      BY <2>4 DEF HookReturns, HookRateLimited, HookOverflows, HookErrors, HookAnswers, Release, AfterSettle, Pcs
    <3>3. QED
      BY <3>1, <3>2, NotifiedWakesAll
  <2>5. CASE Penalize(t)
    <3>1. limit' = MaxOf(MinLimit, limit \div 2) /\ stats_min' = MinOf(stats_min, limit') /\ stats_max' = stats_max
      BY <2>5 DEF Penalize
    <3>2. limit \div 2 <= limit /\ limit \div 2 \in Nat
      BY <1>0 DEF TypeOK
    <3>3. LimiterBounds'
      BY <3>1, <3>2, <1>0 DEF MaxOf, MinOf, LimiterBounds, TypeOK
    <3>4. \E p \in Pcs \ {"waiting"} : pc' = Notified(t, p)
      BY <2>5 DEF Penalize, AfterSettle, Pcs
    <3>5. QED
      BY <3>3, <3>4, NotifiedWakesAll
  <2>6. ASSUME NEW status \in Answers, Reward(t, status)
        PROVE  LimiterInv'
    <3>1. LimiterBounds'
      BY <2>6, <1>0 DEF Reward, MaxOf, LimiterBounds, TypeOK
    <3>2. \E p \in Pcs \ {"waiting"} : pc' = Notified(t, p)
      BY <2>6 DEF Reward, AfterSettle, Pcs
    <3>3. QED
      BY <3>1, <3>2, NotifiedWakesAll
  <2>7. QED
    BY <1>2, <2>1, <2>2, <2>3, <2>4, <2>5, <2>6 DEF ThreadStep
<1>3. QED
  BY <1>1, <1>2 DEF Next, Done

\* The AIMD limit stays between max(1, min_workers) and max_workers however
\* penalties and rewards of different threads interleave, and no thread
\* sleeps in acquire() while a slot is free.
THEOREM LimiterSafety == Spec => [](LimiterBounds /\ NoLostWakeup)
<1>1. PoolInv /\ LimiterInv /\ [Next]_vars => LimiterInv'
  BY NextLimiterInv
<1>2. PoolInv /\ [Next]_vars => PoolInv'
  BY NextPoolInv
<1>3. QED
  BY <1>1, <1>2, InitPoolInv, InitLimiterInv, PTL DEF Spec, LimiterInv

-----------------------------------------------------------------------------
(* The files.                                                              *)

\* The only steps that change a result or settle a file are the ends of a
\* slice; Collect is the only one that moves collected.
LEMMA StepKinds ==
  ASSUME PoolInv, [Next]_vars
  PROVE  \/ UNCHANGED <<outcome, reviewed, dropped, collected>>
         \/ Collect
         \/ \E t \in Threads, status \in Statuses :
              pc[t] # "idle" /\ Settle(t, status) /\ collected' = collected
<1> DEFINE Goal == \/ UNCHANGED <<outcome, reviewed, dropped, collected>>
                   \/ Collect
                   \/ \E t \in Threads, status \in Statuses :
                        pc[t] # "idle" /\ Settle(t, status) /\ collected' = collected
<1>1. CASE Submit \/ Collect \/ UNCHANGED vars
  BY <1>1 DEF Submit, vars, mainVars, workVars
<1>2. ASSUME NEW t \in Threads, ThreadStep(t)
      PROVE  Goal
  <2>1. CASE Take(t) \/ Acquire(t) \/ Wait(t)
    BY <2>1 DEF Take, Acquire, Wait, mainVars, workVars
  <2>2. CASE HookRateLimited(t) \/ HookAnswers(t)
    BY <2>2 DEF HookRateLimited, HookAnswers, mainVars, workVars
  <2>3. CASE HookOverflows(t)
    BY <2>3 DEF HookOverflows, mainVars, Statuses
  <2>4. CASE HookErrors(t)
    BY <2>4 DEF HookErrors, Again, mainVars, Statuses
  <2>5. CASE Penalize(t)
    BY <2>5 DEF Penalize, Again, mainVars, Statuses
  <2>6. ASSUME NEW status \in Answers, Reward(t, status)
        PROVE  Goal
    BY <2>6 DEF Reward, mainVars
  <2>7. QED
    BY <1>2, <2>1, <2>2, <2>3, <2>4, <2>5, <2>6 DEF ThreadStep, HookReturns
<1>3. QED
  BY <1>1, <1>2 DEF Next, Done

\* What the end of a slice does to its unit, in the terms of UnitCoverage.
LEMMA SettleEffect ==
  ASSUME PoolInv, NEW t \in Threads, NEW status \in Statuses, pc[t] # "idle", Settle(t, status),
         NEW u, u = unit[t], NEW s, s = todo[t][1]
  PROVE  /\ u \in Units /\ outcome[u] = "none" /\ s \in Slice
         /\ reviewed[u] \cup dropped[u] = 1..(s.lo - 1)
         /\ 1 <= s.lo /\ s.lo <= s.hi + 1 /\ s.hi <= Size[u] /\ Size[u] \in Nat
         /\ reviewed' = IF status = "completed" THEN [reviewed EXCEPT ![u] = @ \cup FilesOf(s)] ELSE reviewed
         /\ dropped' = IF status = "completed" THEN dropped ELSE [dropped EXCEPT ![u] = @ \cup FilesOf(s)]
         /\ \/ outcome' = outcome
            \/ /\ s.hi = Size[u]
               /\ \E result \in Statuses :
                    /\ outcome' = [outcome EXCEPT ![u] = result]
                    /\ result # "completed" => status # "completed" /\ reviewed[u] = {}
<1>1. /\ WorkLeft(t) /\ u \in Units /\ Size[u] \in Nat
      /\ todo[t] \in Seq(Slice) /\ todo[t] # <<>> /\ Head(todo[t]) = s /\ s \in Slice
      /\ s.lo \in Nat /\ s.hi \in Nat
  BY BusyFacts DEF PoolInv, WorkLeft
<1>2. Contiguous(todo[t], Size[u]) /\ reviewed[u] \cup dropped[u] = 1..(s.lo - 1) /\ outcome[u] = "none"
  BY <1>1 DEF WorkLeft
<1>3. Len(todo[t]) = 1 \/ (Len(todo[t]) > 1 /\ Len(todo[t]) # 1)
  BY <1>1, SliceSeq
<1>4. 1 <= s.lo /\ s.lo <= s.hi + 1 /\ s.hi <= Size[u]
  <2>1. 1 \in 1..Len(todo[t])
    BY <1>3
  <2>2. QED
    BY <2>1, <1>2 DEF Contiguous
<1>5. /\ reviewed' = IF status = "completed" THEN [reviewed EXCEPT ![u] = @ \cup FilesOf(s)] ELSE reviewed
      /\ dropped' = IF status = "completed" THEN dropped ELSE [dropped EXCEPT ![u] = @ \cup FilesOf(s)]
      /\ outcome' = IF Len(todo[t]) = 1
                    THEN [outcome EXCEPT ![u] = IF split[t] THEN "completed" ELSE status]
                    ELSE outcome
  BY <1>1 DEF Settle
<1>7. \/ outcome' = outcome
      \/ /\ s.hi = Size[u]
         /\ \E result \in Statuses :
              /\ outcome' = [outcome EXCEPT ![u] = result]
              /\ result # "completed" => status # "completed" /\ reviewed[u] = {}
  <2>1. CASE Len(todo[t]) = 1
    <3>1. s.hi = Size[u]
      BY <2>1, <1>2 DEF Contiguous
    <3>2. CASE split[t]
      BY <2>1, <3>1, <3>2, <1>5 DEF Statuses
    <3>3. CASE ~split[t]
      <4>1. s.lo = 1
        BY <3>3, <1>1 DEF WorkLeft
      <4>2. reviewed[u] = {}
        BY <4>1, <1>2
      <4>3. outcome' = [outcome EXCEPT ![u] = status]
        BY <2>1, <3>3, <1>5
      <4>4. QED
        BY <3>1, <4>2, <4>3
    <3>4. QED
      BY <3>2, <3>3
  <2>2. CASE Len(todo[t]) # 1
    BY <2>2, <1>5
  <2>3. QED
    BY <2>1, <2>2
<1>8. QED
  BY <1>1, <1>2, <1>4, <1>5, <1>7

FilesInv == FilesSettled /\ NoHiddenReview

LEMMA InitFilesInv == Init => FilesInv
BY DEF Init, FilesInv, FilesSettled, NoHiddenReview

LEMMA NextFilesInv ==
  ASSUME PoolInv, FilesInv, [Next]_vars
  PROVE  FilesInv'
<1>1. CASE UNCHANGED <<outcome, reviewed, dropped, collected>>
  BY <1>1 DEF FilesInv, FilesSettled, NoHiddenReview
<1>2. CASE Collect
  BY <1>2 DEF Collect, workVars, FilesInv, FilesSettled, NoHiddenReview
<1>3. ASSUME NEW t \in Threads, NEW status \in Statuses, pc[t] # "idle", Settle(t, status)
      PROVE  FilesInv'
  <2> DEFINE u == unit[t]
             s == todo[t][1]
  <2>1. /\ u \in Units /\ outcome[u] = "none" /\ s \in Slice
        /\ reviewed[u] \cup dropped[u] = 1..(s.lo - 1)
        /\ 1 <= s.lo /\ s.lo <= s.hi + 1 /\ s.hi <= Size[u] /\ Size[u] \in Nat
        /\ reviewed' = IF status = "completed" THEN [reviewed EXCEPT ![u] = @ \cup FilesOf(s)] ELSE reviewed
        /\ dropped' = IF status = "completed" THEN dropped ELSE [dropped EXCEPT ![u] = @ \cup FilesOf(s)]
        /\ \/ outcome' = outcome
           \/ /\ s.hi = Size[u]
              /\ \E result \in Statuses :
                   /\ outcome' = [outcome EXCEPT ![u] = result]
                   /\ result # "completed" => status # "completed" /\ reviewed[u] = {}
    BY <1>3, SettleEffect, SMTT(20)
  <2> HIDE DEF u, s
  <2>2. \A v \in Units \ {u} : outcome'[v] = outcome[v] /\ reviewed'[v] = reviewed[v] /\ dropped'[v] = dropped[v]
    BY <2>1 DEF PoolInv, TypeOK
  <2>3. reviewed'[u] \cup dropped'[u] = 1..s.hi
    <3>1. reviewed'[u] \cup dropped'[u] = (reviewed[u] \cup dropped[u]) \cup FilesOf(s)
      BY <2>1 DEF PoolInv, TypeOK
    <3>2. QED
      BY <3>1, <2>1, PrefixGrows
  <2>4. reviewed'[u] \cap dropped'[u] = {}
    <3>1. FilesOf(s) \cap (reviewed[u] \cup dropped[u]) = {}
      BY <2>1 DEF FilesOf, Slice
    <3>2. reviewed[u] \cap dropped[u] = {}
      BY <2>1 DEF FilesInv, FilesSettled
    <3>3. QED
      BY <3>1, <3>2, <2>1 DEF PoolInv, TypeOK
  <2>5. outcome'[u] # "none" => reviewed'[u] \cup dropped'[u] = 1..Size[u]
    <3>1. CASE outcome' = outcome
      BY <3>1, <2>1
    <3>2. CASE s.hi = Size[u]
      BY <3>2, <2>3
    <3>3. QED
      BY <3>1, <3>2, <2>1
  <2>6. outcome'[u] \in {"failed", "skipped"} => reviewed'[u] = {}
    <3>1. CASE outcome' = outcome
      BY <3>1, <2>1
    <3>2. ASSUME NEW result \in Statuses, outcome' = [outcome EXCEPT ![u] = result],
                 result # "completed" => status # "completed" /\ reviewed[u] = {}
          PROVE  outcome'[u] \in {"failed", "skipped"} => reviewed'[u] = {}
      BY <3>2, <2>1 DEF PoolInv, TypeOK
    <3>3. QED
      BY <3>1, <3>2, <2>1
  <2>7. QED
    BY <2>2, <2>4, <2>5, <2>6 DEF FilesInv, FilesSettled, NoHiddenReview
<1>4. QED
  BY <1>1, <1>2, <1>3, StepKinds

\* Every file of every unit with a result is reviewed or given up, never both
\* and never neither, through any number of nested overflow splits; a unit
\* that reports "failed" or "skipped" takes no reviewed file with it.
THEOREM FileCoverage == Spec => [](FilesSettled /\ NoHiddenReview)
<1>1. PoolInv /\ FilesInv /\ [Next]_vars => FilesInv'
  BY NextFilesInv
<1>2. PoolInv /\ [Next]_vars => PoolInv'
  BY NextPoolInv
<1>3. QED
  BY <1>1, <1>2, InitPoolInv, InitFilesInv, PTL DEF Spec, FilesInv

\* A unit's result and its settled files never change once it has a result.
THEOREM ResultsAreFinal == Spec => ResolvedOnce
<1>1. PoolInv /\ [Next]_vars =>
        [\A u \in Units : outcome[u] # "none" =>
           outcome'[u] = outcome[u] /\ reviewed'[u] = reviewed[u] /\ dropped'[u] = dropped[u]]_vars
  <2> SUFFICES ASSUME PoolInv, [Next]_vars, NEW u \in Units, outcome[u] # "none"
               PROVE  outcome'[u] = outcome[u] /\ reviewed'[u] = reviewed[u] /\ dropped'[u] = dropped[u]
    OBVIOUS
  <2>1. CASE UNCHANGED <<outcome, reviewed, dropped, collected>>
    BY <2>1
  <2>2. CASE Collect
    BY <2>2 DEF Collect, workVars
  <2>3. ASSUME NEW t \in Threads, NEW status \in Statuses, pc[t] # "idle", Settle(t, status)
        PROVE  outcome'[u] = outcome[u] /\ reviewed'[u] = reviewed[u] /\ dropped'[u] = dropped[u]
    <3> DEFINE v == unit[t]
               s == todo[t][1]
    <3>1. /\ v \in Units /\ outcome[v] = "none"
          /\ reviewed' = IF status = "completed" THEN [reviewed EXCEPT ![v] = @ \cup FilesOf(s)] ELSE reviewed
          /\ dropped' = IF status = "completed" THEN dropped ELSE [dropped EXCEPT ![v] = @ \cup FilesOf(s)]
          /\ \/ outcome' = outcome
             \/ \E result \in Statuses : outcome' = [outcome EXCEPT ![v] = result]
      BY <2>3, SettleEffect
    <3> HIDE DEF v, s
    <3>2. u # v
      BY <3>1
    <3>3. QED
      BY <3>1, <3>2 DEF PoolInv, TypeOK
  <2>4. QED
    BY <2>1, <2>2, <2>3, StepKinds
<1>2. PoolInv /\ [Next]_vars => PoolInv'
  BY NextPoolInv
<1>3. QED
  BY <1>1, <1>2, InitPoolInv, PTL DEF Spec, ResolvedOnce

-----------------------------------------------------------------------------
(* The pool implements UnitCoverage.                                       *)

\* The main thread only reads futures that are resolved.
CollectInv == \A u \in Units : u <= collected => outcome[u] # "none"

LEMMA NextCollectInv ==
  ASSUME PoolInv, CollectInv, [Next]_vars
  PROVE  CollectInv'
<1>1. CASE UNCHANGED <<outcome, reviewed, dropped, collected>>
  BY <1>1 DEF CollectInv
<1>2. CASE Collect
  <2>1. collected' = collected + 1 /\ outcome[collected + 1] # "none" /\ outcome' = outcome
    BY <1>2 DEF Collect, workVars
  <2>2. \A u \in Units : u <= collected + 1 => u <= collected \/ u = collected + 1
    BY DEF Units, PoolInv, TypeOK
  <2>3. QED
    BY <2>1, <2>2 DEF CollectInv
<1>3. ASSUME NEW t \in Threads, NEW status \in Statuses, pc[t] # "idle", Settle(t, status),
             collected' = collected
      PROVE  CollectInv'
  <2> DEFINE v == unit[t]
             s == todo[t][1]
  <2>1. /\ v \in Units /\ outcome[v] = "none"
        /\ \/ outcome' = outcome
           \/ \E result \in Statuses : outcome' = [outcome EXCEPT ![v] = result]
    BY <1>3, SettleEffect
  <2> HIDE DEF v
  <2>2. \A u \in Units : outcome[u] # "none" => outcome'[u] # "none"
    BY <2>1 DEF PoolInv, TypeOK
  <2>3. QED
    BY <2>2, <1>3 DEF CollectInv
<1>4. QED
  BY <1>1, <1>2, <1>3, StepKinds

\* The end of a slice settles its files in the abstract specification.
LEMMA SettleImplements ==
  ASSUME PoolInv, NEW t \in Threads, NEW status \in Statuses, pc[t] # "idle", Settle(t, status),
         collected' = collected
  PROVE  Coverage!Next
<1>u. PICK u : u = unit[t]
  OBVIOUS
<1>s. PICK s : s = todo[t][1]
  OBVIOUS
<1>0. PoolInv /\ pc[t] # "idle" /\ Settle(t, status) /\ status \in Statuses /\ t \in Threads
  OBVIOUS
<1>1. /\ u \in Units /\ outcome[u] = "none" /\ s \in Slice
      /\ reviewed[u] \cup dropped[u] = 1..(s.lo - 1)
      /\ 1 <= s.lo /\ s.lo <= s.hi + 1 /\ s.hi <= Size[u] /\ Size[u] \in Nat
      /\ reviewed' = IF status = "completed" THEN [reviewed EXCEPT ![u] = @ \cup FilesOf(s)] ELSE reviewed
      /\ dropped' = IF status = "completed" THEN dropped ELSE [dropped EXCEPT ![u] = @ \cup FilesOf(s)]
      /\ \/ outcome' = outcome
         \/ /\ s.hi = Size[u]
            /\ \E result \in Statuses :
                 /\ outcome' = [outcome EXCEPT ![u] = result]
                 /\ result # "completed" => status # "completed" /\ reviewed[u] = {}
  BY <1>0, <1>u, <1>s, SettleEffect
<1> DEFINE ok == status = "completed"
<1>2. u \in Coverage!Units /\ ok \in BOOLEAN /\ UNCHANGED Finished
  BY <1>1 DEF Coverage!Units, Units, Finished
<1>3. Coverage!Open(u) = s.lo .. Size[u]
  BY <1>1 DEF Coverage!Open, Coverage!Files, Slice
<1>4. FilesOf(s) \subseteq Coverage!Open(u) /\ FilesOf(s) \in SUBSET Coverage!Files(u)
  BY <1>1, <1>3 DEF FilesOf, Slice, Coverage!Files
<1>5. Coverage!SettleFiles(u, FilesOf(s), ok)
  BY <1>1, <1>4 DEF Coverage!SettleFiles
<1>6. CASE outcome' = outcome
  <2>1. Coverage!SettleSome(u, FilesOf(s), ok)
    BY <1>2, <1>5, <1>6 DEF Coverage!SettleSome
  <2>2. QED
    BY <2>1, <1>2, <1>4 DEF Coverage!Next
<1>7. ASSUME s.hi = Size[u], NEW result \in Statuses, outcome' = [outcome EXCEPT ![u] = result],
             result # "completed" => status # "completed" /\ reviewed[u] = {}
      PROVE  Coverage!Next
  <2>1. Coverage!Open(u) = FilesOf(s)
    BY <1>3, <1>7 DEF FilesOf
  <2>2. result # "completed" => reviewed'[u] = {}
    BY <1>1, <1>7
  <2>3. Coverage!SettleLast(u, ok, result)
    BY <1>2, <1>5, <1>7, <2>1, <2>2 DEF Coverage!SettleLast
  <2>4. QED
    BY <2>3, <1>2, <1>7 DEF Coverage!Next, Statuses
<1>8. QED
  BY <1>1, <1>6, <1>7

\* The pool keeps the promise of _dispatch_units: Coverage!Spec.
THEOREM PoolImplementsCoverage == Spec => ImplementsCoverage
<1>1. Init => Coverage!Init /\ CollectInv
  BY DEF Init, Coverage!Init, Coverage!Units, Units, Finished, CollectInv
<1>2. PoolInv /\ CollectInv /\ [Next]_vars => [Coverage!Next]_Coverage!vars
  <2> SUFFICES ASSUME PoolInv, CollectInv, [Next]_vars
               PROVE  [Coverage!Next]_Coverage!vars
    OBVIOUS
  <2>1. CASE UNCHANGED <<outcome, reviewed, dropped, collected>>
    BY <2>1 DEF Coverage!vars, Finished
  <2>2. CASE Collect
    <3>1. /\ collected' = collected + 1 /\ collected < NumUnits /\ outcome[collected + 1] # "none"
          /\ UNCHANGED <<outcome, reviewed, dropped>>
      BY <2>2 DEF Collect, workVars
    <3>2. ~Finished
      BY <3>1 DEF Finished, PoolInv, TypeOK
    <3>3. CASE ~Finished'
      <4>1. (collected' = NumUnits) = (collected = NumUnits)
        BY <3>2, <3>3 DEF Finished
      <4>2. UNCHANGED Finished
        BY <4>1, Zenon DEF Finished
      <4>3. QED
        BY <3>1, <4>2 DEF Coverage!vars
    <3>4. CASE Finished'
      <4>1. \A u \in Units : u <= collected \/ u = collected + 1
        BY <3>1, <3>4 DEF Finished, Units, PoolInv, TypeOK
      <4>2. \A u \in Coverage!Units : outcome[u] # "none"
        BY <4>1, <3>1 DEF CollectInv, Coverage!Units, Units
      <4>3. Coverage!Return
        BY <3>1, <3>2, <3>4, <4>2 DEF Coverage!Return
      <4>4. QED
        BY <4>3 DEF Coverage!Next
    <3>5. QED
      BY <3>3, <3>4
  <2>3. ASSUME NEW t \in Threads, NEW status \in Statuses, pc[t] # "idle", Settle(t, status),
               collected' = collected
        PROVE  Coverage!Next
    BY <2>3, SettleImplements
  <2>4. QED
    BY <2>1, <2>2, <2>3, StepKinds
<1>3. PoolInv /\ [Next]_vars => PoolInv'
  BY NextPoolInv
<1>4. PoolInv /\ CollectInv /\ [Next]_vars => CollectInv'
  BY NextCollectInv
<1>5. QED
  BY <1>1, <1>2, <1>3, <1>4, InitPoolInv, PTL DEF Spec, ImplementsCoverage, Coverage!Spec

-----------------------------------------------------------------------------
(* The counters.                                                           *)

Todos == [t \in Threads |-> Len(todo[t])]
Penalized == {t \in Threads : pc[t] = "penalize"}

\* A sum over the threads is a natural number, and changes with one of its
\* summands by as much.
LEMMA SumChanges ==
  ASSUME NEW f \in [Threads -> Nat], NEW g \in [Threads -> Nat], NEW t \in Threads,
         \A w \in Threads \ {t} : g[w] = f[w]
  PROVE  /\ SumOverThreads(f) \in Nat /\ SumOverThreads(g) \in Nat
         /\ SumOverThreads(g) + f[t] = SumOverThreads(f) + g[t]
<1> DEFINE Row(n, w) == {w} \X (1..n[w])
           Rest == UNION {Row(f, w) : w \in Threads \ {t}}
<1>1. \A n \in [Threads -> Nat] : \A w \in Threads :
        IsFiniteSet(Row(n, w)) /\ Cardinality(Row(n, w)) = n[w]
  <2> SUFFICES ASSUME NEW n \in [Threads -> Nat], NEW w \in Threads
               PROVE  IsFiniteSet(Row(n, w)) /\ Cardinality(Row(n, w)) = n[w]
    OBVIOUS
  <2>1. n[w] \in Nat /\ 1 \in Int /\ n[w] \in Int
    OBVIOUS
  <2>2. IsFiniteSet(1..n[w]) /\ Cardinality(1..n[w]) = n[w]
    BY <2>1, FS_Interval
  <2>3. IsFiniteSet({w}) /\ Cardinality({w}) = 1
    BY FS_Singleton
  <2>4. IsFiniteSet(Row(n, w)) /\ Cardinality(Row(n, w)) = Cardinality({w}) * Cardinality(1..n[w])
    BY <2>2, <2>3, FS_Product
  <2>5. QED
    BY <2>1, <2>2, <2>3, <2>4
<1>2. IsFiniteSet(Rest)
  <2> DEFINE row == [w \in Threads \ {t} |-> Row(f, w)]
             rows == {Row(f, w) : w \in Threads \ {t}}
  <2>1. row \in Surjection(Threads \ {t}, rows)
    BY DEF Surjection
  <2>2. IsFiniteSet(Threads \ {t})
    BY FS_Subset
  <2>3. IsFiniteSet(rows)
    BY <2>1, <2>2, FS_Surjection
  <2>4. \A T \in rows : IsFiniteSet(T)
    BY <1>1
  <2>5. QED
    BY <2>3, <2>4, FS_UNION
<1>3. \A n \in {f, g} : SumOverThreads(n) = Cardinality(Rest) + n[t]
  <2> SUFFICES ASSUME NEW n \in {f, g}
               PROVE  SumOverThreads(n) = Cardinality(Rest) + n[t]
    OBVIOUS
  <2>1. n \in [Threads -> Nat] /\ \A w \in Threads \ {t} : n[w] = f[w]
    OBVIOUS
  <2>2. UNION {Row(n, w) : w \in Threads} = Rest \cup Row(n, t)
    BY <2>1
  <2>3. Rest \cap Row(n, t) = {}
    OBVIOUS
  <2>4. Cardinality(Rest \cup Row(n, t)) = Cardinality(Rest) + Cardinality(Row(n, t)) - Cardinality({})
    BY <1>1, <1>2, <2>1, <2>3, FS_Union
  <2>5. Cardinality(Rest) \in Nat /\ Cardinality({}) = 0 /\ Cardinality(Row(n, t)) = n[t] /\ n[t] \in Nat
    BY <1>1, <1>2, <2>1, FS_CardinalityType, FS_EmptySet
  <2>6. SumOverThreads(n) = Cardinality(Rest \cup Row(n, t))
    BY <2>2 DEF SumOverThreads
  <2> HIDE DEF Rest
  <2>7. QED
    BY <2>4, <2>5, <2>6
<1>4. Cardinality(Rest) \in Nat
  BY <1>2, FS_CardinalityType
<1>5. QED
  <2> HIDE DEF Rest
  <2>1. QED
    BY <1>3, <1>4

\* A sum of zeros is zero.
LEMMA SumOfZeros ==
  ASSUME NEW f \in [Threads -> {0}]
  PROVE  SumOverThreads(f) = 0
<1>1. UNION {{t} \X (1..f[t]) : t \in Threads} = {}
  OBVIOUS
<1>2. QED
  BY <1>1, FS_EmptySet DEF SumOverThreads

\* One more attempt, slice or split leaves room for max_retries more retries.
LEMMA OneMore ==
  ASSUME NEW m \in Nat, NEW n \in Nat
  PROVE  m * n \in Nat /\ m * (n + 1) = m * n + m
OBVIOUS

LEMMA InitCounters == Init => CountersAddUp
<1> SUFFICES ASSUME Init PROVE CountersAddUp
  OBVIOUS
<1>1. SumOverThreads(Todos) = 0 /\ SumOverThreads(attempt) = 0
  BY SumOfZeros DEF Init, Todos
<1>2. Cardinality(Penalized) = 0
  <2>1. Penalized = {}
    BY DEF Init, Penalized
  <2>2. QED
    BY <2>1, FS_EmptySet
<1>3. QED
  BY <1>1, <1>2 DEF Init, CountersAddUp, TallyConservation, RetryBudget, Todos, Penalized

\* The terms of CountersAddUp are natural numbers.
LEMMA TermTypes ==
  ASSUME PoolInv
  PROVE  /\ Todos \in [Threads -> Nat] /\ attempt \in [Threads -> Nat]
         /\ SumOverThreads(Todos) \in Nat /\ SumOverThreads(attempt) \in Nat
         /\ Cardinality(Penalized) \in Nat /\ IsFiniteSet(Penalized)
         /\ stats.dispatched \in Nat /\ stats.failed \in Nat /\ stats.retries \in Nat
         /\ stats.rate_limit_events \in Nat /\ stats.overflow_splits \in Nat
         /\ taken \in Nat /\ MaxRetries \in Nat /\ NumUnits \in Nat
<1>1. Todos \in [Threads -> Nat] /\ attempt \in [Threads -> Nat]
  BY DEF PoolInv, TypeOK, Todos
<1>2. SumOverThreads(Todos) \in Nat /\ SumOverThreads(attempt) \in Nat
  BY <1>1, SumChanges
<1>3. Cardinality(Penalized) \in Nat /\ IsFiniteSet(Penalized)
  <2>1. Penalized \subseteq Threads
    BY DEF Penalized
  <2>2. QED
    BY <2>1, FS_Subset, FS_CardinalityType
<1>4. QED
  BY <1>1, <1>2, <1>3 DEF PoolInv, TypeOK, Counters

\* A step that moves only thread t, in the terms of the counters.
Moves(t, left, tries, penalised) ==
  /\ Todos' \in [Threads -> Nat] /\ attempt' \in [Threads -> Nat]
  /\ \A w \in Threads \ {t} : Todos'[w] = Todos[w] /\ attempt'[w] = attempt[w]
  /\ Todos'[t] = Todos[t] + left /\ attempt'[t] = tries
  /\ Penalized' = penalised

\* Then the sums move by what t's part of them moves.
LEMMA MovesSums ==
  ASSUME PoolInv, NEW t \in Threads, NEW left \in Int, NEW tries \in Nat, NEW penalised,
         Moves(t, left, tries, penalised)
  PROVE  /\ SumOverThreads(Todos') = SumOverThreads(Todos) + left
         /\ SumOverThreads(attempt') = (SumOverThreads(attempt) - attempt[t]) + tries
<1>1. SumOverThreads(Todos') + Todos[t] = SumOverThreads(Todos) + Todos'[t]
  BY TermTypes, SumChanges DEF Moves
<1>2. SumOverThreads(attempt') + attempt[t] = SumOverThreads(attempt) + attempt'[t]
  BY TermTypes, SumChanges DEF Moves
<1>3. SumOverThreads(Todos') \in Nat /\ SumOverThreads(attempt') \in Nat
  BY TermTypes, SumChanges DEF Moves
<1>4. /\ Todos[t] \in Nat /\ Todos'[t] \in Nat /\ attempt[t] \in Nat
      /\ Todos'[t] = Todos[t] + left /\ attempt'[t] = tries
  BY TermTypes DEF Moves
<1>5. QED
  BY <1>1, <1>2, <1>3, <1>4, TermTypes

\* What the end of a slice, another attempt and a split do to the sums.
LEMMA SettleMoves ==
  ASSUME PoolInv, NEW t \in Threads, NEW status, pc[t] # "idle", Settle(t, status)
  PROVE  Moves(t, 0 - 1, 0, Penalized')
<1>1. todo[t] \in Seq(Slice) /\ Len(todo[t]) \in Nat /\ Len(todo[t]) >= 1
  BY BusyFacts DEF PoolInv
<1>2. Len(Tail(todo[t])) = Len(todo[t]) - 1
  BY <1>1
<1>3. todo' = [todo EXCEPT ![t] = Tail(@)] /\ attempt' = [attempt EXCEPT ![t] = 0]
  BY DEF Settle
<1>4. todo \in [Threads -> Seq(Slice)] /\ attempt \in [Threads -> Nat]
  BY TermTypes DEF PoolInv, TypeOK
<1>5. todo'[t] = Tail(todo[t]) /\ \A w \in Threads \ {t} : todo'[w] = todo[w]
  BY <1>3, <1>4
<1>6. attempt' \in [Threads -> Nat] /\ attempt'[t] = 0 /\ \A w \in Threads \ {t} : attempt'[w] = attempt[w]
  BY <1>3, <1>4
<1>7. Todos' = [w \in Threads |-> IF w = t THEN Len(todo[t]) - 1 ELSE Len(todo[w])]
  BY <1>2, <1>5 DEF Todos
<1>8. \A w \in Threads : Len(todo[w]) \in Nat
  BY <1>4
<1>9. QED
  BY <1>1, <1>6, <1>7, <1>8 DEF Moves, Todos

LEMMA AgainMoves ==
  ASSUME PoolInv, NEW t \in Threads, Again(t)
  PROVE  Moves(t, 0, attempt[t] + 1, Penalized')
<1>1. attempt \in [Threads -> Nat] /\ Todos \in [Threads -> Nat]
  BY TermTypes
<1>2. Todos' = Todos /\ attempt' = [attempt EXCEPT ![t] = @ + 1]
  BY DEF Again, Todos
<1>3. QED
  BY <1>1, <1>2 DEF Moves

LEMMA SplitMoves ==
  ASSUME PoolInv, NEW t \in Threads, pc[t] # "idle", NumFiles(Head(todo[t])) > 1,
         todo' = [todo EXCEPT ![t] = Halves(Head(@)) \o Tail(@)],
         attempt' = [attempt EXCEPT ![t] = 0]
  PROVE  Moves(t, 1, 0, Penalized')
<1>1. /\ todo[t] \in Seq(Slice) /\ Len(todo[t]) \in Nat /\ Len(todo[t]) >= 1
      /\ Head(todo[t]) \in Slice
  BY BusyFacts DEF PoolInv
<1>2. Len(Halves(Head(todo[t]))) = 2 /\ Halves(Head(todo[t])) \in Seq(Slice)
  BY <1>1, HalvesSplit
<1>3. Len(Tail(todo[t])) = Len(todo[t]) - 1 /\ Tail(todo[t]) \in Seq(Slice)
  BY <1>1
<1> DEFINE halves == Halves(Head(todo[t]))
           rest == Tail(todo[t])
           s == halves \o rest
<1>4. todo \in [Threads -> Seq(Slice)] /\ attempt \in [Threads -> Nat]
  BY TermTypes DEF PoolInv, TypeOK
<1>5. todo'[t] = s /\ \A w \in Threads \ {t} : todo'[w] = todo[w]
  BY <1>4
<1>6. attempt' \in [Threads -> Nat] /\ attempt'[t] = 0 /\ \A w \in Threads \ {t} : attempt'[w] = attempt[w]
  BY <1>4
<1>7. /\ Len(halves) = 2 /\ halves \in Seq(Slice)
      /\ Len(rest) = Len(todo[t]) - 1 /\ rest \in Seq(Slice)
  BY <1>2, <1>3
<1> HIDE DEF halves, rest
<1>8. Len(s) = Len(halves) + Len(rest)
  BY <1>7, ConcatProperties
<1>9. Len(s) = Len(todo[t]) + 1
  BY <1>1, <1>7, <1>8
<1> HIDE DEF s
<1>10. \A w \in Threads : Todos[w] = Len(todo[w]) /\ Todos'[w] = Len(todo'[w])
  BY DEF Todos
<1>11. \A w \in Threads : Len(todo[w]) \in Nat
  BY <1>4
<1>12. \A w \in Threads : Todos'[w] = IF w = t THEN Len(todo[t]) + 1 ELSE Len(todo[w])
  BY <1>5, <1>9, <1>10
<1>13. Todos' \in [Threads -> Nat]
  <2>1. Todos' = [w \in Threads |-> Todos'[w]]
    BY DEF Todos
  <2>2. \A w \in Threads : Todos'[w] \in Nat
    BY <1>11, <1>12
  <2>3. QED
    BY <2>1, <2>2
<1>14. QED
  BY <1>6, <1>10, <1>12, <1>13 DEF Moves

\* The threads between a rate limit and its penalty, after a notify_all in
\* which t moves to p.
LEMMA PenalizedAfter ==
  ASSUME PoolInv, NEW t \in Threads, NEW p \in Pcs, pc' = Notified(t, p)
  PROVE  /\ p = "penalize" => Penalized' = Penalized \cup {t}
         /\ p # "penalize" => Penalized' = Penalized \ {t}
         /\ pc[t] # "penalize" => t \notin Penalized
BY DEF Notified, Penalized

\* What a step does to the counters: a slice ends in one of them and its
\* attempts are forgotten; or it is tried again, or split.
Ends(t) ==
  /\ Moves(t, 0 - 1, 0, Penalized')
  /\ \/ stats' = Bump("dispatched") \/ stats' = Bump("failed")
     \/ stats' = [stats EXCEPT !.retries = @ + 1, !.failed = @ + 1]
Retries(t) == Moves(t, 0, attempt[t] + 1, Penalized') /\ stats' = Bump("retries")
Splits(t) == Moves(t, 1, 0, Penalized') /\ stats' = Bump("overflow_splits")

\* A tally of slices and a budget of retries, before and after the end of a
\* slice, another attempt and a split.
LEMMA CountersKept ==
  ASSUME PoolInv, CountersAddUp, NEW t \in Threads, UNCHANGED taken, Ends(t) \/ Retries(t) \/ Splits(t),
         \/ Penalized' = Penalized
         \/ Penalized' = Penalized \ {t} /\ stats'.retries = stats.retries + 1
  PROVE  CountersAddUp'
<1> DEFINE d == stats.dispatched
           f == stats.failed
           o == stats.overflow_splits
           r == stats.retries
           e == stats.rate_limit_events
           L == SumOverThreads(Todos)
           A == SumOverThreads(attempt)
           P == Cardinality(Penalized)
           m == MaxRetries
<1>1. /\ d \in Nat /\ f \in Nat /\ o \in Nat /\ r \in Nat /\ e \in Nat /\ L \in Nat /\ A \in Nat
      /\ P \in Nat /\ m \in Nat /\ taken \in Nat /\ NumUnits \in Nat
  BY TermTypes
<1>2. /\ d + f + L + (NumUnits - taken) = NumUnits + o
      /\ r <= m * (d + o) + (m + 1) * f + A
      /\ e <= r + P
  BY DEF CountersAddUp, TallyConservation, RetryBudget, Todos, Penalized
<1>3. attempt[t] \in 0..m
  BY DEF PoolInv, TypeOK
<1>4. /\ m * (d + o) \in Nat /\ m * ((d + o) + 1) = m * (d + o) + m
      /\ (m + 1) * f \in Nat /\ (m + 1) * (f + 1) = (m + 1) * f + (m + 1)
  BY <1>1, OneMore
<1>5. e <= (r + 1) + Cardinality(Penalized \ {t})
  <2>1. Cardinality(Penalized \ {t}) = IF t \in Penalized THEN P - 1 ELSE P
    BY TermTypes, FS_RemoveElement
  <2> HIDE DEF P, e, r
  <2>2. QED
    BY <1>1, <1>2, <2>1
<1>6. e <= r + Cardinality(Penalized') \/ (e <= (r + 1) + Cardinality(Penalized') /\ stats'.retries = r + 1)
  BY <1>2, <1>5
<1>7. Cardinality(Penalized') \in Nat
  BY TermTypes, FS_RemoveElement, FS_CardinalityType
<1>8. DOMAIN stats = Counters /\ stats \in [Counters -> Nat]
  BY DEF PoolInv, TypeOK
<1>9. CASE Ends(t)
  <2>1. SumOverThreads(Todos') = L - 1 /\ SumOverThreads(attempt') = A - attempt[t]
    <3>1. Moves(t, 0 - 1, 0, Penalized') /\ 0 - 1 \in Int
      BY <1>9 DEF Ends
    <3>2. SumOverThreads(Todos') = L + (0 - 1) /\ SumOverThreads(attempt') = (A - attempt[t]) + 0
      BY <3>1, MovesSums
    <3> HIDE DEF L, A, m
    <3>3. QED
      BY <1>1, <1>3, <3>2
  <2>2. CASE stats' = Bump("dispatched")
    <3>1. /\ stats'.dispatched = d + 1 /\ stats'.failed = f /\ stats'.overflow_splits = o
          /\ stats'.retries = r /\ stats'.rate_limit_events = e
      BY <1>8, <2>2 DEF Bump, Counters
    <3> HIDE DEF d, f, o, r, e, L, A, P, m
    <3>2. (d + 1) + f + (L - 1) + (NumUnits - taken) = NumUnits + o
      BY <1>1, <1>2
    <3>3. r <= m * ((d + 1) + o) + (m + 1) * f + (A - attempt[t])
      <4>1. (d + 1) + o = (d + o) + 1
        BY <1>1
      <4>2. QED
        BY <1>1, <1>2, <1>3, <1>4, <4>1
    <3>4. e <= r + Cardinality(Penalized')
      BY <1>1, <1>6, <1>7, <3>1
    <3>5. QED
      BY <2>1, <3>1, <3>2, <3>3, <3>4
      DEF CountersAddUp, TallyConservation, RetryBudget, Todos, Penalized, m
  <2>3. CASE stats' = Bump("failed")
    <3>1. /\ stats'.dispatched = d /\ stats'.failed = f + 1 /\ stats'.overflow_splits = o
          /\ stats'.retries = r /\ stats'.rate_limit_events = e
      BY <1>8, <2>3 DEF Bump, Counters
    <3> HIDE DEF d, f, o, r, e, L, A, P, m
    <3>2. d + (f + 1) + (L - 1) + (NumUnits - taken) = NumUnits + o
      BY <1>1, <1>2
    <3>3. r <= m * (d + o) + (m + 1) * (f + 1) + (A - attempt[t])
      BY <1>1, <1>2, <1>3, <1>4
    <3>4. e <= r + Cardinality(Penalized')
      BY <1>1, <1>6, <1>7, <3>1
    <3>5. QED
      BY <2>1, <3>1, <3>2, <3>3, <3>4
      DEF CountersAddUp, TallyConservation, RetryBudget, Todos, Penalized, m
  <2>4. CASE stats' = [stats EXCEPT !.retries = @ + 1, !.failed = @ + 1]
    <3>1. /\ stats'.dispatched = d /\ stats'.failed = f + 1 /\ stats'.overflow_splits = o
          /\ stats'.retries = r + 1 /\ stats'.rate_limit_events = e
      BY <1>8, <2>4 DEF Counters
    <3> HIDE DEF d, f, o, r, e, L, A, P, m
    <3>2. d + (f + 1) + (L - 1) + (NumUnits - taken) = NumUnits + o
      BY <1>1, <1>2
    <3>3. r + 1 <= m * (d + o) + (m + 1) * (f + 1) + (A - attempt[t])
      BY <1>1, <1>2, <1>3, <1>4
    <3>4. e <= (r + 1) + Cardinality(Penalized')
      BY <1>1, <1>6, <1>7
    <3>5. QED
      BY <2>1, <3>1, <3>2, <3>3, <3>4
      DEF CountersAddUp, TallyConservation, RetryBudget, Todos, Penalized, m
  <2>5. QED
    BY <1>9, <2>2, <2>3, <2>4 DEF Ends
<1>10. CASE Retries(t)
  <2>1. SumOverThreads(Todos') = L + 0 /\ SumOverThreads(attempt') = (A - attempt[t]) + (attempt[t] + 1)
    BY <1>1, <1>3, <1>10, MovesSums DEF Retries
  <2>2. /\ stats'.dispatched = d /\ stats'.failed = f /\ stats'.overflow_splits = o
        /\ stats'.retries = r + 1 /\ stats'.rate_limit_events = e
    BY <1>8, <1>10 DEF Bump, Counters, Retries
  <2> HIDE DEF d, f, o, r, e, L, A, P, m
  <2>3. d + f + (L + 0) + (NumUnits - taken) = NumUnits + o
    BY <1>1, <1>2
  <2>4. r + 1 <= m * (d + o) + (m + 1) * f + ((A - attempt[t]) + (attempt[t] + 1))
    BY <1>1, <1>2, <1>3, <1>4
  <2>5. e <= (r + 1) + Cardinality(Penalized')
    BY <1>1, <1>6, <1>7
  <2>6. QED
    BY <2>1, <2>2, <2>3, <2>4, <2>5
    DEF CountersAddUp, TallyConservation, RetryBudget, Todos, Penalized, m
<1>11. CASE Splits(t)
  <2>1. SumOverThreads(Todos') = L + 1 /\ SumOverThreads(attempt') = A - attempt[t]
    BY <1>1, <1>3, <1>11, MovesSums DEF Splits
  <2>2. /\ stats'.dispatched = d /\ stats'.failed = f /\ stats'.overflow_splits = o + 1
        /\ stats'.retries = r /\ stats'.rate_limit_events = e
    BY <1>8, <1>11 DEF Bump, Counters, Splits
  <2> HIDE DEF d, f, o, r, e, L, A, P, m
  <2>3. d + f + (L + 1) + (NumUnits - taken) = NumUnits + (o + 1)
    BY <1>1, <1>2
  <2>4. r <= m * (d + (o + 1)) + (m + 1) * f + (A - attempt[t])
    <3>1. d + (o + 1) = (d + o) + 1
      BY <1>1
    <3>2. QED
      BY <1>1, <1>2, <1>3, <1>4, <3>1
  <2>5. e <= r + Cardinality(Penalized')
    BY <1>1, <1>6, <1>7, <2>2
  <2>6. QED
    BY <2>1, <2>2, <2>3, <2>4, <2>5
    DEF CountersAddUp, TallyConservation, RetryBudget, Todos, Penalized, m
<1>12. QED
  BY <1>9, <1>10, <1>11

\* One step per action: each is one of those, or starts a unit, or counts a
\* rate limit, or leaves the counters.
LEMMA NextCounters ==
  ASSUME PoolInv, CountersAddUp, [Next]_vars
  PROVE  CountersAddUp'
<1>1. ASSUME UNCHANGED <<taken, todo, attempt, stats>>, Penalized' = Penalized
      PROVE  CountersAddUp'
  BY <1>1 DEF CountersAddUp, TallyConservation, RetryBudget, Penalized
<1>2. CASE Submit \/ Collect \/ UNCHANGED vars
  BY <1>1, <1>2 DEF Submit, Collect, vars, workVars, Penalized
<1>3. ASSUME NEW t \in Threads, ThreadStep(t)
      PROVE  CountersAddUp'
  <2>0. TypeOK /\ pc \in [Threads -> Pcs] /\ AfterSettle(t) \in Pcs \ {"penalize"}
    BY DEF PoolInv, TypeOK, AfterSettle, Pcs
  <2>1. CASE Take(t)
    <3>1. /\ pc[t] = "idle" /\ pc' = [pc EXCEPT ![t] = "acquire"] /\ taken' = taken + 1
          /\ todo' = [todo EXCEPT ![t] = << [lo |-> 1, hi |-> Size[taken + 1]] >>]
          /\ UNCHANGED <<attempt, stats>>
      BY <2>1 DEF Take
    <3>2. Penalized' = Penalized
      BY <2>0, <3>1 DEF Penalized
    <3>3. todo[t] = <<>> /\ todo \in [Threads -> Seq(Slice)]
      BY <2>0, <3>1 DEF PoolInv, Ownership, TypeOK
    <3>4. Moves(t, 1, attempt[t], Penalized')
      <4>1. Todos'[t] = Todos[t] + 1 /\ \A w \in Threads \ {t} : Todos'[w] = Todos[w]
        BY <3>1, <3>3 DEF Todos
      <4>2. Todos \in [Threads -> Nat] /\ attempt \in [Threads -> Nat]
        BY TermTypes
      <4>3. \A w \in Threads : Todos'[w] \in Nat
        BY <4>1, <4>2
      <4>4. Todos' = [w \in Threads |-> Todos'[w]]
        BY DEF Todos
      <4>5. QED
        BY <3>1, <4>1, <4>2, <4>3, <4>4 DEF Moves
    <3>5. /\ SumOverThreads(Todos') = SumOverThreads(Todos) + 1
          /\ SumOverThreads(attempt') = SumOverThreads(attempt)
      <4>1. attempt[t] \in Nat
        BY TermTypes
      <4>2. /\ SumOverThreads(Todos') = SumOverThreads(Todos) + 1
            /\ SumOverThreads(attempt') = (SumOverThreads(attempt) - attempt[t]) + attempt[t]
        BY <3>4, <4>1, MovesSums
      <4>3. QED
        BY <4>1, <4>2, TermTypes
    <3>6. TallyConservation'
      <4>1. stats.dispatched + stats.failed + SumOverThreads(Todos) + (NumUnits - taken)
              = NumUnits + stats.overflow_splits
        BY DEF CountersAddUp, TallyConservation, Todos
      <4>2. stats.dispatched + stats.failed + SumOverThreads(Todos') + (NumUnits - taken')
              = NumUnits + stats.overflow_splits
        BY <3>1, <3>5, <4>1, TermTypes
      <4>3. QED
        BY <3>1, <4>2 DEF TallyConservation, Todos
    <3>7. RetryBudget'
      BY <3>1, <3>2, <3>5 DEF CountersAddUp, RetryBudget, Penalized
    <3>8. QED
      BY <3>6, <3>7 DEF CountersAddUp
  <2>2. CASE Acquire(t) \/ Wait(t)
    BY <1>1, <2>0, <2>2 DEF Acquire, Wait, workVars, Penalized
  <2>3. CASE HookAnswers(t)
    <3>1. pc' = Notified(t, "reward") /\ "reward" \in Pcs /\ pc[t] = "call"
      BY <2>3 DEF HookAnswers, Release, Pcs
    <3>2. Penalized' = Penalized
      BY <3>1, PenalizedAfter
    <3>3. QED
      BY <1>1, <2>3, <3>2 DEF HookAnswers, workVars
  <2>4. CASE HookRateLimited(t)
    <3>1. pc' = Notified(t, "penalize") /\ "penalize" \in Pcs /\ pc[t] = "call"
      BY <2>4 DEF HookRateLimited, Release, Pcs
    <3>2. Penalized' = Penalized \cup {t} /\ t \notin Penalized
      BY <3>1, PenalizedAfter
    <3>3. Cardinality(Penalized') = Cardinality(Penalized) + 1
      BY <3>2, TermTypes, FS_AddElement
    <3>4. stats \in [Counters -> Nat] /\ stats' = Bump("rate_limit_events") /\ UNCHANGED <<taken, todo, attempt>>
      BY <2>0, <2>4 DEF HookRateLimited, workVars, TypeOK
    <3>5. /\ stats'.dispatched = stats.dispatched /\ stats'.failed = stats.failed
          /\ stats'.overflow_splits = stats.overflow_splits /\ stats'.retries = stats.retries
          /\ stats'.rate_limit_events = stats.rate_limit_events + 1
      BY <3>4 DEF Bump, Counters
    <3>6. stats.rate_limit_events + 1 <= stats.retries + Cardinality(Penalized')
      BY <3>3, TermTypes DEF CountersAddUp, RetryBudget, Penalized
    <3>7. QED
      BY <3>4, <3>5, <3>6 DEF CountersAddUp, TallyConservation, RetryBudget, Penalized
  <2>5. CASE HookOverflows(t)
    <3>1. pc[t] = "call" /\ UNCHANGED taken
      BY <2>5 DEF HookOverflows
    <3>2. \E p \in Pcs \ {"penalize"} : pc' = Notified(t, p)
      BY <2>0, <2>5 DEF HookOverflows, Release, Pcs
    <3>3. Penalized' = Penalized
      BY <3>1, <3>2, PenalizedAfter
    <3>4. Ends(t) \/ Splits(t)
      <4>1. CASE NumFiles(Head(todo[t])) <= 1
        BY <2>5, <3>1, <4>1, SettleMoves DEF HookOverflows, Ends
      <4>2. CASE ~(NumFiles(Head(todo[t])) <= 1)
        <5>1. NumFiles(Head(todo[t])) > 1
          <6>1. Head(todo[t]) \in Slice
            BY <3>1, BusyFacts DEF PoolInv
          <6>2. NumFiles(Head(todo[t])) \in Int
            BY <6>1 DEF NumFiles, Slice
          <6>3. QED
            BY <4>2, <6>2
        <5>2. QED
          BY <2>5, <3>1, <4>2, <5>1, SplitMoves DEF HookOverflows, Splits
      <4>3. QED
        BY <4>1, <4>2
    <3>5. QED
      BY <3>1, <3>3, <3>4, CountersKept
  <2>6. CASE HookErrors(t)
    <3>1. pc[t] = "call" /\ UNCHANGED taken
      BY <2>6 DEF HookErrors
    <3>2. \E p \in Pcs \ {"penalize"} : pc' = Notified(t, p)
      BY <2>0, <2>6 DEF HookErrors, Release, Pcs
    <3>3. Penalized' = Penalized
      BY <3>1, <3>2, PenalizedAfter
    <3>4. Ends(t) \/ Retries(t)
      BY <2>6, <3>1, SettleMoves, AgainMoves DEF HookErrors, Ends, Retries
    <3>5. QED
      BY <3>1, <3>3, <3>4, CountersKept
  <2>7. CASE Penalize(t)
    <3>1. pc[t] = "penalize" /\ UNCHANGED taken
      BY <2>7 DEF Penalize
    <3>2. \E p \in Pcs \ {"penalize"} : pc' = Notified(t, p)
      BY <2>0, <2>7 DEF Penalize, Pcs
    <3>3. Penalized' = Penalized \ {t}
      BY <3>2, PenalizedAfter
    <3>4. Ends(t) \/ Retries(t)
      BY <2>7, <3>1, SettleMoves, AgainMoves DEF Penalize, Ends, Retries
    <3>5. stats'.retries = stats.retries + 1
      <4>1. stats \in [Counters -> Nat] /\ "retries" \in Counters /\ "failed" # "retries"
        BY <2>0 DEF TypeOK, Counters
      <4>2. stats' = Bump("retries") \/ stats' = [stats EXCEPT !.retries = @ + 1, !.failed = @ + 1]
        BY <2>7 DEF Penalize
      <4>3. QED
        BY <4>1, <4>2 DEF Bump, Counters
    <3>6. QED
      BY <3>1, <3>3, <3>4, <3>5, CountersKept
  <2>8. ASSUME NEW status \in Answers, Reward(t, status)
        PROVE  CountersAddUp'
    <3>1. pc[t] = "reward" /\ UNCHANGED taken
      BY <2>8 DEF Reward
    <3>2. \E p \in Pcs \ {"penalize"} : pc' = Notified(t, p)
      BY <2>0, <2>8 DEF Reward
    <3>3. Penalized' = Penalized
      BY <3>1, <3>2, PenalizedAfter
    <3>4. Ends(t)
      BY <2>8, <3>1, SettleMoves DEF Reward, Ends
    <3>5. QED
      BY <3>1, <3>3, <3>4, CountersKept
  <2>9. QED
    BY <1>3, <2>1, <2>2, <2>3, <2>4, <2>5, <2>6, <2>7, <2>8 DEF ThreadStep, HookReturns
<1>4. QED
  BY <1>2, <1>3 DEF Next, Done

\* RunnerStats under _STATS_LOCK: however the threads interleave, every slice
\* that left the work lists was dispatched, failed or split, no slice cost
\* more than its retries, and every rate limit was penalised or is about to be.
THEOREM CountersBalance == Spec => []CountersAddUp
<1>1. PoolInv /\ CountersAddUp /\ [Next]_vars => CountersAddUp'
  BY NextCounters
<1>2. PoolInv /\ [Next]_vars => PoolInv'
  BY NextPoolInv
<1>3. QED
  BY <1>1, <1>2, InitPoolInv, InitCounters, PTL DEF Spec
=============================================================================
