--------------------------- MODULE LeafDispatchProofs ---------------------------
(***************************************************************************)
(* What the routing of a review promises, for every wiki, every diff and   *)
(* every answer of the models: the walk lists each page as often as the    *)
(* listings name it, the activated leaves are the least set that holds     *)
(* the leaves with a signal and is closed under escalation, no leaf is     *)
(* kept from the model by the length of its lists, and a specialist gets   *)
(* its leaf with everything the page says.                                 *)
(*                                                                         *)
(* One invariant carries all four, a part for each stage: WalkInv for the  *)
(* stack and the pages of the walk, ActInv for the rounds of escalation,   *)
(* DispatchInv for the leaves that the two narrowing calls pass on.        *)
(***************************************************************************)
EXTENDS LeafDispatch, Integers, FiniteSetTheorems, SequenceTheorems, WellFoundedInduction,
        NaturalsInduction, TLAPS

-----------------------------------------------------------------------------
(* Numbers and their order.                                                *)

\* A non-empty set of numbers has a least one.
LEMMA LeastNumber ==
  ASSUME NEW T \in SUBSET Nat, T # {}
  PROVE  \E m \in T : \A k \in T : m <= k
<1> DEFINE less == {ss \in Nat \X Nat : ss[1] < ss[2]}
<1>1. IsWellFoundedOn(less, Nat)
  BY NatLessThanWellFounded DEF OpToRel
<1>2. PICK m \in T : \A k \in T : <<k, m>> \notin less
  BY <1>1, WFMin
<1>3. ASSUME NEW k \in T
      PROVE  m <= k
  <2>1. <<k, m>> \in Nat \X Nat /\ m \in Nat /\ k \in Nat
    OBVIOUS
  <2>2. ~(<<k, m>>[1] < <<k, m>>[2])
    BY <1>2, <2>1
  <2>3. QED
    BY <2>1, <2>2
<1>4. QED
  BY <1>3

\* What holds at zero and goes from each number to the next holds for all.
LEMMA CountingUp ==
  ASSUME NEW T \in SUBSET Nat, 0 \in T, \A n \in Nat : n \in T => n + 1 \in T
  PROVE  T = Nat
<1> SUFFICES ASSUME Nat \ T # {}
             PROVE  FALSE
  OBVIOUS
<1>1. PICK m \in Nat \ T : \A k \in Nat \ T : m <= k
  BY LeastNumber
<1>2. m # 0 /\ m - 1 \in Nat /\ m = (m - 1) + 1 /\ ~(m <= m - 1)
  OBVIOUS
<1>3. QED
  BY <1>1, <1>2

\* In a strict total order on a finite set, given by what is before each
\* element, no two elements have as many before them, and some element has
\* any number of them before it.
LEMMA Places ==
  ASSUME NEW S, IsFiniteSet(S), NEW before \in [S -> SUBSET S],
         \A a \in S : a \notin before[a],
         \A a, b \in S : a \in before[b] => before[a] \subseteq before[b],
         \A a, b \in S : a = b \/ a \in before[b] \/ b \in before[a]
  PROVE  /\ Cardinality(S) \in Nat
         /\ \A a, b \in S : Cardinality(before[a]) = Cardinality(before[b]) => a = b
         /\ \A i \in 1..Cardinality(S) : \E a \in S : Cardinality(before[a]) = i - 1
<1> DEFINE n == Cardinality(S)
           rank == [a \in S |-> Cardinality(before[a]) + 1]
<1>1. n \in Nat /\ IsFiniteSet(1..n) /\ Cardinality(1..n) = n
  BY FS_CardinalityType, FS_Interval
<1>2. \A a \in S : IsFiniteSet(before[a]) /\ Cardinality(before[a]) \in Nat
  BY FS_Subset, FS_CardinalityType
<1>3. \A a \in S : Cardinality(before[a]) < n
  <2> TAKE a \in S
  <2>1. before[a] \subseteq S /\ before[a] # S
    OBVIOUS
  <2>2. Cardinality(before[a]) <= n /\ Cardinality(before[a]) # n
    BY <2>1, FS_Subset
  <2>3. QED
    BY <1>1, <1>2, <2>2
<1>4. \A a, b \in S : a \in before[b] => Cardinality(before[a]) < Cardinality(before[b])
  <2> SUFFICES ASSUME NEW a \in S, NEW b \in S, a \in before[b]
               PROVE  Cardinality(before[a]) < Cardinality(before[b])
    OBVIOUS
  <2>1. before[a] \subseteq before[b] /\ before[a] # before[b]
    OBVIOUS
  <2>2. /\ Cardinality(before[a]) <= Cardinality(before[b])
        /\ Cardinality(before[a]) # Cardinality(before[b])
    BY <1>2, <2>1, FS_Subset
  <2>3. QED
    BY <1>2, <2>2
<1>5. \A a, b \in S : Cardinality(before[a]) = Cardinality(before[b]) => a = b
  BY <1>2, <1>4
<1>6. rank \in Injection(S, 1..n)
  <2>1. rank \in [S -> 1..n]
    BY <1>1, <1>2, <1>3
  <2>2. \A a, b \in S : rank[a] = rank[b] => a = b
    BY <1>2, <1>5
  <2>3. QED
    BY <2>1, <2>2 DEF Injection, IsInjective
<1>7. rank \in Surjection(S, 1..n)
  BY <1>1, <1>6, FS_Injection
<1>8. ASSUME NEW i \in 1..n
      PROVE  \E a \in S : Cardinality(before[a]) = i - 1
  <2>1. PICK a \in S : rank[a] = i
    BY <1>7 DEF Surjection
  <2>2. QED
    BY <1>2, <2>1
<1>9. QED
  BY <1>1, <1>5, <1>8

\* A one-to-one correspondence counts.
LEMMA SameCount ==
  ASSUME NEW A, NEW B, IsFiniteSet(A), NEW f \in [A -> B],
         \A x, y \in A : f[x] = f[y] => x = y,
         \A y \in B : \E x \in A : f[x] = y
  PROVE  IsFiniteSet(B) /\ Cardinality(B) = Cardinality(A)
<1>1. f \in Surjection(A, B) /\ f \in Injection(A, B)
  BY DEF Surjection, Injection, IsInjective
<1>2. QED
  BY <1>1, FS_Surjection

\* Ordered lists every number of a set once.
LEMMA OrderedLists ==
  ASSUME NEW S \in SUBSET Nat, IsFiniteSet(S)
  PROVE  /\ Cardinality(S) \in Nat /\ Ordered(S) \in Seq(S)
         /\ Len(Ordered(S)) = Cardinality(S) /\ DOMAIN Ordered(S) = 1..Cardinality(S)
         /\ \A n \in 1..Cardinality(S) : Ordered(S)[n] \in S
         /\ \A m, n \in 1..Cardinality(S) : Ordered(S)[m] = Ordered(S)[n] => m = n
         /\ \A i \in S : \E n \in 1..Cardinality(S) : Ordered(S)[n] = i
<1> DEFINE before == [i \in S |-> {j \in S : j < i}]
           N == Cardinality(S)
           o == Ordered(S)
<1>1. before \in [S -> SUBSET S]
  OBVIOUS
<1>3. \A i \in S : before[i] = {j \in S : j < i}
  OBVIOUS
<1>2. /\ \A a \in S : a \notin before[a]
      /\ \A a, b \in S : a \in before[b] => before[a] \subseteq before[b]
      /\ \A a, b \in S : a = b \/ a \in before[b] \/ b \in before[a]
  <2>1. \A a, b \in S : (a \in before[b] <=> a < b) /\ a \in Nat /\ b \in Nat
    BY <1>3
  <2>2. \A b \in S : before[b] \subseteq S
    BY <1>3
  <2> HIDE DEF before
  <2>3. ASSUME NEW a \in S, NEW b \in S, a \in before[b]
        PROVE  before[a] \subseteq before[b]
    <3> SUFFICES ASSUME NEW c \in before[a]
                 PROVE  c \in before[b]
      OBVIOUS
    <3>1. c \in S /\ c \in Nat /\ a \in Nat /\ b \in Nat
      BY <2>1, <2>2
    <3>2. c < a /\ a < b
      BY <2>1, <2>3, <3>1
    <3>3. QED
      BY <2>1, <3>1, <3>2
  <2>4. ASSUME NEW a \in S, NEW b \in S
        PROVE  a \notin before[a] /\ (a = b \/ a \in before[b] \/ b \in before[a])
    <3>1. a \in Nat /\ b \in Nat
      OBVIOUS
    <3>2. (a = b \/ a < b \/ b < a) /\ ~(a < a)
      BY <3>1
    <3>3. QED
      BY <2>1, <3>2
  <2>5. QED
    BY <2>3, <2>4
<1> HIDE DEF before
<1>4. /\ N \in Nat
      /\ \A a, b \in S : Cardinality(before[a]) = Cardinality(before[b]) => a = b
      /\ \A n \in 1..N : \E a \in S : Cardinality(before[a]) = n - 1
  BY <1>1, <1>2, Places
<1>5. \A n \in 1..N : o[n] \in S /\ Cardinality(before[o[n]]) = n - 1
  <2> TAKE n \in 1..N
  <2>1. o[n] = CHOOSE i \in S : Cardinality({j \in S : j < i}) = n - 1
    BY DEF Ordered
  <2>2. \E i \in S : Cardinality({j \in S : j < i}) = n - 1
    BY <1>3, <1>4
  <2>3. o[n] \in S /\ Cardinality({j \in S : j < o[n]}) = n - 1
    BY <2>1, <2>2
  <2>4. QED
    BY <1>3, <2>3
<1>6. DOMAIN o = 1..N /\ o \in Seq(S) /\ Len(o) = N
  <2> DEFINE at(n) == CHOOSE i \in S : Cardinality({j \in S : j < i}) = n - 1
  <2>1. o = [n \in 1..N |-> at(n)]
    BY DEF Ordered
  <2> HIDE DEF at
  <2>2. DOMAIN o = 1..N /\ o = [n \in 1..N |-> o[n]]
    BY <2>1
  <2> HIDE DEF o, N
  <2>3. o \in [1..N -> S]
    BY <1>5, <2>2
  <2>4. QED
    BY <1>4, <2>2, <2>3
<1> HIDE DEF o, N
<1>7. \A m, n \in 1..N : o[m] = o[n] => m = n
  BY <1>4, <1>5
<1>8. IsFiniteSet(1..N) /\ Cardinality(1..N) = N
  BY <1>4, FS_Interval
<1>9. o \in Injection(1..N, S)
  BY <1>5, <1>6, <1>7 DEF Injection, IsInjective
<1>10. o \in Surjection(1..N, S)
  <2>1. Cardinality(1..N) = Cardinality(S)
    BY <1>8 DEF N
  <2>2. QED
    BY <1>9, <2>1, FS_Injection
<1>11. \A i \in S : \E n \in 1..N : o[n] = i
  BY <1>10 DEF Surjection
<1>12. QED
  BY <1>4, <1>5, <1>6, <1>7, <1>11 DEF o, N

\* A non-empty finite set of numbers has a greatest one, which Max gives.
LEMMA MaxIsGreatest ==
  ASSUME NEW n \in Nat, NEW S \in SUBSET (0..n), S # {}
  PROVE  Max(S) \in S /\ \A i \in S : i <= Max(S)
<1> DEFINE mirrored == {n - i : i \in S}
<1>1. mirrored \in SUBSET Nat /\ mirrored # {}
  <2>1. \A i \in S : n - i \in Nat
    OBVIOUS
  <2>2. QED
    BY <2>1
<1>2. PICK m \in mirrored : \A k \in mirrored : m <= k
  <2> HIDE DEF mirrored
  <2>1. QED
    BY <1>1, LeastNumber
<1>3. PICK g \in S : m = n - g
  OBVIOUS
<1>4. \A i \in S : n - g <= n - i
  BY <1>2, <1>3
<1>5. \A i \in S : g >= i
  <2>1. \A i \in S : i \in 0..n
    OBVIOUS
  <2>2. QED
    BY <1>4, <2>1
<1>6. Max(S) \in S /\ \A i \in S : Max(S) >= i
  BY <1>5 DEF Max
<1>7. QED
  BY <1>6

-----------------------------------------------------------------------------
(* The sets and lists of the walk.                                         *)

EntriesOf(d) == wiki.entries[d]
Entries == Seq([name : Names, to : Targets])

\* How often a list names a page.
Times(pages, p) == Cardinality({k \in DOMAIN pages : pages[k] = p})

\* TargetsAt gives what each of the places resolves to, once.
LEMMA TargetsAtPlaces ==
  ASSUME NEW entries \in Entries, NEW places \in SUBSET (DOMAIN entries)
  PROVE  LET targets == TargetsAt(entries, places)
         IN  /\ IsFiniteSet(places) /\ Cardinality(places) \in Nat
             /\ targets \in Seq({entries[k].to : k \in places})
             /\ Len(targets) = Cardinality(places) /\ DOMAIN targets = 1..Cardinality(places)
             /\ ToSet(targets) = {entries[k].to : k \in places}
             /\ \A p : Times(targets, p) = Cardinality({k \in places : entries[k].to = p})
             /\ (\A j, k \in places : entries[j].to = entries[k].to => j = k) =>
                  \A m, n \in DOMAIN targets : targets[m] = targets[n] => m = n
<1> DEFINE targets == TargetsAt(entries, places)
           N == Cardinality(places)
           o == Ordered(places)
           all == {entries[k].to : k \in places}
<1>1. IsFiniteSet(places) /\ places \in SUBSET Nat
  <2>1. DOMAIN entries = 1..Len(entries) /\ Len(entries) \in Nat
    BY DEF Entries
  <2>2. IsFiniteSet(1..Len(entries))
    BY <2>1, FS_Interval
  <2>3. QED
    BY <2>1, <2>2, FS_Subset
<1>2. /\ N \in Nat
      /\ \A n \in 1..N : o[n] \in places
      /\ \A m, n \in 1..N : o[m] = o[n] => m = n
      /\ \A i \in places : \E n \in 1..N : o[n] = i
  BY <1>1, OrderedLists
<1> HIDE DEF N, o
<1>3. DOMAIN targets = 1..N /\ \A n \in 1..N : targets[n] = entries[o[n]].to
  BY DEF TargetsAt, N, o
<1>4. targets = [n \in 1..N |-> targets[n]]
  BY <1>3 DEF TargetsAt, N
<1> HIDE DEF targets
<1>5. \A n \in 1..N : targets[n] \in all
  BY <1>2, <1>3
<1>6. targets \in Seq(all) /\ Len(targets) = N
  <2> HIDE DEF all
  <2>1. targets \in [1..N -> all]
    BY <1>4, <1>5
  <2>2. QED
    BY <1>2, <2>1
<1>7. ToSet(targets) = all
  <2>1. \A k \in places : \E n \in 1..N : targets[n] = entries[k].to
    BY <1>2, <1>3
  <2>2. QED
    BY <1>3, <1>5, <2>1 DEF ToSet
<1>8. \A p : Times(targets, p) = Cardinality({k \in places : entries[k].to = p})
  <2> TAKE p
  <2> DEFINE A == {n \in 1..N : targets[n] = p}
             B == {k \in places : entries[k].to = p}
             f == [n \in A |-> o[n]]
  <2>1. IsFiniteSet(A)
    <3>1. IsFiniteSet(1..N) /\ A \subseteq 1..N
      BY <1>2, FS_Interval
    <3>2. QED
      BY <3>1, FS_Subset
  <2>2. f \in [A -> B]
    BY <1>2, <1>3
  <2>3. \A x, y \in A : f[x] = f[y] => x = y
    BY <1>2
  <2>4. \A y \in B : \E x \in A : f[x] = y
    BY <1>2, <1>3
  <2> HIDE DEF A, B, f
  <2>5. Cardinality(B) = Cardinality(A)
    BY <2>1, <2>2, <2>3, <2>4, SameCount
  <2>6. QED
    BY <1>3, <2>5 DEF A, B, Times
<1>9. (\A j, k \in places : entries[j].to = entries[k].to => j = k) =>
        \A m, n \in DOMAIN targets : targets[m] = targets[n] => m = n
  BY <1>2, <1>3
<1>10. QED
  BY <1>1, <1>2, <1>3, <1>6, <1>7, <1>8, <1>9 DEF targets, N

\* Counting goes along with joining.
LEMMA TimesAdd ==
  ASSUME NEW S, NEW s \in Seq(S), NEW t \in Seq(S), NEW p
  PROVE  /\ Times(s \o t, p) = Times(s, p) + Times(t, p)
         /\ Times(s, p) \in Nat /\ Times(t, p) \in Nat
<1> DEFINE m == Len(s)
           A == {k \in 1..m : s[k] = p}
           B == {k \in 1..Len(t) : t[k] = p}
           C == {k \in (m + 1)..(m + Len(t)) : (s \o t)[k] = p}
           f == [k \in B |-> k + m]
<1>1. /\ m \in Nat /\ Len(t) \in Nat /\ DOMAIN s = 1..m /\ DOMAIN t = 1..Len(t)
      /\ DOMAIN (s \o t) = 1..(m + Len(t))
      /\ \A i \in 1..(m + Len(t)) : (s \o t)[i] = IF i <= m THEN s[i] ELSE t[i - m]
  BY ConcatProperties
<1> HIDE DEF m
<1>2. IsFiniteSet(A) /\ IsFiniteSet(B) /\ Cardinality(A) \in Nat /\ Cardinality(B) \in Nat
  <2>1. IsFiniteSet(1..m) /\ IsFiniteSet(1..Len(t))
    BY <1>1, FS_Interval
  <2>2. IsFiniteSet(A) /\ IsFiniteSet(B)
    BY <2>1, FS_Subset
  <2>3. QED
    BY <2>2, FS_CardinalityType
<1>3. IsFiniteSet(C) /\ Cardinality(C) = Cardinality(B)
  <2>1. f \in [B -> C]
    BY <1>1
  <2>2. \A x, y \in B : f[x] = f[y] => x = y
    BY <1>1
  <2>3. \A y \in C : \E x \in B : f[x] = y
    <3> TAKE y \in C
    <3>1. y - m \in B /\ f[y - m] = y
      BY <1>1
    <3>2. QED
      BY <3>1
  <2> HIDE DEF f, B, C
  <2>4. QED
    BY <1>2, <2>1, <2>2, <2>3, SameCount
<1>4. {k \in DOMAIN (s \o t) : (s \o t)[k] = p} = A \cup C /\ A \cap C = {}
  BY <1>1
<1> HIDE DEF A, B, C
<1>5. Cardinality(A \cup C) = Cardinality(A) + Cardinality(C)
  <2>1. Cardinality(A \cup C) = Cardinality(A) + Cardinality(C) - Cardinality(A \cap C)
    BY <1>2, <1>3, FS_Union
  <2>2. Cardinality(A \cap C) = 0
    BY <1>4, FS_EmptySet
  <2>3. QED
    BY <1>2, <1>3, <2>1, <2>2
<1>6. Times(s, p) = Cardinality(A) /\ Times(t, p) = Cardinality(B)
  BY <1>1 DEF Times, A, B
<1>7. Times(s \o t, p) = Cardinality(A \cup C)
  BY <1>4 DEF Times
<1>8. QED
  BY <1>2, <1>3, <1>5, <1>6, <1>7

\* So do the elements.
LEMMA ElementsAdd ==
  ASSUME NEW S, NEW s \in Seq(S), NEW t \in Seq(S)
  PROVE  ToSet(s \o t) = ToSet(s) \cup ToSet(t)
<1> DEFINE m == Len(s)
<1>1. /\ m \in Nat /\ Len(t) \in Nat /\ DOMAIN s = 1..m /\ DOMAIN t = 1..Len(t)
      /\ DOMAIN (s \o t) = 1..(m + Len(t))
      /\ \A i \in 1..(m + Len(t)) : (s \o t)[i] = IF i <= m THEN s[i] ELSE t[i - m]
  BY ConcatProperties
<1> HIDE DEF m
<1>2. \A i \in DOMAIN s : i \in DOMAIN (s \o t) /\ (s \o t)[i] = s[i]
  BY <1>1
<1>3. \A i \in DOMAIN t : i + m \in DOMAIN (s \o t) /\ (s \o t)[i + m] = t[i]
  BY <1>1
<1>4. \A i \in DOMAIN (s \o t) :
        \/ i \in DOMAIN s /\ (s \o t)[i] = s[i]
        \/ i - m \in DOMAIN t /\ (s \o t)[i] = t[i - m]
  BY <1>1
<1>5. ToSet(s \o t) \subseteq ToSet(s) \cup ToSet(t)
  BY <1>4 DEF ToSet
<1>6. ToSet(s) \subseteq ToSet(s \o t) /\ ToSet(t) \subseteq ToSet(s \o t)
  BY <1>2, <1>3 DEF ToSet
<1>7. QED
  BY <1>5, <1>6

\* What the assumption on the wikis says of the one at hand.
LEMMA WikiShape ==
  ASSUME wiki \in Wikis
  PROVE  /\ \A d \in Dirs : EntriesOf(d) \in Entries /\ DOMAIN EntriesOf(d) \in SUBSET Nat
         /\ \A d \in Dirs : IsFiniteSet(DOMAIN EntriesOf(d))
         /\ \A p \in Pages :
              /\ wiki.id[p] \in 0..NumIds /\ wiki.matches[p] \subseteq Signals
              /\ wiki.escalation_from[p] \subseteq Ids
         /\ NumIds \in Nat
<1>1. /\ wiki.entries \in [Dirs -> Entries] /\ wiki.id \in [Pages -> 0..NumIds]
      /\ wiki.matches \in [Pages -> SUBSET Signals]
      /\ wiki.escalation_from \in [Pages -> SUBSET Ids] /\ NumIds \in Nat
  BY ActivationAssumption DEF Entries
<1>2. \A d \in Dirs : EntriesOf(d) \in Entries
  BY <1>1 DEF EntriesOf
<1>3. ASSUME NEW d \in Dirs
      PROVE  DOMAIN EntriesOf(d) \in SUBSET Nat /\ IsFiniteSet(DOMAIN EntriesOf(d))
  <2>1. DOMAIN EntriesOf(d) = 1..Len(EntriesOf(d)) /\ Len(EntriesOf(d)) \in Nat
    BY <1>2 DEF Entries
  <2>2. IsFiniteSet(1..Len(EntriesOf(d)))
    BY <2>1, FS_Interval
  <2>3. QED
    BY <2>1, <2>2
<1>4. QED
  BY <1>1, <1>2, <1>3

\* Entered gives each directory that is new in a listing once.
LEMMA EnteredDirs ==
  ASSUME NEW entries \in Entries, NEW seen \in SUBSET Dirs
  PROVE  LET new == Entered(entries, seen)
         IN  /\ new \in Seq(Dirs \ seen) /\ DOMAIN new = 1..Len(new) /\ Len(new) \in Nat
             /\ ToSet(new) =
                  {entries[k].to : k \in {j \in DOMAIN entries : Visible(entries[j])}} \cap (Dirs \ seen)
             /\ \A m, n \in DOMAIN new : new[m] = new[n] => m = n
<1> DEFINE new == Entered(entries, seen)
           Fresh(k) == Visible(entries[k]) /\ entries[k].to \in Dirs \ seen
           places == {k \in DOMAIN entries :
                        Fresh(k) /\ \A j \in 1..(k - 1) : ~(Fresh(j) /\ entries[j].to = entries[k].to)}
           inside == {entries[k].to : k \in {j \in DOMAIN entries : Visible(entries[j])}}
           targets == {entries[k].to : k \in places}
<1>1. DOMAIN entries = 1..Len(entries) /\ Len(entries) \in Nat
  BY DEF Entries
<1>2. new = TargetsAt(entries, places)
  BY DEF Entered
<1>3. \A k \in places : k \in DOMAIN entries /\ k \in Nat /\ Fresh(k)
  BY <1>1
<1>4. \A j, k \in places : entries[j].to = entries[k].to => j = k
  <2> SUFFICES ASSUME NEW j \in places, NEW k \in places, entries[j].to = entries[k].to, j < k
               PROVE  FALSE
    BY <1>3
  <2>1. j \in 1..(k - 1)
    BY <1>1, <1>3
  <2>2. QED
    BY <1>3, <2>1
<1>5. targets = inside \cap (Dirs \ seen)
  <2>1. targets \subseteq inside \cap (Dirs \ seen)
    BY <1>3
  <2>2. ASSUME NEW d \in inside \cap (Dirs \ seen)
        PROVE  d \in targets
    <3> DEFINE leading == {k \in DOMAIN entries : Fresh(k) /\ entries[k].to = d}
    <3>1. leading \in SUBSET Nat /\ leading # {}
      BY <1>1
    <3>2. PICK k \in leading : \A j \in leading : k <= j
      <4> HIDE DEF leading
      <4>1. QED
        BY <3>1, LeastNumber
    <3>3. ASSUME NEW j \in 1..(k - 1)
          PROVE  ~(Fresh(j) /\ entries[j].to = entries[k].to)
      <4>1. k \in 1..Len(entries) /\ entries[k].to = d
        BY <1>1
      <4>2. j \in DOMAIN entries /\ ~(k <= j)
        BY <1>1, <4>1
      <4> HIDE DEF Fresh
      <4>3. j \notin leading
        BY <3>2, <4>2
      <4>4. QED
        BY <4>1, <4>2, <4>3
    <3> HIDE DEF Fresh
    <3>4. k \in places /\ entries[k].to = d
      BY <3>3
    <3>5. QED
      BY <3>4
  <2>3. QED
    BY <2>1, <2>2
<1>6. places \in SUBSET (DOMAIN entries)
  OBVIOUS
<1> HIDE DEF places, new, inside
<1>7. /\ new \in Seq(targets) /\ Len(new) = Cardinality(places) /\ Cardinality(places) \in Nat
      /\ DOMAIN new = 1..Cardinality(places) /\ ToSet(new) = targets
      /\ \A m, n \in DOMAIN new : new[m] = new[n] => m = n
  <2> DEFINE T == TargetsAt(entries, places)
  <2>1. /\ T \in Seq({entries[k].to : k \in places}) /\ Len(T) = Cardinality(places)
        /\ Cardinality(places) \in Nat
        /\ DOMAIN T = 1..Cardinality(places) /\ ToSet(T) = {entries[k].to : k \in places}
        /\ (\A j, k \in places : entries[j].to = entries[k].to => j = k) =>
             \A m, n \in DOMAIN T : T[m] = T[n] => m = n
    BY <1>6, TargetsAtPlaces
  <2> HIDE DEF T
  <2>2. new = T
    BY <1>2 DEF T
  <2>3. QED
    BY <1>4, <2>1, <2>2
<1>8. new \in Seq(Dirs \ seen)
  <2>1. \A n \in 1..Len(new) : new[n] \in targets
    BY <1>7
  <2>2. \A n \in 1..Len(new) : new[n] \in Dirs \ seen
    BY <1>5, <2>1
  <2>3. QED
    BY <1>7, <2>2
<1>9. QED
  BY <1>5, <1>7, <1>8 DEF new, inside

\* The names a page is reached by in some directories.
Shows(d, p) == {k \in DOMAIN wiki.entries[d] : wiki.entries[d][k].to = p /\ IsLeaf(wiki.entries[d][k])}
NamesOf(p, S) == UNION {{d} \X Shows(d, p) : d \in S}

\* The names of the pages in the listings are finitely many.
LEMMA NamesFinite ==
  ASSUME wiki \in Wikis, NEW S \in SUBSET Dirs, NEW p
  PROVE  IsFiniteSet(NamesOf(p, S)) /\ Cardinality(NamesOf(p, S)) \in Nat
<1> DEFINE rows == [d \in S |-> {d} \X Shows(d, p)]
           all == {{d} \X Shows(d, p) : d \in S}
<1>1. \A d \in S : IsFiniteSet({d} \X Shows(d, p))
  <2> TAKE d \in S
  <2>1. Shows(d, p) \subseteq DOMAIN EntriesOf(d)
    BY DEF Shows, EntriesOf
  <2>2. IsFiniteSet(Shows(d, p))
    BY <2>1, WikiShape, FS_Subset
  <2>3. IsFiniteSet({d})
    BY FS_Singleton
  <2>4. QED
    BY <2>2, <2>3, FS_Product
<1>2. IsFiniteSet(S)
  BY ActivationAssumption, FS_Subset
<1>3. rows \in Surjection(S, all)
  BY DEF Surjection
<1>4. \A T \in all : IsFiniteSet(T)
  BY <1>1
<1> HIDE DEF rows
<1>5. IsFiniteSet(all)
  BY <1>2, <1>3, FS_Surjection
<1>6. IsFiniteSet(UNION all)
  BY <1>4, <1>5, FS_UNION
<1>7. NamesOf(p, S) = UNION all
  BY DEF NamesOf
<1> HIDE DEF all
<1>8. QED
  BY <1>6, <1>7, FS_CardinalityType

\* One directory more shows its own names on top.
LEMMA NamesGrow ==
  ASSUME wiki \in Wikis, NEW S \in SUBSET Dirs, NEW d \in Dirs, d \notin S, NEW p
  PROVE  Cardinality(NamesOf(p, S \cup {d})) = Cardinality(NamesOf(p, S)) + Cardinality(Shows(d, p))
<1> DEFINE f == [k \in Shows(d, p) |-> <<d, k>>]
           A == NamesOf(p, S)
           B == {d} \X Shows(d, p)
<1>1. IsFiniteSet(Shows(d, p))
  <2>1. Shows(d, p) \subseteq DOMAIN EntriesOf(d)
    BY DEF Shows, EntriesOf
  <2>2. QED
    BY <2>1, WikiShape, FS_Subset
<1>2. IsFiniteSet(B) /\ Cardinality(B) = Cardinality(Shows(d, p))
  <2>1. /\ f \in [Shows(d, p) -> B] /\ \A x, y \in Shows(d, p) : f[x] = f[y] => x = y
        /\ \A y \in B : \E x \in Shows(d, p) : f[x] = y
    OBVIOUS
  <2> HIDE DEF f, B
  <2>2. QED
    BY <1>1, <2>1, SameCount
<1>3. IsFiniteSet(A) /\ Cardinality(A) \in Nat
  BY NamesFinite
<1>4. NamesOf(p, S \cup {d}) = A \cup B /\ A \cap B = {}
  <2>1. \A x : x \in NamesOf(p, S \cup {d}) <=> \E e \in S \cup {d} : x \in {e} \X Shows(e, p)
    BY DEF NamesOf
  <2>2. \A x : x \in A <=> \E e \in S : x \in {e} \X Shows(e, p)
    BY DEF NamesOf
  <2>3. \A x \in A : \E e \in S : x[1] = e
    BY <2>2
  <2>4. \A x \in B : x[1] = d
    OBVIOUS
  <2>5. A \cap B = {}
    BY <2>3, <2>4
  <2> HIDE DEF A
  <2>6. \A x : x \in NamesOf(p, S \cup {d}) <=> x \in A \cup B
    BY <2>1, <2>2
  <2>7. QED
    BY <2>5, <2>6
<1> HIDE DEF A, B
<1>5. Cardinality(A \cup B) = Cardinality(A) + Cardinality(B) - Cardinality(A \cap B)
  BY <1>2, <1>3, FS_Union
<1>6. Cardinality(A \cap B) = 0 /\ Cardinality(Shows(d, p)) \in Nat
  BY <1>1, <1>4, FS_EmptySet, FS_CardinalityType
<1>7. Cardinality(A \cup B) = Cardinality(A) + Cardinality(Shows(d, p))
  BY <1>2, <1>3, <1>5, <1>6
<1>8. QED
  BY <1>4, <1>7 DEF A

-----------------------------------------------------------------------------
(* The walk.                                                               *)

Phases ==
  {"walk", "signals", "escalate", "descend", "trim", "specialists", "done", "faulted"}

\* The directories that have been listed.
Done == visited \ ToSet(stack)

\* What is on the stack is there once and has been visited, nothing is
\* visited that cannot be reached, what a listed directory shows has been
\* visited, and each page is listed under the names in listed directories.
WalkInv ==
  /\ wiki \in Wikis /\ phase \in Phases
  /\ stack \in Seq(Dirs) /\ leaves \in Seq(Pages)
  /\ \A m, n \in DOMAIN stack : stack[m] = stack[n] => m = n
  /\ ToSet(stack) \subseteq visited /\ Root \in visited /\ visited \subseteq ReachableDirs
  /\ \A d \in Done : Inside(d) \subseteq visited
  /\ \A p \in Pages : Times(leaves, p) = Cardinality(NamesOf(p, Done))
  /\ \A k \in DOMAIN leaves : wiki.id[leaves[k]] \in Ids
  /\ phase # "walk" => stack = <<>>

\* ReachableDirs is the least set that holds the root and what is inside.
LEMMA ReachableAreDirs ==
  /\ ReachableDirs \subseteq Dirs
  /\ Root \in ReachableDirs
  /\ \A d \in ReachableDirs : Inside(d) \subseteq ReachableDirs
  /\ \A T \in SUBSET Dirs : Root \in T /\ (\A d \in T : Inside(d) \subseteq T) => ReachableDirs \subseteq T
<1>1. \A x : x \in ReachableDirs <=>
               /\ x \in Dirs
               /\ \A T \in SUBSET Dirs : {Root} \subseteq T /\ (\A y \in T : Inside(y) \subseteq T) => x \in T
  BY DEF ReachableDirs, Least
<1>2. \A d : Inside(d) \subseteq Dirs
  BY DEF Inside
<1>3. Root \in Dirs
  BY ActivationAssumption
<1>4. ReachableDirs \subseteq Dirs /\ Root \in ReachableDirs
  BY <1>1, <1>3
<1>5. ASSUME NEW d \in ReachableDirs, NEW x \in Inside(d)
      PROVE  x \in ReachableDirs
  <2>1. ASSUME NEW T \in SUBSET Dirs, {Root} \subseteq T, \A y \in T : Inside(y) \subseteq T
        PROVE  x \in T
    <3>1. d \in T
      BY <1>1, <2>1
    <3>2. QED
      BY <2>1, <3>1
  <2>2. QED
    BY <1>1, <1>2, <2>1
<1>6. \A T \in SUBSET Dirs : Root \in T /\ (\A d \in T : Inside(d) \subseteq T) => ReachableDirs \subseteq T
  BY <1>1
<1>7. QED
  BY <1>4, <1>5, <1>6

\* The walk starts at the root, with nothing listed.
LEMMA InitWalk == Init => WalkInv
<1> SUFFICES ASSUME Init
             PROVE  WalkInv
  OBVIOUS
<1> USE DEF Init, ActivationInit
<1>1. stack \in Seq(Dirs) /\ leaves \in Seq(Pages) /\ phase \in Phases
  BY ActivationAssumption DEF Phases
<1>2. DOMAIN stack = {1} /\ stack[1] = Root /\ ToSet(stack) = {Root}
  BY DEF ToSet
<1>3. Done = {}
  BY <1>2 DEF Done
<1>4. ASSUME NEW p \in Pages
      PROVE  Times(leaves, p) = Cardinality(NamesOf(p, Done))
  <2>1. {k \in DOMAIN leaves : leaves[k] = p} = {} /\ NamesOf(p, Done) = {}
    BY <1>3 DEF NamesOf
  <2>2. QED
    BY <2>1 DEF Times
<1>5. QED
  BY <1>1, <1>2, <1>3, <1>4, ReachableAreDirs DEF WalkInv

\* The operators on a wiki do not change when the wiki does not.
LEMMA SameWiki ==
  ASSUME wiki' = wiki
  PROVE  /\ ReachableDirs' = ReachableDirs
         /\ \A d : Inside(d)' = Inside(d)
         /\ \A p, S : NamesOf(p, S)' = NamesOf(p, S)
         /\ \A p : Shows(p, p)' = Shows(p, p)
<1>1. \A d : Inside(d)' = Inside(d)
  BY DEF Inside
<1>2. ReachableDirs' = ReachableDirs
  BY DEF ReachableDirs, Least, Inside
<1>3. \A p, S : NamesOf(p, S)' = NamesOf(p, S)
  BY DEF NamesOf, Shows, IsLeaf
<1>4. QED
  BY <1>1, <1>2, <1>3 DEF Shows, IsLeaf

\* The top of the stack is listed, and what is new in it takes its place.
LEMMA VisitKeeps == WalkInv /\ Visit => WalkInv'
<1> SUFFICES ASSUME WalkInv, Visit
             PROVE  WalkInv'
  OBVIOUS
<1> DEFINE d == Last(stack)
           new == Entered(wiki.entries[d], visited)
           rest == Front(stack)
<1>1. /\ wiki' = wiki /\ phase' = phase /\ phase = "walk" /\ stack # <<>>
      /\ stack' = rest \o new /\ visited' = visited \cup ToSet(new)
      /\ leaves' = leaves \o Listed(wiki.entries[d])
  BY DEF Visit
<1>2. /\ d \in Dirs /\ d \in visited /\ rest \in Seq(Dirs) /\ Len(rest) \in Nat
      /\ DOMAIN rest = 1..Len(rest) /\ ToSet(rest) = ToSet(stack) \ {d}
      /\ \A m, n \in DOMAIN rest : rest[m] = rest[n] => m = n
      /\ d \in ToSet(stack)
  <2>1. /\ Len(stack) \in Nat /\ Len(stack) # 0 /\ DOMAIN stack = 1..Len(stack) /\ stack \in Seq(Dirs)
        /\ \A m, n \in DOMAIN stack : stack[m] = stack[n] => m = n
        /\ ToSet(stack) \subseteq visited
    BY <1>1, EmptySeq DEF WalkInv
  <2>2. d = stack[Len(stack)] /\ Len(stack) \in DOMAIN stack
    BY <2>1 DEF Last
  <2>3. /\ rest \in Seq(Dirs) /\ Len(rest) = Len(stack) - 1
        /\ \A i \in 1..Len(rest) : rest[i] = stack[i]
    BY <2>1 DEF Front
  <2>4. DOMAIN rest = 1..(Len(stack) - 1)
    BY <2>1, <2>3
  <2> HIDE DEF d, rest
  <2>5. \A i \in DOMAIN stack : i = Len(stack) \/ i \in DOMAIN rest
    BY <2>1, <2>4
  <2>6. \A i \in DOMAIN rest : i \in DOMAIN stack /\ i # Len(stack) /\ rest[i] = stack[i]
    BY <2>1, <2>3, <2>4
  <2>7. ToSet(rest) = ToSet(stack) \ {d}
    BY <2>1, <2>2, <2>5, <2>6 DEF ToSet
  <2>8. d \in Dirs /\ d \in ToSet(stack)
    BY <2>1, <2>2 DEF ToSet
  <2>9. \A m, n \in DOMAIN rest : rest[m] = rest[n] => m = n
    BY <2>1, <2>6
  <2>10. QED
    BY <2>1, <2>3, <2>4, <2>7, <2>8, <2>9
<1>3. visited \subseteq Dirs
  BY ReachableAreDirs DEF WalkInv
<1>4. wiki.entries[d] \in Entries
  BY <1>2, WikiShape DEF WalkInv, EntriesOf
<1>5. /\ new \in Seq(Dirs \ visited) /\ DOMAIN new = 1..Len(new) /\ Len(new) \in Nat
      /\ ToSet(new) = Inside(d) \cap (Dirs \ visited)
      /\ \A m, n \in DOMAIN new : new[m] = new[n] => m = n
  <2> DEFINE inside == {wiki.entries[d][k].to : k \in {j \in DOMAIN wiki.entries[d] : Visible(wiki.entries[d][j])}}
  <2>1. /\ new \in Seq(Dirs \ visited) /\ DOMAIN new = 1..Len(new) /\ Len(new) \in Nat
        /\ ToSet(new) = inside \cap (Dirs \ visited)
        /\ \A m, n \in DOMAIN new : new[m] = new[n] => m = n
    BY <1>3, <1>4, EnteredDirs
  <2>2. Inside(d) = inside \cap Dirs
    BY DEF Inside
  <2> HIDE DEF inside, new
  <2>3. QED
    BY <2>1, <2>2
<1> HIDE DEF d, new, rest
<1>6. /\ stack' \in Seq(Dirs) /\ ToSet(stack') = (ToSet(stack) \ {d}) \cup ToSet(new)
  <2>1. new \in Seq(Dirs)
    BY <1>5
  <2>2. stack' \in Seq(Dirs)
    BY <1>1, <1>2, <2>1, ConcatProperties
  <2>3. ToSet(rest \o new) = ToSet(rest) \cup ToSet(new)
    <3>1. rest \in Seq(Dirs)
      BY <1>2
    <3>2. QED
      BY <2>1, <3>1, ElementsAdd
  <2>4. QED
    BY <1>1, <1>2, <2>2, <2>3
<1>7. \A m, n \in DOMAIN stack' : stack'[m] = stack'[n] => m = n
  <2>1. /\ DOMAIN stack' = 1..(Len(rest) + Len(new))
        /\ \A i \in DOMAIN stack' : stack'[i] = IF i <= Len(rest) THEN rest[i] ELSE new[i - Len(rest)]
    BY <1>1, <1>2, <1>5, ConcatProperties
  <2>2. \A i \in DOMAIN rest : rest[i] \in visited
    BY <1>2 DEF ToSet, WalkInv
  <2>3. \A i \in DOMAIN new : new[i] \notin visited
    BY <1>5
  <2> SUFFICES ASSUME NEW m \in DOMAIN stack', NEW n \in DOMAIN stack', stack'[m] = stack'[n]
               PROVE  m = n
    OBVIOUS
  <2>4. CASE m <= Len(rest) /\ n <= Len(rest)
    BY <1>2, <2>1, <2>4
  <2>5. CASE ~(m <= Len(rest)) /\ ~(n <= Len(rest))
    <3>1. m - Len(rest) \in DOMAIN new /\ n - Len(rest) \in DOMAIN new
      BY <1>2, <1>5, <2>1, <2>5
    <3>2. new[m - Len(rest)] = new[n - Len(rest)]
      BY <2>1, <2>5
    <3>3. m - Len(rest) = n - Len(rest)
      BY <1>5, <3>1, <3>2
    <3>4. QED
      BY <1>2, <1>5, <2>1, <3>3
  <2>6. CASE m <= Len(rest) /\ ~(n <= Len(rest))
    <3>1. m \in DOMAIN rest /\ n - Len(rest) \in DOMAIN new
      BY <1>2, <1>5, <2>1, <2>6
    <3>2. QED
      BY <2>1, <2>2, <2>3, <2>6, <3>1
  <2>7. CASE ~(m <= Len(rest)) /\ n <= Len(rest)
    <3>1. n \in DOMAIN rest /\ m - Len(rest) \in DOMAIN new
      BY <1>2, <1>5, <2>1, <2>7
    <3>2. QED
      BY <2>1, <2>2, <2>3, <2>7, <3>1
  <2>8. QED
    BY <2>4, <2>5, <2>6, <2>7
<1>8. /\ ToSet(stack') \subseteq visited' /\ Root \in visited' /\ visited' \subseteq ReachableDirs
  BY <1>1, <1>2, <1>5, <1>6, ReachableAreDirs DEF WalkInv
<1>9. Done' = Done \cup {d} /\ d \notin Done
  BY <1>1, <1>2, <1>5, <1>6 DEF Done, WalkInv
<1>10. \A e \in Done' : Inside(e) \subseteq visited'
  <2>1. \A e \in Done : Inside(e) \subseteq visited
    BY DEF WalkInv
  <2>2. Inside(d) \subseteq Dirs
    BY DEF Inside
  <2>3. Inside(d) \subseteq visited'
    BY <1>1, <1>5, <2>2
  <2>4. QED
    BY <1>1, <1>9, <2>1, <2>3
<1>11. /\ Listed(wiki.entries[d]) \in Seq(Pages)
       /\ \A p : Times(Listed(wiki.entries[d]), p) = Cardinality(Shows(d, p))
       /\ \A k \in DOMAIN Listed(wiki.entries[d]) : wiki.id[Listed(wiki.entries[d])[k]] \in Ids
  <2> DEFINE entries == wiki.entries[d]
             places == {k \in DOMAIN entries : IsLeaf(entries[k])}
             found == TargetsAt(entries, places)
             targets == {entries[k].to : k \in places}
  <2>1. Listed(entries) = found
    BY DEF Listed
  <2>2. places \in SUBSET (DOMAIN entries)
    OBVIOUS
  <2>3. \A k \in places : entries[k].to \in Pages /\ wiki.id[entries[k].to] \in Ids
    BY WikiShape DEF IsLeaf, WalkInv, Ids
  <2>4. \A p : {k \in places : entries[k].to = p} = Shows(d, p)
    BY DEF Shows
  <2> HIDE DEF places
  <2>5. /\ found \in Seq({entries[k].to : k \in places}) /\ DOMAIN found = 1..Cardinality(places)
        /\ Len(found) = Cardinality(places) /\ Cardinality(places) \in Nat
        /\ \A p : Times(found, p) = Cardinality({k \in places : entries[k].to = p})
    BY <1>4, <2>2, TargetsAtPlaces
  <2> HIDE DEF entries
  <2> HIDE DEF found
  <2>6. \A n \in 1..Len(found) : found[n] \in targets
    BY <2>5
  <2>7. \A n \in 1..Len(found) : found[n] \in Pages /\ wiki.id[found[n]] \in Ids
    BY <2>3, <2>6
  <2>8. found \in Seq(Pages)
    BY <2>5, <2>7
  <2>9. \A p : Times(found, p) = Cardinality(Shows(d, p))
    BY <2>4, <2>5
  <2>10. QED
    BY <2>1, <2>5, <2>7, <2>8, <2>9 DEF entries
<1>12. leaves' \in Seq(Pages)
  BY <1>1, <1>11, ConcatProperties DEF WalkInv
<1>13. \A p \in Pages : Times(leaves', p) = Cardinality(NamesOf(p, Done'))
  <2> TAKE p \in Pages
  <2>1. Times(leaves', p) = Times(leaves, p) + Times(Listed(wiki.entries[d]), p)
    BY <1>1, <1>11, TimesAdd DEF WalkInv
  <2>2. Done \in SUBSET Dirs
    BY <1>3 DEF Done
  <2>3. Cardinality(NamesOf(p, Done \cup {d})) = Cardinality(NamesOf(p, Done)) + Cardinality(Shows(d, p))
    BY <1>2, <1>9, <2>2, NamesGrow DEF WalkInv
  <2>4. QED
    BY <1>9, <1>11, <2>1, <2>3 DEF WalkInv
<1>14. \A k \in DOMAIN leaves' : wiki.id[leaves'[k]] \in Ids
  <2>1. ToSet(leaves') = ToSet(leaves) \cup ToSet(Listed(wiki.entries[d]))
    BY <1>1, <1>11, ElementsAdd DEF WalkInv
  <2>2. \A p \in ToSet(leaves) \cup ToSet(Listed(wiki.entries[d])) : wiki.id[p] \in Ids
    BY <1>11 DEF ToSet, WalkInv
  <2>3. \A k \in DOMAIN leaves' : leaves'[k] \in ToSet(leaves')
    BY DEF ToSet
  <2>4. QED
    BY <2>1, <2>2, <2>3
<1>15. /\ ReachableDirs' = ReachableDirs /\ \A e : Inside(e)' = Inside(e)
       /\ \A p, S : NamesOf(p, S)' = NamesOf(p, S)
  BY <1>1, SameWiki
<1>16. \A p \in Pages : Times(leaves', p) = Cardinality(NamesOf(p, Done)')
  BY <1>13, <1>15
<1>17. \A e \in Done' : Inside(e)' \subseteq visited'
  BY <1>10, <1>15
<1>18. QED
  BY <1>1, <1>6, <1>7, <1>8, <1>12, <1>14, <1>15, <1>16, <1>17 DEF WalkInv, Times

\* Sorting moves pages and neither adds nor takes one.
LEMMA SortingMoves ==
  ASSUME wiki \in Wikis, NEW pages \in Seq(Pages)
  PROVE  /\ SortedById(pages) \in Seq(Pages)
         /\ \A p : Times(SortedById(pages), p) = Times(pages, p)
         /\ \A n \in DOMAIN SortedById(pages) : \E k \in DOMAIN pages : SortedById(pages)[n] = pages[k]
<1> DEFINE S == DOMAIN pages
           key(k) == wiki.id[pages[k]]
           Before(j, k) == key(j) < key(k) \/ (key(j) = key(k) /\ j < k)
           before == [k \in S |-> {j \in S : Before(j, k)}]
           at(n) == CHOOSE k \in S : Cardinality({j \in S : Before(j, k)}) = n - 1
           place == [n \in S |-> at(n)]
           sorted == SortedById(pages)
<1>1. sorted = [n \in S |-> pages[place[n]]]
  BY DEF SortedById
<1> HIDE DEF at
<1>2. S = 1..Len(pages) /\ Len(pages) \in Nat /\ IsFiniteSet(S) /\ Cardinality(S) = Len(pages)
  <2>1. S = 1..Len(pages) /\ Len(pages) \in Nat
    OBVIOUS
  <2>2. IsFiniteSet(1..Len(pages)) /\ Cardinality(1..Len(pages)) = Len(pages)
    BY <2>1, FS_Interval
  <2> HIDE DEF S
  <2>3. QED
    BY <2>1, <2>2
<1>3. \A k \in S : key(k) \in Nat /\ k \in Nat
  BY <1>2, WikiShape
<1> HIDE DEF key
<1>4. \A i, j, k \in S :
        /\ ~Before(k, k)
        /\ Before(i, j) /\ Before(j, k) => Before(i, k)
        /\ j = k \/ Before(j, k) \/ Before(k, j)
  BY <1>3
<1> HIDE DEF Before, S
<1>5. /\ before \in [S -> SUBSET S] /\ \A k \in S : before[k] = {j \in S : Before(j, k)}
  OBVIOUS
<1> HIDE DEF before
<1>6. /\ \A a \in S : a \notin before[a]
      /\ \A a, b \in S : a \in before[b] => before[a] \subseteq before[b]
      /\ \A a, b \in S : a = b \/ a \in before[b] \/ b \in before[a]
  <2>1. \A a, b \in S : a \in before[b] <=> Before(a, b)
    BY <1>5
  <2>2. ASSUME NEW a \in S, NEW b \in S, a \in before[b]
        PROVE  before[a] \subseteq before[b]
    <3> SUFFICES ASSUME NEW c \in before[a]
                 PROVE  c \in before[b]
      OBVIOUS
    <3>1. c \in S
      BY <1>5
    <3>2. QED
      BY <1>4, <2>1, <2>2, <3>1
  <2>3. QED
    BY <1>4, <2>1, <2>2
<1>7. /\ \A a, b \in S : Cardinality(before[a]) = Cardinality(before[b]) => a = b
      /\ \A n \in 1..Cardinality(S) : \E a \in S : Cardinality(before[a]) = n - 1
  <2>1. IsFiniteSet(S) /\ before \in [S -> SUBSET S]
    BY <1>2, <1>5
  <2>2. QED
    BY <1>6, <2>1, Places
<1>8. \A n \in S : place[n] \in S /\ Cardinality(before[place[n]]) = n - 1
  <2> TAKE n \in S
  <2>1. \E k \in S : Cardinality({j \in S : Before(j, k)}) = n - 1
    <3>1. n \in 1..Cardinality(S)
      BY <1>2 DEF S
    <3>2. QED
      BY <1>5, <1>7, <3>1
  <2>2. place[n] = CHOOSE k \in S : Cardinality({j \in S : Before(j, k)}) = n - 1
    BY DEF at
  <2>3. place[n] \in S /\ Cardinality({j \in S : Before(j, place[n])}) = n - 1
    BY <2>1, <2>2
  <2>4. QED
    BY <1>5, <2>3
<1>9. place \in [S -> S] /\ \A m, n \in S : place[m] = place[n] => m = n
  <2>1. place = [n \in S |-> place[n]]
    OBVIOUS
  <2> HIDE DEF place
  <2>2. place \in [S -> S]
    BY <1>8, <2>1
  <2>3. ASSUME NEW m \in S, NEW n \in S, place[m] = place[n]
        PROVE  m = n
    <3>1. m - 1 = n - 1
      BY <1>8, <2>3
    <3>2. m \in Nat /\ n \in Nat
      BY <1>2
    <3>3. QED
      BY <3>1, <3>2
  <2>4. QED
    BY <2>2, <2>3
<1> HIDE DEF place, sorted
<1>10. \A k \in S : \E n \in S : place[n] = k
  <2>1. place \in Injection(S, S)
    BY <1>9 DEF Injection, IsInjective
  <2>2. place \in Surjection(S, S)
    BY <1>2, <2>1, FS_Injection
  <2>3. QED
    BY <2>2 DEF Surjection
<1>11. DOMAIN sorted = S /\ \A n \in S : sorted[n] = pages[place[n]]
  BY <1>1
<1>12. \A n \in S : \E k \in S : sorted[n] = pages[k]
  BY <1>8, <1>11
<1>13. sorted \in Seq(Pages)
  <2>1. \A n \in S : sorted[n] \in Pages
    BY <1>12 DEF S
  <2>2. sorted = [n \in S |-> sorted[n]]
    BY <1>1, <1>11
  <2>3. sorted \in [1..Len(pages) -> Pages]
    BY <1>2, <2>1, <2>2
  <2>4. QED
    BY <1>2, <2>3
<1>14. ASSUME NEW p
       PROVE  Times(sorted, p) = Times(pages, p)
  <2> DEFINE A == {n \in S : sorted[n] = p}
             B == {k \in S : pages[k] = p}
             f == [n \in A |-> place[n]]
  <2>1. IsFiniteSet(A)
    BY <1>2, FS_Subset
  <2>2. f \in [A -> B]
    BY <1>8, <1>11
  <2>3. \A x, y \in A : f[x] = f[y] => x = y
    BY <1>9
  <2>4. \A y \in B : \E x \in A : f[x] = y
    BY <1>10, <1>11
  <2> HIDE DEF A, B, f
  <2>5. Cardinality(B) = Cardinality(A)
    BY <2>1, <2>2, <2>3, <2>4, SameCount
  <2>6. QED
    BY <1>11, <2>5 DEF A, B, Times, S
<1>15. QED
  BY <1>11, <1>12, <1>13, <1>14 DEF sorted, S

\* Sorting the pages by id loses none and doubles none.
LEMMA WalkEndsKeeps == WalkInv /\ WalkEnds => WalkInv'
<1> SUFFICES ASSUME WalkInv, WalkEnds
             PROVE  WalkInv'
  OBVIOUS
<1>1. /\ wiki' = wiki /\ phase' = "signals" /\ stack = <<>> /\ stack' = stack /\ visited' = visited
      /\ leaves' = SortedById(leaves)
  BY DEF WalkEnds, walkVars
<1>2. /\ ReachableDirs' = ReachableDirs /\ \A e : Inside(e)' = Inside(e)
      /\ \A p, S : NamesOf(p, S)' = NamesOf(p, S)
  BY <1>1, SameWiki
<1>3. Done' = Done
  BY <1>1 DEF Done
<1>4. /\ leaves' \in Seq(Pages)
      /\ \A p : Times(leaves', p) = Times(leaves, p)
      /\ \A n \in DOMAIN leaves' : \E k \in DOMAIN leaves : leaves'[n] = leaves[k]
  BY <1>1, SortingMoves DEF WalkInv
<1>5. \A n \in DOMAIN leaves' : wiki.id[leaves'[n]] \in Ids
  BY <1>4 DEF WalkInv
<1>6. \A p \in Pages : Times(leaves', p) = Cardinality(NamesOf(p, Done)')
  <2>1. \A p : NamesOf(p, Done)' = NamesOf(p, Done)
    BY <1>1, <1>3 DEF NamesOf, Shows, IsLeaf
  <2>2. QED
    BY <1>4, <2>1 DEF WalkInv
<1>7. phase' \in Phases
  BY <1>1 DEF Phases
<1>8. QED
  BY <1>1, <1>2, <1>3, <1>4, <1>5, <1>6, <1>7 DEF WalkInv, Times

\* Past its end the wiki, the walk and its leaves stay.
LEMMA WalkStays ==
  ASSUME WalkInv, UNCHANGED <<wiki, walkVars, leaves>>, phase' \in Phases,
         phase' # "walk" => phase # "walk" \/ stack = <<>>
  PROVE  WalkInv'
<1>1. wiki' = wiki /\ stack' = stack /\ visited' = visited /\ leaves' = leaves
  BY DEF walkVars
<1>2. /\ ReachableDirs' = ReachableDirs /\ \A e : Inside(e)' = Inside(e)
      /\ \A p, S : NamesOf(p, S)' = NamesOf(p, S)
  BY <1>1, SameWiki
<1>3. Done' = Done
  BY <1>1 DEF Done
<1>4. \A p \in Pages : Times(leaves', p) = Cardinality(NamesOf(p, Done)')
  <2>1. \A p : NamesOf(p, Done)' = NamesOf(p, Done)
    BY <1>1, <1>3 DEF NamesOf, Shows, IsLeaf
  <2>2. QED
    BY <1>1, <2>1 DEF WalkInv
<1>5. /\ wiki' \in Wikis /\ phase' \in Phases
      /\ stack' \in Seq(Dirs) /\ leaves' \in Seq(Pages)
      /\ \A m, n \in DOMAIN stack' : stack'[m] = stack'[n] => m = n
      /\ ToSet(stack') \subseteq visited' /\ Root \in visited' /\ visited' \subseteq ReachableDirs'
      /\ \A k \in DOMAIN leaves' : wiki'.id[leaves'[k]] \in Ids
      /\ phase' # "walk" => stack' = <<>>
  BY <1>1, <1>2 DEF WalkInv
<1>6. \A e \in Done' : Inside(e)' \subseteq visited'
  BY <1>1, <1>2, <1>3 DEF WalkInv
<1>7. QED
  BY <1>4, <1>5, <1>6 DEF WalkInv, Times

\* Of the whole route, only the walk moves what WalkInv speaks of.
LEMMA NextWalk == WalkInv /\ [Next]_vars => WalkInv'
<1> SUFFICES ASSUME WalkInv, [Next]_vars
             PROVE  WalkInv'
  OBVIOUS
<1>1. CASE Visit
  BY <1>1, VisitKeeps
<1>2. CASE WalkEnds
  BY <1>2, WalkEndsKeeps
<1>2a. CASE DiffRaises
  BY <1>2a, WalkStays DEF DiffRaises, Phases
<1>3. CASE OwnSignals
  BY <1>3, WalkStays DEF OwnSignals, Phases
<1>4. CASE Escalate
  <2>1. phase = "escalate" /\ phase' \in {"escalate", "descend"} /\ UNCHANGED <<wiki, walkVars, leaves>>
    BY <1>4 DEF Escalate
  <2>2. QED
    BY <2>1, WalkStays DEF Phases
<1>5. CASE NothingToCall
  BY <1>5, WalkStays DEF NothingToCall, Phases
<1>6. CASE TreeDescend
  BY <1>6, WalkStays DEF TreeDescend, Phases
<1>7. CASE LlmTrim
  BY <1>7, WalkStays DEF LlmTrim, Phases
<1>8. CASE CallFails
  <2>1. /\ phase \in {"descend", "trim"} /\ phase' \in {phase, "faulted"}
        /\ UNCHANGED <<wiki, walkVars, leaves>>
    BY <1>8 DEF CallFails, Calling
  <2>2. QED
    BY <2>1, WalkStays DEF Phases, WalkInv
<1>9. CASE DispatchSpecialists
  BY <1>9, WalkStays DEF DispatchSpecialists, Phases
<1>10. CASE UNCHANGED vars
  BY <1>10, WalkStays DEF vars, activationVars, WalkInv
<1>11. QED
  BY <1>1, <1>2, <1>3, <1>4, <1>5, <1>6, <1>7, <1>8, <1>9, <1>10, <1>2a
     DEF Next, Activate, ActivationNext, Ended

\* The walk lists each page as often as it has visible names in reachable
\* directories: never more, and at the end exactly so.
THEOREM WikiIsWalked == Spec => []WikiWalked
<1>1. Init => WalkInv
  BY InitWalk
<1>2. WalkInv /\ [Next]_vars => WalkInv'
  BY NextWalk
<1>3. WalkInv => WikiWalked
  <2> SUFFICES ASSUME WalkInv, phase \in {"walk", "signals"}, NEW p \in Pages
               PROVE  LET names == NamesOf(p, ReachableDirs)
                      IN  /\ Times(leaves, p) <= Cardinality(names)
                          /\ phase = "signals" => Times(leaves, p) = Cardinality(names)
    BY DEF WikiWalked, NamesOf, Shows, Times
  <2>1. Done \subseteq ReachableDirs /\ ReachableDirs \subseteq Dirs
    BY ReachableAreDirs DEF WalkInv, Done
  <2>2. NamesOf(p, Done) \subseteq NamesOf(p, ReachableDirs)
    BY <2>1 DEF NamesOf
  <2>3. IsFiniteSet(NamesOf(p, ReachableDirs))
    BY <2>1, NamesFinite DEF WalkInv
  <2>4. Cardinality(NamesOf(p, Done)) <= Cardinality(NamesOf(p, ReachableDirs))
    BY <2>2, <2>3, FS_Subset
  <2>5. ASSUME phase = "signals"
        PROVE  Done = ReachableDirs
    <3>1. Done = visited
      BY <2>5 DEF WalkInv, Done, ToSet
    <3>2. visited \in SUBSET Dirs /\ Root \in visited /\ \A d \in visited : Inside(d) \subseteq visited
      BY <2>1, <3>1 DEF WalkInv
    <3>3. ReachableDirs \subseteq visited
      BY <3>2, ReachableAreDirs
    <3>4. QED
      BY <2>1, <3>1, <3>3
  <2>6. QED
    BY <2>4, <2>5 DEF WalkInv
<1>4. QED
  BY <1>1, <1>2, <1>3, PTL DEF Spec

-----------------------------------------------------------------------------
(* The gate.                                                               *)

\* The pass over the leaves is what its definition says, leaf by leaf.
LEMMA EscalatedLeafByLeaf ==
  ASSUME NEW pages, NEW before, Len(pages) \in Nat
  PROVE  \E sofar :
           /\ sofar[0] = before /\ Escalated(pages, before) = sofar[Len(pages)]
           /\ \A n \in 1..Len(pages) : sofar[n] = EscalateLeaf(sofar[n - 1], pages[n])
<1> DEFINE IsPass(w, n) == w = [k \in 0..n |-> IF k = 0 THEN before ELSE EscalateLeaf(w[k - 1], pages[k])]
           T == {n \in Nat : \E w : IsPass(w, n)}
<1>1. 0 \in T
  <2> DEFINE w == [k \in 0..0 |-> before]
  <2>1. IsPass(w, 0)
    OBVIOUS
  <2>2. QED
    BY <2>1
<1>2. ASSUME NEW n \in Nat, n \in T
      PROVE  n + 1 \in T
  <2>1. PICK w : IsPass(w, n)
    BY <1>2
  <2> DEFINE v == [k \in 0..(n + 1) |-> IF k <= n THEN w[k] ELSE EscalateLeaf(w[n], pages[n + 1])]
  <2>2. ASSUME NEW k \in 0..(n + 1)
        PROVE  v[k] = IF k = 0 THEN before ELSE EscalateLeaf(v[k - 1], pages[k])
    <3>1. CASE k = 0
      BY <2>1, <3>1
    <3>2. CASE k # 0 /\ k <= n
      <4>1. k \in 0..n /\ k - 1 \in 0..(n + 1) /\ k - 1 <= n /\ v[k] = w[k] /\ v[k - 1] = w[k - 1]
        BY <3>2
      <4>2. w[k] = EscalateLeaf(w[k - 1], pages[k])
        BY <2>1, <3>2, <4>1
      <4>3. QED
        BY <3>2, <4>1, <4>2
    <3>3. CASE k = n + 1
      <4>1. /\ k # 0 /\ ~(k <= n) /\ k - 1 = n /\ n \in 0..(n + 1) /\ v[n] = w[n]
            /\ v[k] = EscalateLeaf(w[n], pages[n + 1])
        BY <3>3
      <4>2. QED
        BY <3>3, <4>1
    <3>4. QED
      BY <3>1, <3>2, <3>3
  <2>3. v = [k \in 0..(n + 1) |-> v[k]]
    OBVIOUS
  <2> HIDE DEF v
  <2>4. IsPass(v, n + 1)
    BY <2>2, <2>3
  <2>5. QED
    BY <2>4
<1>3. T = Nat
  <2> HIDE DEF T
  <2>1. T \subseteq Nat
    BY DEF T
  <2>2. QED
    BY <1>1, <1>2, <2>1, CountingUp
<1>4. PICK w : IsPass(w, Len(pages))
  BY <1>3
<1> DEFINE pass == CHOOSE w1 : IsPass(w1, Len(pages))
<1>5. IsPass(pass, Len(pages))
  BY <1>4
<1>6. Escalated(pages, before) = pass[Len(pages)]
  BY DEF Escalated
<1> HIDE DEF pass
<1>7. pass[0] = before /\ \A n \in 1..Len(pages) : pass[n] = EscalateLeaf(pass[n - 1], pages[n])
  BY <1>5
<1>8. QED
  BY <1>6, <1>7

\* The ids of the leaves; those that fire on their own; those that escalate
\* from one; and the least set that is closed under that.
LeafIds == {wiki.id[leaves[k]] : k \in DOMAIN leaves}
Own == {wiki.id[leaves[k]] : k \in {j \in DOMAIN leaves : Fired(leaves[j]) # {}}}
Escalating(i) == {wiki.id[leaves[k]] : k \in {j \in DOMAIN leaves : i \in wiki.escalation_from[leaves[j]]}}
Closure == Least(Ids, Own, Escalating)

\* Closure holds Own, is closed under escalation, and is inside every such set.
LEMMA ClosureIsLeast ==
  ASSUME WalkInv
  PROVE  /\ Own \subseteq Closure /\ Closure \subseteq LeafIds /\ LeafIds \subseteq Ids
         /\ \A i \in Closure : Escalating(i) \subseteq Closure
         /\ \A T \in SUBSET Ids :
              Own \subseteq T /\ (\A i \in T : Escalating(i) \subseteq T) => Closure \subseteq T
<1>1. \A x : x \in Closure <=>
               /\ x \in Ids
               /\ \A T \in SUBSET Ids : Own \subseteq T /\ (\A y \in T : Escalating(y) \subseteq T) => x \in T
  BY DEF Closure, Least
<1>2. LeafIds \subseteq Ids
  BY DEF WalkInv, LeafIds
<1>3. Own \subseteq LeafIds /\ \A i : Escalating(i) \subseteq LeafIds
  BY DEF Own, Escalating, LeafIds
<1>4. Own \subseteq Closure
  BY <1>1, <1>2, <1>3
<1>5. Closure \subseteq LeafIds
  BY <1>1, <1>2, <1>3
<1>6. ASSUME NEW i \in Closure, NEW x \in Escalating(i)
      PROVE  x \in Closure
  <2>1. ASSUME NEW T \in SUBSET Ids, Own \subseteq T, \A y \in T : Escalating(y) \subseteq T
        PROVE  x \in T
    <3>1. i \in T
      BY <1>1, <2>1
    <3>2. QED
      BY <2>1, <3>1
  <2>2. QED
    BY <1>1, <1>2, <1>3, <2>1
<1>7. \A T \in SUBSET Ids : Own \subseteq T /\ (\A i \in T : Escalating(i) \subseteq T) => Closure \subseteq T
  BY <1>1
<1>8. QED
  BY <1>2, <1>4, <1>5, <1>6, <1>7

\* There are no more ids than leaves.
LEMMA LeafIdsCount ==
  ASSUME WalkInv
  PROVE  /\ IsFiniteSet(LeafIds) /\ Cardinality(LeafIds) <= Len(leaves) /\ Len(leaves) \in Nat
         /\ Cardinality(LeafIds) \in Nat
<1> DEFINE f == [k \in DOMAIN leaves |-> wiki.id[leaves[k]]]
<1>1. DOMAIN leaves = 1..Len(leaves) /\ Len(leaves) \in Nat
  BY DEF WalkInv
<1>2. IsFiniteSet(1..Len(leaves)) /\ Cardinality(1..Len(leaves)) = Len(leaves)
  <2>1. \A n \in Nat : IsFiniteSet(1..n) /\ Cardinality(1..n) = n
    BY FS_Interval
  <2>2. QED
    BY <1>1, <2>1
<1>3. f \in Surjection(DOMAIN leaves, LeafIds)
  BY DEF LeafIds, Surjection
<1> HIDE DEF f
<1>4. IsFiniteSet(LeafIds) /\ Cardinality(LeafIds) <= Cardinality(DOMAIN leaves)
  BY <1>1, <1>2, <1>3, FS_Surjection
<1>5. QED
  BY <1>1, <1>2, <1>4, FS_CardinalityType

\* What is activated at any time: those that fire, and others only by
\* escalation from what is.
ActShape(act) ==
  /\ act = [i \in DOMAIN act |-> act[i]]
  /\ Own \subseteq DOMAIN act /\ DOMAIN act \subseteq Closure
  /\ \A i \in DOMAIN act : (act[i].signals = {"escalation_from"}) <=> (i \notin Own)

\* One leaf more.
LEMMA EscalateLeafKeeps ==
  ASSUME WalkInv, NEW act, ActShape(act), NEW k \in DOMAIN leaves
  PROVE  LET next == EscalateLeaf(act, leaves[k])
         IN  /\ ActShape(next) /\ DOMAIN act \subseteq DOMAIN next
             /\ \A i \in DOMAIN act : next[i] = act[i]
             /\ wiki.escalation_from[leaves[k]] \cap DOMAIN act # {} => wiki.id[leaves[k]] \in DOMAIN next
<1> DEFINE p == leaves[k]
           next == EscalateLeaf(act, p)
           added == [i \in DOMAIN act \cup {wiki.id[p]} |->
                       IF i = wiki.id[p] THEN [page |-> p, signals |-> {"escalation_from"}] ELSE act[i]]
<1>1. CASE wiki.id[p] \in DOMAIN act \/ wiki.escalation_from[p] \cap DOMAIN act = {}
  <2>1. next = act
    BY <1>1 DEF EscalateLeaf
  <2>2. QED
    BY <1>1, <2>1
<1>2. CASE ~(wiki.id[p] \in DOMAIN act \/ wiki.escalation_from[p] \cap DOMAIN act = {})
  <2>1. next = added
    BY <1>2 DEF EscalateLeaf
  <2>2. PICK j \in DOMAIN act : j \in wiki.escalation_from[p]
    BY <1>2
  <2>3. wiki.id[p] \in Escalating(j) /\ j \in Closure
    BY <2>2 DEF Escalating, ActShape
  <2>4. wiki.id[p] \in Closure
    BY <2>3, ClosureIsLeast
  <2>5. /\ DOMAIN added = DOMAIN act \cup {wiki.id[p]} /\ added = [i \in DOMAIN added |-> added[i]]
        /\ \A i \in DOMAIN act : added[i] = act[i]
        /\ added[wiki.id[p]].signals = {"escalation_from"}
    BY <1>2
  <2> HIDE DEF added
  <2>6. wiki.id[p] \notin Own
    BY <1>2 DEF ActShape
  <2>7. ActShape(added)
    <3>1. \A i \in DOMAIN added : (added[i].signals = {"escalation_from"}) <=> (i \notin Own)
      BY <2>5, <2>6 DEF ActShape
    <3>2. QED
      BY <2>4, <2>5, <3>1 DEF ActShape
  <2>8. QED
    BY <2>1, <2>5, <2>7
<1>3. QED
  BY <1>1, <1>2

\* A pass keeps what is activated, and one that changes nothing finds it
\* closed.
LEMMA EscalatedKeeps ==
  ASSUME WalkInv, NEW act, ActShape(act)
  PROVE  LET after == Escalated(leaves, act)
         IN  /\ ActShape(after) /\ DOMAIN act \subseteq DOMAIN after
             /\ \A i \in DOMAIN act : after[i] = act[i]
             /\ after = act => \A i \in DOMAIN act : Escalating(i) \subseteq DOMAIN act
<1>1. DOMAIN leaves = 1..Len(leaves) /\ Len(leaves) \in Nat
  BY DEF WalkInv
<1>2. PICK sofar :
        /\ sofar[0] = act /\ Escalated(leaves, act) = sofar[Len(leaves)]
        /\ \A n \in 1..Len(leaves) : sofar[n] = EscalateLeaf(sofar[n - 1], leaves[n])
  BY <1>1, EscalatedLeafByLeaf
<1> DEFINE Good(n) ==
             n <= Len(leaves) =>
               /\ ActShape(sofar[n]) /\ DOMAIN act \subseteq DOMAIN sofar[n]
               /\ \A i \in DOMAIN act : sofar[n][i] = act[i]
               /\ \A m \in 0..n : DOMAIN sofar[m] \subseteq DOMAIN sofar[n]
               /\ \A k \in 1..n :
                    wiki.escalation_from[leaves[k]] \cap DOMAIN act # {} => wiki.id[leaves[k]] \in DOMAIN sofar[n]
           T == {n \in Nat : Good(n)}
<1>3. Good(0)
  BY <1>2
<1>4. ASSUME NEW n \in Nat, Good(n)
      PROVE  Good(n + 1)
  <2> SUFFICES ASSUME n + 1 <= Len(leaves)
               PROVE  /\ ActShape(sofar[n + 1]) /\ DOMAIN act \subseteq DOMAIN sofar[n + 1]
                      /\ \A i \in DOMAIN act : sofar[n + 1][i] = act[i]
                      /\ \A m \in 0..(n + 1) : DOMAIN sofar[m] \subseteq DOMAIN sofar[n + 1]
                      /\ \A k \in 1..(n + 1) :
                           wiki.escalation_from[leaves[k]] \cap DOMAIN act # {} =>
                             wiki.id[leaves[k]] \in DOMAIN sofar[n + 1]
    OBVIOUS
  <2>1. n + 1 \in DOMAIN leaves /\ n + 1 \in 1..Len(leaves) /\ (n + 1) - 1 = n /\ n <= Len(leaves)
    BY <1>1
  <2>2. /\ ActShape(sofar[n]) /\ DOMAIN act \subseteq DOMAIN sofar[n]
        /\ \A i \in DOMAIN act : sofar[n][i] = act[i]
        /\ \A m \in 0..n : DOMAIN sofar[m] \subseteq DOMAIN sofar[n]
        /\ \A k \in 1..n :
             wiki.escalation_from[leaves[k]] \cap DOMAIN act # {} => wiki.id[leaves[k]] \in DOMAIN sofar[n]
    BY <1>4, <2>1
  <2>3. sofar[n + 1] = EscalateLeaf(sofar[n], leaves[n + 1])
    BY <1>2, <2>1
  <2>4. /\ ActShape(sofar[n + 1]) /\ DOMAIN sofar[n] \subseteq DOMAIN sofar[n + 1]
        /\ \A i \in DOMAIN sofar[n] : sofar[n + 1][i] = sofar[n][i]
        /\ wiki.escalation_from[leaves[n + 1]] \cap DOMAIN sofar[n] # {} =>
             wiki.id[leaves[n + 1]] \in DOMAIN sofar[n + 1]
    BY <2>1, <2>2, <2>3, EscalateLeafKeeps
  <2>5. \A m \in 0..(n + 1) : m \in 0..n \/ m = n + 1
    OBVIOUS
  <2>6. \A k \in 1..(n + 1) : k \in 1..n \/ k = n + 1
    OBVIOUS
  <2>7. QED
    BY <2>2, <2>4, <2>5, <2>6
<1> HIDE DEF Good
<1>5. T = Nat
  <2>1. T \subseteq Nat /\ 0 \in T /\ \A n \in Nat : n \in T => n + 1 \in T
    BY <1>3, <1>4
  <2> HIDE DEF T
  <2>2. QED
    BY <2>1, CountingUp
<1>6. Good(Len(leaves))
  BY <1>1, <1>5
<1> DEFINE after == Escalated(leaves, act)
<1>7. /\ ActShape(after) /\ DOMAIN act \subseteq DOMAIN after
      /\ \A i \in DOMAIN act : after[i] = act[i]
      /\ \A k \in DOMAIN leaves :
           wiki.escalation_from[leaves[k]] \cap DOMAIN act # {} => wiki.id[leaves[k]] \in DOMAIN after
  BY <1>1, <1>2, <1>6 DEF Good
<1> HIDE DEF after
<1>8. ASSUME after = act, NEW i \in DOMAIN act, NEW x \in Escalating(i)
      PROVE  x \in DOMAIN act
  <2>1. PICK k \in DOMAIN leaves : i \in wiki.escalation_from[leaves[k]] /\ x = wiki.id[leaves[k]]
    BY DEF Escalating
  <2>2. QED
    BY <1>7, <1>8, <2>1
<1>9. QED
  BY <1>7, <1>8 DEF after

\* Before the gate nothing is activated; while it escalates, every pass but
\* the last has added an id; at its end what is activated is closed.
ActInv ==
  /\ phase \in {"walk", "signals"} => passes = 0
  /\ phase \notin {"walk", "signals", "faulted"} => ActShape(activated)
  /\ phase = "escalate" => passes \in Nat /\ passes <= Cardinality(DOMAIN activated)
  /\ phase \notin {"walk", "signals", "escalate", "faulted"} =>
       /\ \A i \in DOMAIN activated : Escalating(i) \subseteq DOMAIN activated
       /\ activated_leaves = ActivatedLeaves(activated)

\* The leaves that fire are activated with what fired.
LEMMA FirstPassFires ==
  ASSUME WalkInv
  PROVE  ActShape(FirstPass(leaves)) /\ DOMAIN FirstPass(leaves) = Own
<1> DEFINE Firing(i) == {k \in DOMAIN leaves : wiki.id[leaves[k]] = i /\ Fired(leaves[k]) # {}}
           first == FirstPass(leaves)
<1>1. /\ first = [i \in {j \in Ids : Firing(j) # {}} |->
                    [page |-> leaves[Max(Firing(i))], signals |-> Fired(leaves[Max(Firing(i))])]]
  BY DEF FirstPass
<1>2. {j \in Ids : Firing(j) # {}} = Own
  <2>1. Own \subseteq Ids
    BY ClosureIsLeast
  <2>2. \A j : j \in Own <=> \E k \in DOMAIN leaves : wiki.id[leaves[k]] = j /\ Fired(leaves[k]) # {}
    BY DEF Own
  <2>3. QED
    BY <2>1, <2>2
<1>3. DOMAIN leaves = 1..Len(leaves) /\ Len(leaves) \in Nat /\ \A k \in DOMAIN leaves : leaves[k] \in Pages
  BY DEF WalkInv
<1>4. \A i \in Own : Firing(i) # {}
  BY <1>2
<1>5. ASSUME NEW i \in Own
      PROVE  first[i].signals # {"escalation_from"}
  <2> DEFINE k == Max(Firing(i))
  <2>1. Firing(i) \in SUBSET (0..Len(leaves))
    BY <1>3
  <2>2. k \in Firing(i)
    BY <1>3, <1>4, <2>1, MaxIsGreatest
  <2>3. first[i].signals = Fired(leaves[k])
    BY <1>1, <1>2
  <2>4. Fired(leaves[k]) # {} /\ leaves[k] \in Pages
    BY <1>3, <2>2
  <2>5. Fired(leaves[k]) \subseteq Signals
    BY <2>4, WikiShape DEF Fired, WalkInv
  <2>6. "escalation_from" \notin Signals
    BY DEF Signals
  <2>7. QED
    BY <2>3, <2>4, <2>5, <2>6
<1> HIDE DEF Firing
<1>6. DOMAIN first = Own /\ first = [i \in DOMAIN first |-> first[i]]
  BY <1>1, <1>2
<1> HIDE DEF first
<1>7. Own \subseteq Closure
  BY ClosureIsLeast
<1>8. ActShape(first)
  BY <1>5, <1>6, <1>7 DEF ActShape
<1>9. QED
  BY <1>6, <1>8 DEF first

\* The operators of the gate do not change when what they read does not.
LEMMA SameGate ==
  ASSUME wiki' = wiki, leaves' = leaves, diff_text' = diff_text
  PROVE  /\ Own' = Own /\ Closure' = Closure
         /\ \A i : Escalating(i)' = Escalating(i)
         /\ \A act : ActShape(act)' <=> ActShape(act)
         /\ \A act : ActivatedLeaves(act)' = ActivatedLeaves(act)
<1>1. Own' = Own /\ \A i : Escalating(i)' = Escalating(i)
  BY DEF Own, Fired, Escalating
<1>2. Closure' = Closure
  BY <1>1 DEF Closure, Least, Escalating
<1>3. \A act : ActivatedLeaves(act)' = ActivatedLeaves(act)
  BY DEF ActivatedLeaves, Projected
<1>4. \A act : ActShape(act)' <=> ActShape(act)
  BY <1>1, <1>2 DEF ActShape
<1>5. QED
  BY <1>1, <1>2, <1>3, <1>4

\* The cap on the passes is never what ends the loop.
LEMMA EscalateCloses ==
  ASSUME WalkInv, ActInv, Escalate
  PROVE  ActInv'
<1>1. /\ wiki' = wiki /\ leaves' = leaves /\ diff_text' = diff_text
      /\ phase = "escalate" /\ passes' = passes + 1 /\ activated' = Escalated(leaves, activated)
      /\ IF activated' # activated /\ passes' < Len(leaves) + 1
         THEN phase' = phase
         ELSE phase' = "descend" /\ activated_leaves' = ActivatedLeaves(activated')
  BY DEF Escalate
<1>2. ActShape(activated) /\ passes \in Nat /\ passes <= Cardinality(DOMAIN activated)
  BY <1>1 DEF ActInv
<1>3. /\ ActShape(activated') /\ DOMAIN activated \subseteq DOMAIN activated'
      /\ \A i \in DOMAIN activated : activated'[i] = activated[i]
      /\ activated' = activated => \A i \in DOMAIN activated : Escalating(i) \subseteq DOMAIN activated
  BY <1>1, <1>2, EscalatedKeeps
<1>4. /\ IsFiniteSet(DOMAIN activated') /\ IsFiniteSet(DOMAIN activated)
      /\ Cardinality(DOMAIN activated') \in Nat /\ Cardinality(DOMAIN activated) \in Nat
      /\ Cardinality(DOMAIN activated') <= Len(leaves) /\ Len(leaves) \in Nat
  <2>1. DOMAIN activated' \subseteq LeafIds
    BY <1>3, ClosureIsLeast DEF ActShape
  <2>2. /\ IsFiniteSet(DOMAIN activated')
        /\ Cardinality(DOMAIN activated') <= Cardinality(LeafIds)
    BY <2>1, LeafIdsCount, FS_Subset
  <2>3. IsFiniteSet(DOMAIN activated)
    BY <1>3, <2>2, FS_Subset
  <2>4. Cardinality(DOMAIN activated') \in Nat /\ Cardinality(DOMAIN activated) \in Nat
    BY <2>2, <2>3, FS_CardinalityType
  <2>5. QED
    BY <2>2, <2>3, <2>4, LeafIdsCount
<1>5. ASSUME activated' # activated
      PROVE  Cardinality(DOMAIN activated) < Cardinality(DOMAIN activated')
  <2>1. DOMAIN activated # DOMAIN activated'
    <3> SUFFICES ASSUME DOMAIN activated = DOMAIN activated'
                 PROVE  FALSE
      OBVIOUS
    <3>1. /\ activated = [i \in DOMAIN activated |-> activated[i]]
          /\ activated' = [i \in DOMAIN activated' |-> activated'[i]]
      BY <1>2, <1>3 DEF ActShape
    <3>2. activated' = activated
      BY <1>3, <3>1
    <3>3. QED
      BY <1>5, <3>2
  <2>2. /\ Cardinality(DOMAIN activated) <= Cardinality(DOMAIN activated')
        /\ Cardinality(DOMAIN activated) # Cardinality(DOMAIN activated')
    BY <1>3, <1>4, <2>1, FS_Subset
  <2>3. QED
    BY <1>4, <2>2
<1>6. \A act : ActShape(act)' <=> ActShape(act)
  BY <1>1, SameGate
<1>7. \A i : Escalating(i)' = Escalating(i)
  BY <1>1, SameGate
<1>8. CASE activated' # activated /\ passes' < Len(leaves) + 1
  <2>1. phase' = "escalate"
    BY <1>1, <1>8
  <2>2. passes' \in Nat /\ passes' <= Cardinality(DOMAIN activated')
    BY <1>1, <1>2, <1>4, <1>5, <1>8
  <2>3. QED
    BY <1>3, <1>6, <2>1, <2>2 DEF ActInv, ActShape
<1>9. CASE ~(activated' # activated /\ passes' < Len(leaves) + 1)
  <2>1. activated' = activated
    <3> SUFFICES ASSUME activated' # activated
                 PROVE  FALSE
      OBVIOUS
    <3>1. ~(passes + 1 < Len(leaves) + 1)
      BY <1>1, <1>9
    <3>2. QED
      BY <1>2, <1>4, <1>5, <3>1
  <2>2. phase' = "descend" /\ activated_leaves' = ActivatedLeaves(activated')
    BY <1>1, <1>9
  <2>3. \A i \in DOMAIN activated' : Escalating(i)' \subseteq DOMAIN activated'
    BY <1>3, <1>7, <2>1
  <2>4. activated_leaves' = ActivatedLeaves(activated)'
    BY <1>1, <2>2 DEF ActivatedLeaves, Projected
  <2>5. QED
    BY <1>3, <1>6, <2>2, <2>3, <2>4 DEF ActInv, ActShape
<1>10. QED
  BY <1>8, <1>9

\* The first pass activates what fires on its own; no round is counted yet.
LEMMA OwnSignalsKeeps ==
  ASSUME WalkInv, ActInv, OwnSignals
  PROVE  ActInv'
<1>1. /\ wiki' = wiki /\ leaves' = leaves /\ diff_text' = diff_text /\ passes' = passes
      /\ phase = "signals" /\ phase' = "escalate" /\ activated' = FirstPass(leaves)
  BY DEF OwnSignals
<1>2. ActShape(activated') /\ DOMAIN activated' = Own
  BY <1>1, FirstPassFires
<1>3. IsFiniteSet(Own) /\ Cardinality(Own) \in Nat
  <2>1. Own \subseteq LeafIds
    BY ClosureIsLeast
  <2>2. IsFiniteSet(Own)
    BY <2>1, LeafIdsCount, FS_Subset
  <2>3. QED
    BY <2>2, FS_CardinalityType
<1>4. passes' \in Nat /\ passes' <= Cardinality(DOMAIN activated')
  BY <1>1, <1>2, <1>3 DEF ActInv
<1>5. Own' = Own /\ Closure' = Closure
  BY <1>1, SameGate
<1>6. ActShape(activated)'
  BY <1>2, <1>5 DEF ActShape
<1>7. QED
  BY <1>1, <1>4, <1>6 DEF ActInv

\* Past the gate nothing of it changes.
LEMMA GateStays ==
  ASSUME ActInv, phase \in Phases, phase' \in Phases,
         UNCHANGED <<wiki, leaves, diff_text, passes, activated, activated_leaves>>,
         \/ phase' = phase
         \/ phase # "faulted" /\ {phase, phase'} \cap {"walk", "signals", "escalate"} = {}
  PROVE  ActInv'
<1>1. Own' = Own /\ Closure' = Closure /\ \A i : Escalating(i)' = Escalating(i)
  BY SameGate
<1>2. \/ phase' = phase
      \/ /\ phase \notin {"walk", "signals", "escalate", "faulted"}
         /\ phase' \notin {"walk", "signals", "escalate"}
  OBVIOUS
<1>3. ActShape(activated)' <=> ActShape(activated)
  BY <1>1 DEF ActShape
<1>4. ActivatedLeaves(activated)' = ActivatedLeaves(activated)
  BY DEF ActivatedLeaves, Projected
<1>5. \A i \in DOMAIN activated : Escalating(i) \subseteq DOMAIN activated <=>
        Escalating(i)' \subseteq DOMAIN activated'
  BY <1>1
<1>6. QED
  BY <1>2, <1>3, <1>4, <1>5 DEF ActInv

\* Of the whole route, only the gate moves what ActInv speaks of.
LEMMA NextAct == WalkInv /\ ActInv /\ [Next]_vars => ActInv'
<1> SUFFICES ASSUME WalkInv, ActInv, [Next]_vars
             PROVE  ActInv'
  OBVIOUS
<1>1. phase \in Phases
  BY DEF WalkInv
<1>2. CASE Visit
  BY <1>2 DEF Visit, ActInv
<1>3. CASE WalkEnds
  BY <1>3 DEF WalkEnds, ActInv
<1>3a. CASE DiffRaises
  BY <1>3a DEF DiffRaises, ActInv
<1>4. CASE OwnSignals
  BY <1>4, OwnSignalsKeeps
<1>5. CASE Escalate
  BY <1>5, EscalateCloses
<1>6. CASE NothingToCall
  BY <1>1, <1>6, GateStays DEF NothingToCall, Phases
<1>7. CASE TreeDescend
  BY <1>1, <1>7, GateStays DEF TreeDescend, Phases
<1>8. CASE LlmTrim
  BY <1>1, <1>8, GateStays DEF LlmTrim, Phases
<1>9. CASE CallFails
  <2>1. /\ phase \in {"descend", "trim"} /\ phase' \in {phase, "faulted"}
        /\ UNCHANGED <<wiki, leaves, diff_text, passes, activated, activated_leaves>>
    BY <1>9 DEF CallFails, Calling
  <2>2. QED
    BY <1>1, <2>1, GateStays DEF Phases
<1>10. CASE DispatchSpecialists
  BY <1>1, <1>10, GateStays DEF DispatchSpecialists, Phases
<1>11. CASE UNCHANGED vars
  BY <1>1, <1>11, GateStays DEF vars, activationVars
<1>12. QED
  BY <1>2, <1>3, <1>4, <1>5, <1>6, <1>7, <1>8, <1>9, <1>10, <1>11, <1>3a
     DEF Next, Activate, ActivationNext, Ended

\* The activated ids are the least set that holds those that fire on their
\* own and is closed under escalation, whatever the order of the leaves: the
\* cap on the passes cuts nothing off.
THEOREM ActivationIsClosure == Spec => []ActivatedIsClosure
<1>1. Init => WalkInv /\ ActInv
  BY InitWalk DEF Init, ActivationInit, ActInv
<1>2. WalkInv /\ ActInv /\ [Next]_vars => (WalkInv /\ ActInv)'
  BY NextWalk, NextAct
<1>3. WalkInv /\ ActInv => ActivatedIsClosure
  <2> SUFFICES ASSUME WalkInv, ActInv, phase = "descend"
               PROVE  /\ DOMAIN activated = Closure
                      /\ \A i \in DOMAIN activated :
                           (activated[i].signals = {"escalation_from"}) <=> (i \notin Own)
    BY DEF ActivatedIsClosure, Closure, Own, Escalating
  <2>1. ActShape(activated) /\ \A i \in DOMAIN activated : Escalating(i) \subseteq DOMAIN activated
    BY DEF ActInv
  <2>2. DOMAIN activated \in SUBSET Ids
    BY <2>1, ClosureIsLeast DEF ActShape
  <2>3. Closure \subseteq DOMAIN activated
    BY <2>1, <2>2, ClosureIsLeast DEF ActShape
  <2>4. QED
    BY <2>1, <2>3 DEF ActShape
<1>4. QED
  BY <1>1, <1>2, <1>3, PTL DEF Spec

-----------------------------------------------------------------------------
(* The prompt.                                                             *)

\* Leaves as they travel: only covers is ever cut to a thin form.
Leaf ==
  {leaf \in [id : Ids \cup {NumIds + 1}, fields : [Fields -> {"absent", "full", "thin", "own"}]] :
     \A f \in Fields : leaf.fields[f] = "thin" => f = "covers"}

\* A leaf is what its id and its fields are.
LEMMA MakesLeaf ==
  ASSUME NEW i \in Ids \cup {NumIds + 1}, NEW g, g = [f \in Fields |-> g[f]],
         \A f \in Fields : g[f] \in {"absent", "full", "thin", "own"} /\ (g[f] = "thin" => f = "covers")
  PROVE  [id |-> i, fields |-> g] \in Leaf
<1>1. g \in [Fields -> {"absent", "full", "thin", "own"}]
  OBVIOUS
<1>2. QED
  BY <1>1 DEF Leaf

\* A leaf without the heavy fields fits where 1 + |Heavy| light fields do.
LEMMA CompactLeafThins ==
  ASSUME NEW leaf \in Leaf
  PROVE  /\ CompactLeaf(leaf) \in Leaf /\ CompactLeaf(leaf).id = leaf.id
         /\ Weight(CompactLeaf(leaf)) \in Nat
         /\ Weight(CompactLeaf(leaf)) <= 1 + Cardinality(Heavy)
<1> DEFINE c == CompactLeaf(leaf)
           g == [f \in Fields |->
                   IF f = "audit_surface" THEN "absent"
                   ELSE IF f = "covers" /\ leaf.fields["covers"] = "full" THEN "thin"
                   ELSE leaf.fields[f]]
<1>1. /\ leaf.id \in Ids \cup {NumIds + 1} /\ leaf.fields \in [Fields -> {"absent", "full", "thin", "own"}]
      /\ leaf = [id |-> leaf.id, fields |-> leaf.fields]
      /\ \A f \in Fields : leaf.fields[f] = "thin" => f = "covers"
  BY DEF Leaf
<1>2. c = [id |-> leaf.id, fields |-> g]
  <2>1. c = [id |-> leaf.id,
             fields |-> [leaf.fields EXCEPT !["audit_surface"] = "absent",
                                            !["covers"] = IF @ = "full" THEN "thin" ELSE @]]
    BY DEF CompactLeaf
  <2>2. "covers" \in Fields /\ "audit_surface" \in Fields /\ "covers" # "audit_surface"
    BY DEF Fields
  <2>3. [leaf.fields EXCEPT !["audit_surface"] = "absent",
                            !["covers"] = IF @ = "full" THEN "thin" ELSE @] = g
    BY <1>1, <2>2
  <2>4. QED
    BY <2>1, <2>3
<1> HIDE DEF c
<1>3. g = [f \in Fields |-> g[f]]
  OBVIOUS
<1>4. \A f \in Fields : g[f] \in {"absent", "full", "thin", "own"} /\ (g[f] = "thin" => f = "covers")
  BY <1>1
<1>5. "covers" \in Fields /\ "audit_surface" \in Fields
  BY DEF Fields
<1>6. \A f \in Heavy : g[f] # "full"
  BY <1>5 DEF Heavy
<1> HIDE DEF g
<1>7. c \in Leaf /\ c.id = leaf.id /\ c.fields = g
  BY <1>1, <1>2, <1>3, <1>4, MakesLeaf
<1>8. {f \in Heavy : c.fields[f] = "full"} = {}
  BY <1>6, <1>7
<1>9. /\ IsFiniteSet(Heavy) /\ Cardinality(Heavy) \in Nat
  <2>1. IsFiniteSet({"covers"})
    BY FS_Singleton
  <2>2. IsFiniteSet({"covers"} \cup {"audit_surface"})
    BY <2>1, FS_AddElement
  <2>3. Heavy = {"covers"} \cup {"audit_surface"}
    BY DEF Heavy
  <2>4. QED
    BY <2>2, <2>3, FS_CardinalityType
<1> DEFINE light == {f \in Heavy : c.fields[f] \in {"thin", "own"}}
<1>10. /\ Cardinality(light) \in Nat /\ Cardinality(light) <= Cardinality(Heavy)
  <2>1. light \subseteq Heavy
    OBVIOUS
  <2> HIDE DEF light
  <2>2. IsFiniteSet(light) /\ Cardinality(light) <= Cardinality(Heavy)
    BY <1>9, <2>1, FS_Subset
  <2>3. QED
    BY <2>2, FS_CardinalityType
<1>11. Weight(c) = 1 + Cardinality(light)
  <2>1. Weight(c) = 1 + HeavyWeight * Cardinality({f \in Heavy : c.fields[f] = "full"}) + Cardinality(light)
    BY DEF Weight
  <2>2. Cardinality({f \in Heavy : c.fields[f] = "full"}) = 0
    BY <1>8, FS_EmptySet
  <2> HIDE DEF light
  <2>3. HeavyWeight * 0 = 0
    BY DispatchAssumption
  <2>4. QED
    BY <1>10, <2>1, <2>2, <2>3
<1> HIDE DEF light
<1>12. QED
  BY <1>7, <1>9, <1>10, <1>11 DEF c

\* The prompt shows compact leaves, and when the thin form of them all fits,
\* all of them.
LEMMA ShownLeaves ==
  ASSUME NEW list \in Seq(Leaf)
  PROVE  /\ Shown(list) \in Seq(Leaf) /\ DOMAIN Shown(list) = 1..Len(Shown(list)) /\ Len(Shown(list)) \in Nat
         /\ Len(list) * (1 + Cardinality(Heavy)) <= PromptCap =>
              IdsIn(Shown(list)) = IdsIn(list)
<1> DEFINE compact == CompactInputs(list)
           N == Len(list)
           Row(k) == {k} \X (1..Weight(compact[k]))
           Upto(n) == Cardinality(UNION {Row(k) : k \in 1..n})
           fitting == {n \in 0..Len(compact) : Upto(n) <= PromptCap}
           most == Max(fitting)
<1>1. N \in Nat /\ DOMAIN list = 1..N /\ \A k \in 1..N : list[k] \in Leaf
  OBVIOUS
<1>2. compact = [k \in 1..N |-> CompactLeaf(list[k])]
  BY <1>1 DEF CompactInputs
<1> HIDE DEF N
<1>3. DOMAIN compact = 1..N /\ \A k \in 1..N : compact[k] = CompactLeaf(list[k])
  BY <1>2
<1> HIDE DEF compact
<1>4. \A k \in 1..N :
        /\ compact[k] \in Leaf /\ compact[k].id = list[k].id
        /\ Weight(compact[k]) \in Nat /\ Weight(compact[k]) <= 1 + Cardinality(Heavy)
  BY <1>1, <1>3, CompactLeafThins
<1>5. compact \in Seq(Leaf) /\ Len(compact) = N
  <2>1. compact \in [1..N -> Leaf]
    BY <1>2, <1>3, <1>4
  <2>2. QED
    BY <1>1, <2>1
<1>6. Shown(list) = SubSeq(compact, 1, most)
  BY DEF Shown, compact
<1> HIDE DEF Upto
<1>7. Upto(0) <= PromptCap
  <2>1. UNION {Row(k) : k \in 1..0} = {}
    OBVIOUS
  <2>2. Upto(0) = 0
    BY <2>1, FS_EmptySet DEF Upto
  <2>3. QED
    BY <2>2, DispatchAssumption
<1>8. most \in 0..N /\ \A n \in fitting : n <= most
  <2>1. fitting \in SUBSET (0..N) /\ 0 \in fitting
    BY <1>1, <1>5, <1>7
  <2> HIDE DEF fitting
  <2>2. QED
    BY <1>1, <2>1, MaxIsGreatest
<1>9. /\ Upto(N) <= N * (1 + Cardinality(Heavy)) /\ Upto(N) \in Nat
      /\ N * (1 + Cardinality(Heavy)) \in Nat
  <2> DEFINE width == 1 + Cardinality(Heavy)
             rows == UNION {Row(k) : k \in 1..N}
  <2>1. width \in Nat
    <3>1. IsFiniteSet({"covers"} \cup {"audit_surface"})
      BY FS_Singleton, FS_AddElement
    <3>2. Heavy = {"covers"} \cup {"audit_surface"}
      BY DEF Heavy
    <3>3. QED
      BY <3>1, <3>2, FS_CardinalityType
  <2>2. \A k \in 1..N : Weight(compact[k]) \in Nat /\ Weight(compact[k]) <= width
    BY <1>4
  <2> HIDE DEF width
  <2>3. \A k \in 1..N : Row(k) \subseteq (1..N) \X (1..width)
    BY <2>1, <2>2
  <2> HIDE DEF Row
  <2>4. rows \subseteq (1..N) \X (1..width)
    BY <2>3
  <2> HIDE DEF rows
  <2>5. \A n \in Nat : IsFiniteSet(1..n) /\ Cardinality(1..n) = n
    BY FS_Interval
  <2>6. /\ IsFiniteSet((1..N) \X (1..width))
        /\ Cardinality((1..N) \X (1..width)) = Cardinality(1..N) * Cardinality(1..width)
    BY <1>1, <2>1, <2>5, FS_Product
  <2>7. Cardinality(1..N) = N /\ Cardinality(1..width) = width
    BY <1>1, <2>1, <2>5
  <2>8. IsFiniteSet(rows) /\ Cardinality(rows) <= N * width
    BY <2>4, <2>6, <2>7, FS_Subset
  <2>9. Cardinality(rows) \in Nat /\ N * width \in Nat
    BY <1>1, <2>1, <2>8, FS_CardinalityType
  <2>10. QED
    BY <2>8, <2>9 DEF Upto, rows, width
<1> HIDE DEF most, fitting
<1>10. Shown(list) \in Seq(Leaf) /\ DOMAIN Shown(list) = 1..most /\ Len(Shown(list)) = most
  BY <1>5, <1>6, <1>8
<1>11. \A k \in 1..most : Shown(list)[k] = compact[k]
  BY <1>1, <1>5, <1>6, <1>8
<1>12. ASSUME N * (1 + Cardinality(Heavy)) <= PromptCap
       PROVE  IdsIn(Shown(list)) = IdsIn(list)
  <2>1. N \in fitting
    BY <1>1, <1>5, <1>9, <1>12, DispatchAssumption DEF fitting
  <2>2. most = N
    BY <1>1, <1>8, <2>1
  <2>3. \A k \in 1..N : Shown(list)[k].id = list[k].id
    BY <1>4, <1>11, <2>2
  <2>4. QED
    BY <1>1, <1>10, <2>2, <2>3 DEF IdsIn
<1>13. QED
  BY <1>1, <1>8, <1>10, <1>12 DEF N

-----------------------------------------------------------------------------
(* The answer.                                                             *)

\* An answer is made of leaves.
LEMMA AnswersAreLeaves ==
  ASSUME NumIds \in Nat, NEW list \in Seq(Leaf), NEW answer \in Answers(list)
  PROVE  answer \in Seq(Leaf)
<1> DEFINE shown == Shown(list)
           Kept(ks, style) == [n \in DOMAIN ks |-> Written(shown[ks[n]], style)]
           Invented(ids, style) ==
             [n \in DOMAIN ids |-> Written([id |-> ids[n], fields |-> Blank], style)]
<1>1. PICK part \in SUBSET DOMAIN shown, strayed \in Strays, style \in Styles :
        answer = Kept(Ordered(part), style) \o Invented(Ordered(strayed), style)
  <2>1. PICK part \in SUBSET DOMAIN shown, strayed \in Strays, style \in Styles :
          answer = Answer(shown, part, strayed, style)
    BY DEF Answers
  <2>2. Answer(shown, part, strayed, style) =
          Kept(Ordered(part), style) \o Invented(Ordered(strayed), style)
    BY DEF Answer
  <2>3. QED
    BY <2>1, <2>2
<1>2. shown \in Seq(Leaf) /\ DOMAIN shown = 1..Len(shown) /\ Len(shown) \in Nat
  BY ShownLeaves
<1>3. \A n \in Nat : IsFiniteSet(1..n)
  BY FS_Interval
<1>4. style \in [Fields -> {"echo", "empty", "own"}] /\ strayed \subseteq Ids \cup {NumIds + 1}
  BY DispatchAssumption
<1> HIDE DEF shown
<1>5. ASSUME NEW leaf, leaf.id \in Ids \cup {NumIds + 1},
             \A f \in Fields : leaf.fields[f] \in {"absent", "full", "thin", "own"}
                                 /\ (leaf.fields[f] = "thin" => f = "covers")
      PROVE  Written(leaf, style) \in Leaf
  <2> DEFINE at(f) == CASE style[f] = "echo" -> leaf.fields[f]
                        [] style[f] = "empty" -> "absent"
                        [] style[f] = "own" -> "own"
             g == [f \in Fields |-> at(f)]
  <2>1. Written(leaf, style) = [id |-> leaf.id, fields |-> g]
    BY DEF Written
  <2>5. \A f \in Fields : style[f] \in {"echo", "empty", "own"} => at(f) \in {leaf.fields[f], "absent", "own"}
    OBVIOUS
  <2> HIDE DEF at
  <2>2. g = [f \in Fields |-> g[f]]
    OBVIOUS
  <2>3. \A f \in Fields : g[f] \in {"absent", "full", "thin", "own"} /\ (g[f] = "thin" => f = "covers")
    <3> TAKE f \in Fields
    <3>1. style[f] \in {"echo", "empty", "own"}
      BY <1>4
    <3>2. g[f] \in {leaf.fields[f], "absent", "own"}
      BY <2>5, <3>1
    <3> HIDE DEF g
    <3>3. QED
      BY <1>5, <3>2
  <2> HIDE DEF g
  <2>4. QED
    BY <1>5, <2>1, <2>2, <2>3, MakesLeaf
<1>6. Kept(Ordered(part), style) \in Seq(Leaf)
  <2> DEFINE ks == Ordered(part)
             kept == Kept(ks, style)
  <2>1. IsFiniteSet(part) /\ part \in SUBSET Nat
    BY <1>2, <1>3, FS_Subset
  <2>2. /\ DOMAIN ks = 1..Cardinality(part) /\ Cardinality(part) \in Nat
        /\ \A n \in 1..Cardinality(part) : ks[n] \in part
    BY <2>1, OrderedLists
  <2> HIDE DEF ks
  <2>3. \A n \in 1..Cardinality(part) : kept[n] = Written(shown[ks[n]], style) /\ shown[ks[n]] \in Leaf
    BY <1>2, <2>2
  <2>4. kept = [n \in 1..Cardinality(part) |-> kept[n]]
    BY <2>2
  <2> HIDE DEF kept
  <2>5. \A n \in 1..Cardinality(part) : kept[n] \in Leaf
    BY <1>5, <2>3 DEF Leaf
  <2>6. kept \in [1..Cardinality(part) -> Leaf]
    BY <2>4, <2>5
  <2>7. kept \in Seq(Leaf)
    BY <2>2, <2>6
  <2>8. QED
    BY <2>7 DEF kept, ks
<1>7. Invented(Ordered(strayed), style) \in Seq(Leaf)
  <2> DEFINE ids == Ordered(strayed)
             strays == Invented(ids, style)
  <2>1. IsFiniteSet(strayed) /\ strayed \in SUBSET Nat
    <3>1. strayed \subseteq 1..(NumIds + 1) /\ NumIds + 1 \in Nat
      BY <1>4 DEF Ids
    <3>2. IsFiniteSet(1..(NumIds + 1))
      BY <1>3, <3>1
    <3>3. strayed \subseteq Nat
      BY <3>1
    <3>4. QED
      BY <3>1, <3>2, <3>3, FS_Subset
  <2>2. /\ DOMAIN ids = 1..Cardinality(strayed) /\ Cardinality(strayed) \in Nat
        /\ \A n \in 1..Cardinality(strayed) : ids[n] \in strayed
    BY <2>1, OrderedLists
  <2> HIDE DEF ids
  <2>3. \A n \in 1..Cardinality(strayed) : strays[n] = Written([id |-> ids[n], fields |-> Blank], style)
    BY <2>2
  <2>4. strays = [n \in 1..Cardinality(strayed) |-> strays[n]]
    BY <2>2
  <2> HIDE DEF strays
  <2>5. ASSUME NEW n \in 1..Cardinality(strayed)
        PROVE  strays[n] \in Leaf
    <3> DEFINE leaf == [id |-> ids[n], fields |-> Blank]
    <3>1. leaf.id \in Ids \cup {NumIds + 1} /\ \A f \in Fields : leaf.fields[f] = "absent"
      BY <1>4, <2>2 DEF Blank
    <3>2. strays[n] = Written(leaf, style)
      BY <2>3
    <3> HIDE DEF leaf
    <3>3. QED
      BY <1>5, <3>1, <3>2
  <2>6. strays \in [1..Cardinality(strayed) -> Leaf]
    BY <2>4, <2>5
  <2>7. strays \in Seq(Leaf)
    BY <2>2, <2>6
  <2>8. QED
    BY <2>7 DEF strays, ids
<1> HIDE DEF Kept, Invented
<1>8. QED
  BY <1>1, <1>6, <1>7, ConcatProperties

\* The source that _rehydrate finds for an id has that id.
LEMMA LastWithFinds ==
  ASSUME NEW S, NEW list \in Seq(S), NEW i \in IdsIn(list)
  PROVE  \E k \in DOMAIN list : LastWith(list, i) = list[k] /\ list[k].id = i
<1> DEFINE found == {k \in DOMAIN list : list[k].id = i}
<1>1. DOMAIN list = 1..Len(list) /\ Len(list) \in Nat
  OBVIOUS
<1>2. found # {}
  BY DEF IdsIn
<1>3. found \in SUBSET (0..Len(list))
  BY <1>1
<1>4. LastWith(list, i) = list[Max(found)]
  BY DEF LastWith
<1>5. \A k \in found : k \in DOMAIN list /\ list[k].id = i
  OBVIOUS
<1> HIDE DEF found
<1>6. Max(found) \in found
  BY <1>1, <1>2, <1>3, MaxIsGreatest
<1>7. QED
  BY <1>4, <1>5, <1>6

\* _rehydrate keeps the leaves and their order, and what the source has the
\* answer has.
LEMMA RehydrateRestores ==
  ASSUME NEW picked \in Seq(Leaf), NEW source \in Seq(Leaf)
  PROVE  LET whole == Rehydrate(picked, source)
         IN  /\ whole \in Seq(Leaf) /\ DOMAIN whole = DOMAIN picked
             /\ \A k \in DOMAIN picked :
                  /\ whole[k].id = picked[k].id
                  /\ picked[k].id \in IdsIn(source) =>
                       \E m \in DOMAIN source :
                         /\ source[m].id = picked[k].id
                         /\ \A f \in Fields :
                              source[m].fields[f] # "absent" => whole[k].fields[f] # "absent"
<1> DEFINE whole == Rehydrate(picked, source)
           Merged(leaf, full) ==
             [id |-> leaf.id,
              fields |-> [f \in Fields |->
                            IF leaf.fields[f] = "absent" THEN full.fields[f] ELSE leaf.fields[f]]]
           At(k) == IF picked[k].id \in IdsIn(source)
                    THEN Merged(picked[k], LastWith(source, picked[k].id)) ELSE picked[k]
<1>1. whole = [k \in DOMAIN picked |-> At(k)]
  BY DEF Rehydrate
<1>2. DOMAIN picked = 1..Len(picked) /\ Len(picked) \in Nat /\ \A k \in DOMAIN picked : picked[k] \in Leaf
  OBVIOUS
<1>3. \A m \in DOMAIN source : source[m] \in Leaf
  OBVIOUS
<1>4. ASSUME NEW leaf \in Leaf, NEW full \in Leaf
      PROVE  /\ Merged(leaf, full) \in Leaf /\ Merged(leaf, full).id = leaf.id
             /\ \A f \in Fields : full.fields[f] # "absent" => Merged(leaf, full).fields[f] # "absent"
  <2> DEFINE g == [f \in Fields |-> IF leaf.fields[f] = "absent" THEN full.fields[f] ELSE leaf.fields[f]]
  <2>1. /\ leaf.id \in Ids \cup {NumIds + 1}
        /\ \A f \in Fields : /\ leaf.fields[f] \in {"absent", "full", "thin", "own"}
                             /\ leaf.fields[f] = "thin" => f = "covers"
                             /\ full.fields[f] \in {"absent", "full", "thin", "own"}
                             /\ full.fields[f] = "thin" => f = "covers"
    BY DEF Leaf
  <2>2. g = [f \in Fields |-> g[f]]
    OBVIOUS
  <2>3. \A f \in Fields : g[f] = IF leaf.fields[f] = "absent" THEN full.fields[f] ELSE leaf.fields[f]
    OBVIOUS
  <2>4. Merged(leaf, full) = [id |-> leaf.id, fields |-> g]
    OBVIOUS
  <2> HIDE DEF g, Merged
  <2>5. \A f \in Fields : g[f] \in {"absent", "full", "thin", "own"} /\ (g[f] = "thin" => f = "covers")
    BY <2>1, <2>3
  <2>6. [id |-> leaf.id, fields |-> g] \in Leaf
    BY <2>1, <2>2, <2>5, MakesLeaf
  <2>7. QED
    BY <2>3, <2>4, <2>6
<1> HIDE DEF Merged
<1>5. ASSUME NEW k \in DOMAIN picked
      PROVE  /\ At(k) \in Leaf /\ At(k).id = picked[k].id
             /\ picked[k].id \in IdsIn(source) =>
                  \E m \in DOMAIN source :
                    /\ source[m].id = picked[k].id
                    /\ \A f \in Fields : source[m].fields[f] # "absent" => At(k).fields[f] # "absent"
  <2>1. CASE picked[k].id \in IdsIn(source)
    <3>1. PICK m \in DOMAIN source :
            LastWith(source, picked[k].id) = source[m] /\ source[m].id = picked[k].id
      BY <2>1, LastWithFinds
    <3>2. At(k) = Merged(picked[k], source[m])
      BY <2>1, <3>1
    <3> HIDE DEF At
    <3>3. picked[k] \in Leaf /\ source[m] \in Leaf
      BY <1>2, <1>3
    <3>4. QED
      BY <1>4, <3>1, <3>2, <3>3
  <2>2. CASE picked[k].id \notin IdsIn(source)
    BY <1>2, <2>2
  <2>3. QED
    BY <2>1, <2>2
<1> HIDE DEF At
<1>6. DOMAIN whole = DOMAIN picked /\ \A k \in DOMAIN picked : whole[k] = At(k)
  BY <1>1
<1>7. whole \in Seq(Leaf)
  <2>1. whole = [k \in 1..Len(picked) |-> At(k)]
    BY <1>1, <1>2
  <2> HIDE DEF whole
  <2>2. \A k \in 1..Len(picked) : At(k) \in Leaf
    BY <1>2, <1>5
  <2>3. whole \in [1..Len(picked) -> Leaf]
    BY <2>1, <2>2
  <2>4. QED
    BY <1>2, <2>3
<1> HIDE DEF whole
<1>8. QED
  BY <1>5, <1>6, <1>7 DEF whole

-----------------------------------------------------------------------------
(* The two calls and the specialists.                                      *)

\* A leaf has every field its page gives it, in some form.
Intact(leaf) ==
  \A f \in Fields : Projected(activated[leaf.id].page)[f] = "full" => leaf.fields[f] # "absent"

\* The leaves stay leaves; those that were activated are intact after the
\* first call, and after the second as far as they came through the first.
DispatchInv ==
  /\ stage_a_candidates \in Seq(Leaf) /\ picked_leaves \in Seq(Leaf)
  /\ phase \in {"walk", "signals", "escalate", "descend"} => stage_a_candidates = <<>>
  /\ phase \in {"walk", "signals", "escalate", "descend", "trim"} => picked_leaves = <<>>
  /\ phase \notin {"done", "faulted"} => prompts = <<>>
  /\ \A k \in DOMAIN stage_a_candidates :
       stage_a_candidates[k].id \in DOMAIN activated => Intact(stage_a_candidates[k])
  /\ \A k \in DOMAIN picked_leaves :
       picked_leaves[k].id \in DOMAIN activated \cap IdsIn(stage_a_candidates) => Intact(picked_leaves[k])
  /\ MetadataSurvives

\* activated_leaves has each activated id once, with the fields of its page.
LEMMA ActivatedAreIntact ==
  ASSUME WalkInv, ActShape(activated)
  PROVE  LET list == ActivatedLeaves(activated)
         IN  /\ list \in Seq(Leaf) /\ IdsIn(list) = DOMAIN activated
             /\ \A k \in DOMAIN list : Intact(list[k])
<1> DEFINE ids == Ordered(DOMAIN activated)
           N == Cardinality(DOMAIN activated)
           list == ActivatedLeaves(activated)
<1>1. DOMAIN activated \subseteq Ids
  BY ClosureIsLeast DEF ActShape
<1>2. IsFiniteSet(DOMAIN activated) /\ DOMAIN activated \in SUBSET Nat
  <2>1. DOMAIN activated \subseteq LeafIds
    BY ClosureIsLeast DEF ActShape
  <2>2. QED
    BY <1>1, <2>1, LeafIdsCount, FS_Subset DEF Ids
<1>3. /\ N \in Nat /\ DOMAIN ids = 1..N /\ \A n \in 1..N : ids[n] \in DOMAIN activated
      /\ \A i \in DOMAIN activated : \E n \in 1..N : ids[n] = i
  BY <1>2, OrderedLists
<1>4. list = [n \in DOMAIN ids |-> [id |-> ids[n], fields |-> Projected(activated[ids[n]].page)]]
  BY DEF ActivatedLeaves
<1> HIDE DEF ids, N
<1>5. /\ DOMAIN list = 1..N
      /\ \A n \in 1..N : list[n] = [id |-> ids[n], fields |-> Projected(activated[ids[n]].page)]
  BY <1>3, <1>4
<1>6. list = [n \in 1..N |-> list[n]]
  BY <1>3, <1>4
<1> HIDE DEF list
<1>7. ASSUME NEW n \in 1..N
      PROVE  list[n] \in Leaf /\ list[n].id = ids[n] /\ Intact(list[n])
  <2> DEFINE g == Projected(activated[ids[n]].page)
  <2>1. list[n] = [id |-> ids[n], fields |-> g]
    BY <1>5
  <2>2. g = [f \in Fields |-> g[f]] /\ \A f \in Fields : g[f] \in {"full", "absent"}
    BY DEF Projected
  <2>3. ids[n] \in Ids \cup {NumIds + 1}
    BY <1>1, <1>3
  <2>4. Intact([id |-> ids[n], fields |-> g])
    BY DEF Intact
  <2> HIDE DEF g
  <2>5. [id |-> ids[n], fields |-> g] \in Leaf
    BY <2>2, <2>3, MakesLeaf
  <2>6. QED
    BY <2>1, <2>4, <2>5
<1>8. list \in Seq(Leaf)
  <2>1. list \in [1..N -> Leaf]
    BY <1>6, <1>7
  <2>2. QED
    BY <1>3, <2>1
<1>9. IdsIn(list) = DOMAIN activated
  <2>1. \A n \in 1..N : list[n].id \in DOMAIN activated
    BY <1>3, <1>7
  <2>2. \A i \in DOMAIN activated : \E n \in 1..N : list[n].id = i
    BY <1>3, <1>7
  <2>3. QED
    BY <1>5, <2>1, <2>2 DEF IdsIn
<1>10. QED
  BY <1>5, <1>7, <1>8, <1>9 DEF list

\* What a call makes of the leaves it is given.
LEMMA CallKeepsIntact ==
  ASSUME NumIds \in Nat, NEW source \in Seq(Leaf), NEW answer \in Answers(source),
         \A k \in DOMAIN source : source[k].id \in DOMAIN activated => Intact(source[k])
  PROVE  LET result == Rehydrate(answer, source)
         IN  /\ result \in Seq(Leaf)
             /\ \A k \in DOMAIN result :
                  result[k].id \in DOMAIN activated \cap IdsIn(source) => Intact(result[k])
<1> DEFINE result == Rehydrate(answer, source)
<1>1. answer \in Seq(Leaf)
  BY AnswersAreLeaves
<1>2. /\ result \in Seq(Leaf) /\ DOMAIN result = DOMAIN answer
      /\ \A k \in DOMAIN answer :
           /\ result[k].id = answer[k].id
           /\ answer[k].id \in IdsIn(source) =>
                \E m \in DOMAIN source :
                  /\ source[m].id = answer[k].id
                  /\ \A f \in Fields : source[m].fields[f] # "absent" => result[k].fields[f] # "absent"
  BY <1>1, RehydrateRestores
<1> HIDE DEF result
<1>3. ASSUME NEW k \in DOMAIN result, result[k].id \in DOMAIN activated \cap IdsIn(source)
      PROVE  Intact(result[k])
  <2>1. PICK m \in DOMAIN source :
          /\ source[m].id = result[k].id
          /\ \A f \in Fields : source[m].fields[f] # "absent" => result[k].fields[f] # "absent"
    BY <1>2, <1>3
  <2>2. Intact(source[m])
    BY <1>3, <2>1
  <2>3. QED
    BY <2>1, <2>2 DEF Intact
<1>4. QED
  BY <1>2, <1>3 DEF result

\* The specialists are given what came through, whole.
LEMMA SpecialistsGetIntact ==
  ASSUME DispatchInv, DispatchSpecialists
  PROVE  MetadataSurvives'
<1> DEFINE Picked(i) == LastWith(picked_leaves, i)
<1>1. PICK tier \in [IdsIn(picked_leaves) -> {"strong", "cheap"}] :
        /\ \A i \in DOMAIN tier : tier[i] \in RouteTiers(Picked(i))
        /\ prompts' = [i \in DOMAIN tier |->
                         [body |-> Body(Picked(i)), tier |-> tier[i], fields |-> Picked(i).fields]]
  BY DEF DispatchSpecialists
<1>2. activated' = activated /\ stage_a_candidates' = stage_a_candidates /\ wiki' = wiki
  BY DEF DispatchSpecialists
<1>3. \A i \in IdsIn(picked_leaves) : \E k \in DOMAIN picked_leaves :
        Picked(i) = picked_leaves[k] /\ picked_leaves[k].id = i
  BY LastWithFinds DEF DispatchInv
<1>4. picked_leaves \in Seq(Leaf) /\ \A k \in DOMAIN picked_leaves : picked_leaves[k] \in Leaf
  BY DEF DispatchInv
<1> HIDE DEF Picked
<1>5. DOMAIN tier = IdsIn(picked_leaves) /\ DOMAIN prompts' = IdsIn(picked_leaves)
  BY <1>1
<1> SUFFICES ASSUME NEW i \in DOMAIN prompts' \cap DOMAIN activated \cap IdsIn(stage_a_candidates)
             PROVE  LET page == activated[i].page
                        fields == prompts'[i].fields
                        written == {f \in Fields : fields[f] = "own"}
                    IN /\ \A f \in {g \in Fields : Projected(page)[g] = "full"} \ written :
                            fields[f] = "full" \/ (f = "covers" /\ fields[f] = "thin")
                       /\ "path" \notin written => prompts'[i].body = page
                       /\ page \in Security /\ Projected(page)["dimensions"] = "full"
                             /\ "dimensions" \notin written
                            => prompts'[i].tier = "strong"
  BY <1>2 DEF MetadataSurvives, IdsIn, Projected
<1> DEFINE page == activated[i].page
           leaf == Picked(i)
<1>6. PICK k \in DOMAIN picked_leaves : leaf = picked_leaves[k] /\ picked_leaves[k].id = i
  BY <1>3, <1>5
<1>7. leaf \in Leaf /\ leaf.id = i /\ Intact(leaf)
  BY <1>4, <1>6 DEF DispatchInv
<1>8. prompts'[i] = [body |-> Body(leaf), tier |-> tier[i], fields |-> leaf.fields]
  BY <1>1, <1>5
<1>9. tier[i] \in RouteTiers(leaf)
  BY <1>1, <1>5
<1> HIDE DEF leaf
<1>10. ASSUME NEW f \in Fields, Projected(page)[f] = "full", leaf.fields[f] # "own"
       PROVE  leaf.fields[f] = "full" \/ (f = "covers" /\ leaf.fields[f] = "thin")
  <2>1. leaf.fields[f] # "absent"
    BY <1>7, <1>10 DEF Intact
  <2>2. leaf.fields[f] \in {"absent", "full", "thin", "own"} /\ (leaf.fields[f] = "thin" => f = "covers")
    BY <1>7 DEF Leaf
  <2>3. QED
    BY <1>10, <2>1, <2>2
<1>11. leaf.fields["path"] # "own" => Body(leaf) = page
  <2>1. "path" \in Fields /\ "path" # "covers"
    BY DEF Fields
  <2>2. Projected(page)["path"] = "full"
    BY <2>1 DEF Projected
  <2>3. leaf.fields["path"] # "own" => leaf.fields["path"] = "full"
    BY <1>10, <2>1, <2>2
  <2>4. leaf.fields["path"] = "full" => Body(leaf) = page
    BY <1>7 DEF Body
  <2>5. QED
    BY <2>3, <2>4
<1>12. ASSUME page \in Security, Projected(page)["dimensions"] = "full", leaf.fields["dimensions"] # "own"
       PROVE  tier[i] = "strong"
  <2>1. "dimensions" \in Fields /\ "dimensions" # "covers"
    BY DEF Fields
  <2>2. leaf.fields["dimensions"] = "full"
    BY <1>10, <1>12, <2>1
  <2>3. RouteTiers(leaf) = {"strong"}
    BY <1>7, <1>12, <2>2 DEF RouteTiers
  <2>4. QED
    BY <1>9, <2>3
<1>13. "path" \in Fields /\ "dimensions" \in Fields
  BY DEF Fields
<1>14. prompts'[i].fields = leaf.fields /\ prompts'[i].body = Body(leaf) /\ prompts'[i].tier = tier[i]
  BY <1>8
<1> HIDE DEF page
<1>15. QED
  BY <1>10, <1>11, <1>12, <1>13, <1>14 DEF page

\* Nothing the invariant speaks of changes.
LEMMA DispatchStays ==
  ASSUME DispatchInv,
         UNCHANGED <<wiki, activated, stage_a_candidates, picked_leaves, prompts>>,
         \/ phase' = phase
         \/ phase' \in {"done", "faulted"}
  PROVE  DispatchInv'
<1>1. \A p : Projected(p)' = Projected(p)
  BY DEF Projected
<1>2. MetadataSurvives'
  BY <1>1 DEF DispatchInv, MetadataSurvives, IdsIn
<1>3. /\ \A k \in DOMAIN stage_a_candidates' :
           stage_a_candidates'[k].id \in DOMAIN activated' => Intact(stage_a_candidates[k])'
      /\ \A k \in DOMAIN picked_leaves' :
           picked_leaves'[k].id \in DOMAIN activated' \cap IdsIn(stage_a_candidates)' =>
             Intact(picked_leaves[k])'
  BY <1>1 DEF DispatchInv, Intact, IdsIn
<1>4. QED
  BY <1>2, <1>3 DEF DispatchInv

\* While the leaves are activated there are no candidates yet.
LEMMA ActivateKeeps ==
  ASSUME WalkInv, DispatchInv, Activate
  PROVE  DispatchInv'
<1>1. /\ phase \in {"walk", "signals", "escalate"}
      /\ phase' \in {"walk", "signals", "escalate", "descend", "faulted"}
  BY DEF Activate, ActivationNext, Visit, WalkEnds, DiffRaises, OwnSignals, Escalate
<1>2. stage_a_candidates = <<>> /\ picked_leaves = <<>> /\ prompts = <<>>
  BY <1>1 DEF DispatchInv
<1>3. stage_a_candidates' = <<>> /\ picked_leaves' = <<>> /\ prompts' = <<>>
  BY <1>2 DEF Activate, dispatchVars
<1>4. <<>> \in Seq(Leaf) /\ DOMAIN <<>> = {}
  OBVIOUS
<1>5. QED
  BY <1>1, <1>3, <1>4 DEF DispatchInv, MetadataSurvives

\* Rehydration gives the candidates back what was stripped for the prompt.
LEMMA TreeDescendKeeps ==
  ASSUME WalkInv, ActInv, DispatchInv, TreeDescend
  PROVE  DispatchInv'
<1>1. /\ phase = "descend" /\ phase' = "trim" /\ wiki' = wiki /\ activated' = activated
      /\ picked_leaves' = picked_leaves /\ prompts' = prompts
  BY DEF TreeDescend
<1>2. PICK answer \in Answers(activated_leaves) :
        stage_a_candidates' = Rehydrate(answer, activated_leaves)
  BY DEF TreeDescend
<1>3. ActShape(activated) /\ activated_leaves = ActivatedLeaves(activated)
  BY <1>1 DEF ActInv
<1>4. /\ activated_leaves \in Seq(Leaf) /\ IdsIn(activated_leaves) = DOMAIN activated
      /\ \A k \in DOMAIN activated_leaves : Intact(activated_leaves[k])
  BY <1>3, ActivatedAreIntact
<1>5. NumIds \in Nat
  BY ActivationAssumption
<1>6. /\ stage_a_candidates' \in Seq(Leaf)
      /\ \A k \in DOMAIN stage_a_candidates' :
           stage_a_candidates'[k].id \in DOMAIN activated => Intact(stage_a_candidates'[k])
  BY <1>2, <1>4, <1>5, CallKeepsIntact
<1>7. \A k \in DOMAIN stage_a_candidates' :
        stage_a_candidates'[k].id \in DOMAIN activated' => Intact(stage_a_candidates[k])'
  BY <1>1, <1>6 DEF Intact, Projected
<1>8. picked_leaves' = <<>> /\ prompts' = <<>> /\ DOMAIN <<>> = {} /\ <<>> \in Seq(Leaf)
  BY <1>1 DEF DispatchInv
<1>9. MetadataSurvives'
  BY <1>8 DEF MetadataSurvives
<1>10. \A k \in DOMAIN picked_leaves' :
         picked_leaves'[k].id \in DOMAIN activated' \cap IdsIn(stage_a_candidates)' => Intact(picked_leaves[k])'
  BY <1>8
<1>11. QED
  BY <1>1, <1>6, <1>7, <1>8, <1>9, <1>10 DEF DispatchInv

\* And a second time the picked leaves, from the candidates.
LEMMA LlmTrimKeeps ==
  ASSUME WalkInv, DispatchInv, LlmTrim
  PROVE  DispatchInv'
<1>1. /\ phase = "trim" /\ phase' = "specialists" /\ wiki' = wiki /\ activated' = activated
      /\ stage_a_candidates' = stage_a_candidates /\ prompts' = prompts
  BY DEF LlmTrim
<1>2. PICK answer \in Answers(stage_a_candidates) :
        picked_leaves' = Rehydrate(answer, stage_a_candidates)
  BY DEF LlmTrim
<1>3. /\ stage_a_candidates \in Seq(Leaf)
      /\ \A k \in DOMAIN stage_a_candidates :
           stage_a_candidates[k].id \in DOMAIN activated => Intact(stage_a_candidates[k])
  BY DEF DispatchInv
<1>4. NumIds \in Nat
  BY ActivationAssumption
<1>5. /\ picked_leaves' \in Seq(Leaf)
      /\ \A k \in DOMAIN picked_leaves' :
           picked_leaves'[k].id \in DOMAIN activated \cap IdsIn(stage_a_candidates) => Intact(picked_leaves'[k])
  BY <1>2, <1>3, <1>4, CallKeepsIntact
<1>6. /\ \A k \in DOMAIN stage_a_candidates' :
           stage_a_candidates'[k].id \in DOMAIN activated' => Intact(stage_a_candidates[k])'
      /\ \A k \in DOMAIN picked_leaves' :
           picked_leaves'[k].id \in DOMAIN activated' \cap IdsIn(stage_a_candidates)' => Intact(picked_leaves[k])'
  BY <1>1, <1>3, <1>5 DEF Intact, Projected, IdsIn
<1>7. prompts' = <<>> /\ DOMAIN <<>> = {}
  BY <1>1 DEF DispatchInv
<1>8. MetadataSurvives'
  BY <1>7 DEF MetadataSurvives
<1>9. QED
  BY <1>1, <1>3, <1>5, <1>6, <1>7, <1>8 DEF DispatchInv

\* The specialists read the picked leaves and change none.
LEMMA DispatchSpecialistsKeeps ==
  ASSUME DispatchInv, DispatchSpecialists
  PROVE  DispatchInv'
<1>1. /\ phase' = "done" /\ wiki' = wiki /\ activated' = activated
      /\ stage_a_candidates' = stage_a_candidates /\ picked_leaves' = picked_leaves
  BY DEF DispatchSpecialists
<1>2. MetadataSurvives'
  BY SpecialistsGetIntact
<1>3. /\ \A k \in DOMAIN stage_a_candidates' :
           stage_a_candidates'[k].id \in DOMAIN activated' => Intact(stage_a_candidates[k])'
      /\ \A k \in DOMAIN picked_leaves' :
           picked_leaves'[k].id \in DOMAIN activated' \cap IdsIn(stage_a_candidates)' => Intact(picked_leaves[k])'
  BY <1>1 DEF DispatchInv, Intact, Projected, IdsIn
<1>4. QED
  BY <1>1, <1>2, <1>3 DEF DispatchInv

-----------------------------------------------------------------------------
(* The invariant and the theorems.                                         *)

\* The invariant of the whole route, from the walk to the prompts.
RoutingInv == WalkInv /\ ActInv /\ DispatchInv

\* At the root of the wiki nothing is listed, activated or picked yet.
LEMMA InitRouting == Init => RoutingInv
<1>1. Init => WalkInv
  BY InitWalk
<1>2. Init => ActInv
  BY DEF Init, ActivationInit, ActInv
<1>3. <<>> \in Seq(Leaf) /\ DOMAIN <<>> = {}
  OBVIOUS
<1>4. Init => DispatchInv
  BY <1>3 DEF Init, ActivationInit, DispatchInv, MetadataSurvives
<1>5. QED
  BY <1>1, <1>2, <1>4 DEF RoutingInv

\* Each step of the walk, the gate and the calls keeps the three parts.
LEMMA NextRouting == RoutingInv /\ [Next]_vars => RoutingInv'
<1> SUFFICES ASSUME WalkInv, ActInv, DispatchInv, [Next]_vars
             PROVE  WalkInv' /\ ActInv' /\ DispatchInv'
  BY DEF RoutingInv
<1>1. WalkInv' /\ ActInv'
  BY NextWalk, NextAct
<1>2. CASE Activate
  BY <1>1, <1>2, ActivateKeeps
<1>3. CASE NothingToCall
  BY <1>1, <1>3, DispatchStays DEF NothingToCall, dispatchVars
<1>4. CASE TreeDescend
  BY <1>1, <1>4, TreeDescendKeeps
<1>5. CASE LlmTrim
  BY <1>1, <1>5, LlmTrimKeeps
<1>6. CASE CallFails
  <2>1. /\ phase' \in {phase, "faulted"}
        /\ UNCHANGED <<wiki, activated, stage_a_candidates, picked_leaves, prompts>>
    BY <1>6 DEF CallFails
  <2>2. QED
    BY <1>1, <2>1, DispatchStays
<1>7. CASE DispatchSpecialists
  BY <1>1, <1>7, DispatchSpecialistsKeeps
<1>8. CASE UNCHANGED vars
  BY <1>1, <1>8, DispatchStays DEF vars, activationVars, dispatchVars
<1>9. QED
  BY <1>2, <1>3, <1>4, <1>5, <1>6, <1>7, <1>8 DEF Next, Ended

\* From the first directory entered to the last prompt written, the walk, the
\* rounds of escalation and the leaves in hand are as RoutingInv says.
THEOREM RoutingInvariant == Spec => []RoutingInv
<1>1. QED
  BY InitRouting, NextRouting, PTL DEF Spec

\* As long as the thin form of the leaves fits the prompt, every leaf of the
\* list is put before the model, however long its lists are.
THEOREM LeavesAreShown == Spec => []LeavesReachTheModel
<1>1. RoutingInv => LeavesReachTheModel
  <2> SUFFICES ASSUME WalkInv, ActInv, DispatchInv, phase \in {"descend", "trim"}
               PROVE  CallInput \in Seq(Leaf)
    BY ShownLeaves DEF RoutingInv, LeavesReachTheModel
  <2>1. CASE phase = "descend"
    <3>1. ActShape(activated) /\ activated_leaves = ActivatedLeaves(activated)
      BY <2>1 DEF ActInv
    <3>2. activated_leaves \in Seq(Leaf)
      BY <3>1, ActivatedAreIntact
    <3>3. QED
      BY <2>1, <3>2 DEF CallInput
  <2>2. CASE phase = "trim"
    BY <2>2 DEF CallInput, DispatchInv
  <2>3. QED
    BY <2>1, <2>2
<1>2. QED
  BY <1>1, RoutingInvariant, PTL

\* In a leaf that was activated and came through both calls, each field the
\* wiki filled is the wiki's again or what a model wrote into it; only covers
\* may be the wiki's list as the prompt had cut it.  With its own path the
\* leaf has the page's body, with its own dimensions the tier they ask for.
THEOREM MetadataIsReattached == Spec => []MetadataSurvives
<1>1. RoutingInv => MetadataSurvives
  BY DEF RoutingInv, DispatchInv
<1>2. QED
  BY <1>1, RoutingInvariant, PTL

=============================================================================
