------------------------ MODULE FindingCollectorProofs ------------------------
(***************************************************************************)
(* Theorems about FindingCollector, for every set of candidate findings,   *)
(* every number of them and every answer of the similarity test: the exact *)
(* merge does not depend on the order of its input, the union-find groups  *)
(* exactly what chains of alike findings join, and neither merge loses,    *)
(* plays down or misquotes a finding on its way to the gates.              *)
(***************************************************************************)
EXTENDS FindingCollector, Integers, FiniteSetTheorems, SequenceTheorems, WellFoundedInduction, TLAPS

USE CollectorAssumption

-----------------------------------------------------------------------------
(* The invariant.                                                          *)

Record ==
  [file : Nat, line : Nat, title : Nat, severity : 1..3, flagged_by : SUBSET Leaves, winner : Leaves]

\* The findings are a list of records, no two with one key.
ShapeInv ==
  /\ stage \in {"exact", "compare", "group", "rank", "gates", "judged"}
  /\ raised \subseteq Leaves \X Candidates /\ IsFiniteSet(raised)
  /\ findings \in Seq(Record) /\ dropped \subseteq Record
  /\ \A i, j \in DOMAIN findings : DedupKey(findings[i]) = DedupKey(findings[j]) => i = j
  /\ stage = "exact" => findings = <<>> /\ pair = <<1, 2>> /\ alike = {}
  /\ stage \notin {"gates", "judged"} => dropped = {}
  /\ gates \in [Gates -> {"none", "N/A", "PASS", "FAIL"}]

\* The record of each key after any prefix of the findings that are read.
OfKey(key) == {r \in raised : DedupKey(r[2]) = key}
ExactInv ==
  /\ DOMAIN merged = {DedupKey(r[2]) : r \in raised}
  /\ \A key \in DOMAIN merged :
       /\ merged[key] \in Record /\ DedupKey(merged[key]) = key
       /\ merged[key].flagged_by = {r[1] : r \in OfKey(key)}
       /\ \E r \in OfKey(key) : r[1] = merged[key].winner /\ r[2].severity = merged[key].severity
       /\ \A r \in OfKey(key) :
            /\ r[2].severity <= merged[key].severity
            /\ r[2].severity = merged[key].severity => merged[key].winner <= r[1]

\* The records past the exact merge quote truly, and stand for all that was raised.
Quoted(held) ==
  /\ held.winner \in held.flagged_by
  /\ \E f \in Candidates :
       <<held.winner, f>> \in raised /\ DedupKey(f) = DedupKey(held) /\ f.severity = held.severity
  /\ \A leaf \in held.flagged_by : \E f \in Candidates : <<leaf, f>> \in raised /\ f.file = held.file
StandsFor(held, r) == held.file = r[2].file /\ r[1] \in held.flagged_by /\ held.severity >= r[2].severity
HeldInv ==
  /\ \A held \in Records(findings) \cup dropped : Quoted(held)
  /\ stage # "exact" => \A r \in raised : \E held \in Records(findings) \cup dropped : StandsFor(held, r)

\* The double loop is at a pair of nodes of the union-find, the indexes.
Nodes == DOMAIN findings
PairInv ==
  stage = "compare" =>
    /\ pair \in Nodes \X Nodes /\ pair[1] < pair[2]

\* parent is a forest: root says where each walk ends, and above which nodes
\* it may meet on its way there.
Forest(nodes, p, root, above) ==
  /\ p \in [nodes -> nodes] /\ root \in [nodes -> nodes] /\ above \in [nodes -> SUBSET nodes]
  /\ \A x \in nodes :
       /\ p[root[x]] = root[x] /\ root[p[x]] = root[x]
       /\ x \notin above[x]
       /\ p[x] = x => root[x] = x /\ above[x] = {}
       /\ p[x] # x => p[x] \in above[x] /\ above[p[x]] \subseteq above[x]

\* Its trees are what the alike pairs join.
Closed(pairs, S) == \A p \in pairs : p[1] \in S <=> p[2] \in S
Joins(nodes, pairs, root) ==
  /\ \A p \in pairs : root[p[1]] = root[p[2]]
  /\ \A S \in SUBSET nodes :
       Closed(pairs, S) => \A x, y \in nodes : root[x] = root[y] => (x \in S <=> y \in S)
ForestInv ==
  stage \in {"compare", "group"} =>
    /\ alike \subseteq Nodes \X Nodes
    /\ \A p \in alike : findings[p[1]].file = findings[p[2]].file
    /\ \E root \in [Nodes -> Nodes], above \in [Nodes -> SUBSET Nodes] :
         Forest(Nodes, parent, root, above) /\ Joins(Nodes, alike, root)

\* The gates' verdict on what was raised.
GatesInv == BlockersReachGates

CollectorInv == ShapeInv /\ ExactInv /\ HeldInv /\ PairInv /\ ForestInv /\ GatesInv

-----------------------------------------------------------------------------
(* Lists in an order.                                                      *)

\* A non-empty set of numbers has a least one.
LEMMA LeastNumber ==
  ASSUME NEW T \in SUBSET Nat, T # {}
  PROVE  \E m \in T : \A k \in T : m <= k
<1> DEFINE less == {ss \in Nat \X Nat : ss[1] < ss[2]}
<1>1. IsWellFoundedOn(less, Nat)
  BY NatLessThanWellFounded DEF OpToRel
<1>2. PICK m \in T : \A k \in T : <<k, m>> \notin less
  BY <1>1, WFMin
<1>3. ASSUME NEW k \in T
      PROVE  m <= k
  <2>1. <<k, m>> \in Nat \X Nat /\ m \in Nat /\ k \in Nat
    OBVIOUS
  <2>2. ~(<<k, m>>[1] < <<k, m>>[2])
    BY <1>2, <2>1
  <2>3. QED
    BY <2>1, <2>2
<1>4. QED
  BY <1>3

\* What holds at zero and goes from each number to the next holds for all.
LEMMA CountingUp ==
  ASSUME NEW T \in SUBSET Nat, 0 \in T, \A n \in Nat : n \in T => n + 1 \in T
  PROVE  T = Nat
<1> SUFFICES ASSUME Nat \ T # {}
             PROVE  FALSE
  OBVIOUS
<1>1. PICK m \in Nat \ T : \A k \in Nat \ T : m <= k
  BY LeastNumber
<1>2. m # 0 /\ m - 1 \in Nat /\ m = (m - 1) + 1 /\ ~(m <= m - 1)
  OBVIOUS
<1>3. QED
  BY <1>1, <1>2

\* In a strict total order on a finite set, given by what is before each
\* element, no two elements have as many before them, and some element has
\* any number of them before it.
LEMMA Places ==
  ASSUME NEW S, IsFiniteSet(S), NEW before \in [S -> SUBSET S],
         \A a \in S : a \notin before[a],
         \A a, b \in S : a \in before[b] => before[a] \subseteq before[b],
         \A a, b \in S : a = b \/ a \in before[b] \/ b \in before[a]
  PROVE  /\ Cardinality(S) \in Nat
         /\ \A a, b \in S : Cardinality(before[a]) = Cardinality(before[b]) => a = b
         /\ \A i \in 1..Cardinality(S) : \E a \in S : Cardinality(before[a]) = i - 1
<1> DEFINE n == Cardinality(S)
           rank == [a \in S |-> Cardinality(before[a]) + 1]
<1>1. n \in Nat /\ IsFiniteSet(1..n) /\ Cardinality(1..n) = n
  BY FS_CardinalityType, FS_Interval
<1>2. \A a \in S : IsFiniteSet(before[a]) /\ Cardinality(before[a]) \in Nat
  BY FS_Subset, FS_CardinalityType
<1>3. \A a \in S : Cardinality(before[a]) < n
  <2> TAKE a \in S
  <2>1. before[a] \subseteq S /\ before[a] # S
    OBVIOUS
  <2>2. Cardinality(before[a]) <= n /\ Cardinality(before[a]) # n
    BY <2>1, FS_Subset
  <2>3. QED
    BY <1>1, <1>2, <2>2
<1>4. \A a, b \in S : a \in before[b] => Cardinality(before[a]) < Cardinality(before[b])
  <2> SUFFICES ASSUME NEW a \in S, NEW b \in S, a \in before[b]
               PROVE  Cardinality(before[a]) < Cardinality(before[b])
    OBVIOUS
  <2>1. before[a] \subseteq before[b] /\ before[a] # before[b]
    OBVIOUS
  <2>2. /\ Cardinality(before[a]) <= Cardinality(before[b])
        /\ Cardinality(before[a]) # Cardinality(before[b])
    BY <1>2, <2>1, FS_Subset
  <2>3. QED
    BY <1>2, <2>2
<1>5. \A a, b \in S : Cardinality(before[a]) = Cardinality(before[b]) => a = b
  BY <1>2, <1>4
<1>6. rank \in Injection(S, 1..n)
  <2>1. rank \in [S -> 1..n]
    BY <1>1, <1>2, <1>3
  <2>2. \A a, b \in S : rank[a] = rank[b] => a = b
    BY <1>2, <1>5
  <2>3. QED
    BY <2>1, <2>2 DEF Injection, IsInjective
<1>7. rank \in Surjection(S, 1..n)
  BY <1>1, <1>6, FS_Injection
<1>8. ASSUME NEW i \in 1..n
      PROVE  \E a \in S : Cardinality(before[a]) = i - 1
  <2>1. PICK a \in S : rank[a] = i
    BY <1>7 DEF Surjection
  <2>2. QED
    BY <1>2, <2>1
<1>9. QED
  BY <1>1, <1>5, <1>8

\* _sort_key orders the records, those of one key aside.
LEMMA SortKeyOrders ==
  /\ \A a \in Record : ~SortsBefore(a, a)
  /\ \A a, b, c \in Record : SortsBefore(a, b) /\ SortsBefore(b, c) => SortsBefore(a, c)
  /\ \A a, b \in Record : SortsBefore(a, b) \/ SortsBefore(b, a) \/ DedupKey(a) = DedupKey(b)
<1>1. \A a \in Record : a.severity \in Nat /\ a.file \in Nat /\ a.line \in Nat /\ a.title \in Nat
  BY DEF Record
<1>2. QED
  BY <1>1 DEF SortsBefore, DedupKey

\* Sorted lists every record of a set once.
LEMMA SortedLists ==
  ASSUME NEW S \in SUBSET Record, IsFiniteSet(S),
         \A a, b \in S : DedupKey(a) = DedupKey(b) => a = b
  PROVE  /\ Sorted(S) \in Seq(Record) /\ DOMAIN Sorted(S) = 1..Cardinality(S)
         /\ Records(Sorted(S)) = S
         /\ \A i, j \in DOMAIN Sorted(S) :
              DedupKey(Sorted(S)[i]) = DedupKey(Sorted(S)[j]) => i = j
<1> DEFINE before == [r \in S |-> {q \in S : SortsBefore(q, r)}]
           n == Cardinality(S)
<1>1. /\ n \in Nat
      /\ \A a, b \in S : Cardinality(before[a]) = Cardinality(before[b]) => a = b
      /\ \A i \in 1..n : \E a \in S : Cardinality(before[a]) = i - 1
  <2>1. before \in [S -> SUBSET S]
    OBVIOUS
  <2>2. \A a \in S : a \notin before[a]
    BY SortKeyOrders
  <2>3. \A a, b \in S : a \in before[b] => before[a] \subseteq before[b]
    BY SortKeyOrders
  <2>4. \A a, b \in S : a = b \/ a \in before[b] \/ b \in before[a]
    BY SortKeyOrders
  <2> HIDE DEF before
  <2>5. QED
    BY <2>1, <2>2, <2>3, <2>4, Places
<1>2. \A i \in 1..n : Sorted(S)[i] \in S /\ Cardinality(before[Sorted(S)[i]]) = i - 1
  <2> TAKE i \in 1..n
  <2>1. Sorted(S)[i] = CHOOSE r \in S : Cardinality({q \in S : SortsBefore(q, r)}) = i - 1
    BY DEF Sorted
  <2>2. \E r \in S : Cardinality({q \in S : SortsBefore(q, r)}) = i - 1
    BY <1>1
  <2>3. Sorted(S)[i] \in S /\ Cardinality({q \in S : SortsBefore(q, Sorted(S)[i])}) = i - 1
    BY <2>1, <2>2
  <2>4. QED
    BY <2>3
<1>3. DOMAIN Sorted(S) = 1..n /\ Sorted(S) \in Seq(S)
  <2> DEFINE at(i) == CHOOSE r \in S : Cardinality({q \in S : SortsBefore(q, r)}) = i - 1
  <2>1. Sorted(S) = [i \in 1..n |-> at(i)]
    BY DEF Sorted
  <2> HIDE DEF at
  <2>2. DOMAIN Sorted(S) = 1..n /\ Sorted(S) = [i \in 1..n |-> Sorted(S)[i]]
    BY <2>1
  <2> HIDE DEF before
  <2>3. Sorted(S) \in [1..n -> S]
    BY <1>2, <2>2
  <2>4. QED
    BY <1>1, <2>2, <2>3
<1>4. \A i, j \in 1..n : Sorted(S)[i] = Sorted(S)[j] => i = j
  <2> HIDE DEF before
  <2>1. QED
    BY <1>2
<1>5. ASSUME NEW r \in S
      PROVE  \E i \in 1..n : Sorted(S)[i] = r
  <2>1. IsFiniteSet(before[r]) /\ Cardinality(before[r]) \in Nat /\ Cardinality(before[r]) < n
    <3>1. before[r] \subseteq S /\ before[r] # S
      BY SortKeyOrders
    <3>2. Cardinality(before[r]) <= n /\ Cardinality(before[r]) # n /\ IsFiniteSet(before[r])
      BY <3>1, FS_Subset
    <3>3. QED
      BY <1>1, <3>2, FS_CardinalityType
  <2> HIDE DEF before
  <2>2. Cardinality(before[r]) + 1 \in 1..n
    BY <1>1, <2>1
  <2>3. Cardinality(before[Sorted(S)[Cardinality(before[r]) + 1]]) = Cardinality(before[r])
    BY <1>2, <2>1, <2>2
  <2>4. QED
    BY <1>1, <1>2, <2>2, <2>3
<1>6. Records(Sorted(S)) = S
  BY <1>2, <1>3, <1>5 DEF Records
<1>7. Sorted(S) \in Seq(Record)
  BY <1>3
<1>8. \A i, j \in 1..n : DedupKey(Sorted(S)[i]) = DedupKey(Sorted(S)[j]) => i = j
  <2> HIDE DEF before
  <2>1. \A i \in 1..n : Sorted(S)[i] \in S
    BY <1>2
  <2>2. QED
    BY <1>4, <2>1
<1>9. QED
  BY <1>3, <1>6, <1>7, <1>8

\* Listed lists the findings at the indexes once each.
LEMMA ListedLists ==
  ASSUME ShapeInv, NEW K \in SUBSET DOMAIN findings
  PROVE  /\ Listed(K) \in Seq(Record)
         /\ Records(Listed(K)) = {findings[i] : i \in K}
         /\ \A i, j \in DOMAIN Listed(K) :
              DedupKey(Listed(K)[i]) = DedupKey(Listed(K)[j]) => i = j
<1> DEFINE before == [i \in K |-> {j \in K : j < i}]
           n == Cardinality(K)
           place(k) == CHOOSE i \in K : Cardinality({j \in K : j < i}) = k - 1
<1>1. findings \in Seq(Record) /\ K \subseteq Nat /\ IsFiniteSet(K)
  <2>1. findings \in Seq(Record) /\ Len(findings) \in Nat /\ DOMAIN findings = 1..Len(findings)
    BY DEF ShapeInv
  <2>2. IsFiniteSet(1..Len(findings))
    BY <2>1, FS_Interval
  <2>3. QED
    BY <2>1, <2>2, FS_Subset
<1>2. /\ n \in Nat
      /\ \A a, b \in K : Cardinality(before[a]) = Cardinality(before[b]) => a = b
      /\ \A k \in 1..n : \E a \in K : Cardinality(before[a]) = k - 1
  <2>1. before \in [K -> SUBSET K]
    OBVIOUS
  <2>2. \A a \in K : a \notin before[a]
    BY <1>1
  <2>3. \A a, b \in K : a \in before[b] => before[a] \subseteq before[b]
    BY <1>1
  <2>4. \A a, b \in K : a = b \/ a \in before[b] \/ b \in before[a]
    BY <1>1
  <2> HIDE DEF before
  <2>5. QED
    BY <1>1, <2>1, <2>2, <2>3, <2>4, Places
<1>3. \A k \in 1..n : place(k) \in K /\ Cardinality(before[place(k)]) = k - 1
  <2> TAKE k \in 1..n
  <2>1. \E i \in K : Cardinality({j \in K : j < i}) = k - 1
    BY <1>2
  <2>2. place(k) \in K /\ Cardinality({j \in K : j < place(k)}) = k - 1
    BY <2>1
  <2>3. QED
    BY <2>2
<1>4. ASSUME NEW a \in K
      PROVE  \E k \in 1..n : place(k) = a
  <2>1. IsFiniteSet(before[a]) /\ Cardinality(before[a]) \in Nat /\ Cardinality(before[a]) < n
    <3>1. before[a] \subseteq K /\ before[a] # K
      BY <1>1
    <3>2. Cardinality(before[a]) <= n /\ Cardinality(before[a]) # n /\ IsFiniteSet(before[a])
      BY <1>1, <3>1, FS_Subset
    <3>3. QED
      BY <1>2, <3>2, FS_CardinalityType
  <2> HIDE DEF before, place
  <2>2. Cardinality(before[a]) + 1 \in 1..n
    BY <1>2, <2>1
  <2>3. Cardinality(before[place(Cardinality(before[a]) + 1)]) = Cardinality(before[a])
    BY <1>3, <2>1, <2>2
  <2>4. QED
    BY <1>2, <1>3, <2>2, <2>3
<1>5. Listed(K) = [k \in 1..n |-> findings[place(k)]]
  BY DEF Listed
<1> HIDE DEF place, before
<1>6. \A k, m \in 1..n : place(k) = place(m) => k = m
  BY <1>3
<1>7. \A k \in 1..n : place(k) \in DOMAIN findings
  BY <1>3
<1>8. \A k \in 1..n : findings[place(k)] \in Record
  BY <1>1, <1>7
<1>9. Listed(K) \in Seq(Record) /\ DOMAIN Listed(K) = 1..n
  BY <1>2, <1>5, <1>8
<1>10. Records(Listed(K)) = {findings[i] : i \in K}
  BY <1>3, <1>4, <1>5, <1>9 DEF Records
<1>11. \A i, j \in DOMAIN Listed(K) : DedupKey(Listed(K)[i]) = DedupKey(Listed(K)[j]) => i = j
  BY <1>5, <1>6, <1>7, <1>9 DEF ShapeInv
<1>12. QED
  BY <1>9, <1>10, <1>11

-----------------------------------------------------------------------------
(* The union-find.                                                         *)

\* Walk is what its definition says: the turns of the loop one after another.
LEMMA WalkTurns ==
  ASSUME NEW p, NEW x, Len(p) \in Nat
  PROVE  /\ Walk(p, x)[0] = [parent |-> p, at |-> x]
         /\ \A k \in 0..Len(p) : k # 0 => Walk(p, x)[k] = Stride(Walk(p, x)[k - 1])
<1> DEFINE start == [parent |-> p, at |-> x]
           IsWalk(w, n) == w = [k \in 0..n |-> IF k = 0 THEN start ELSE Stride(w[k - 1])]
           T == {n \in Nat : \E w : IsWalk(w, n)}
<1> HIDE DEF start
<1>1. 0 \in T
  <2> DEFINE w == [k \in 0..0 |-> start]
  <2>1. IsWalk(w, 0)
    OBVIOUS
  <2>2. QED
    BY <2>1
<1>2. ASSUME NEW n \in Nat, n \in T
      PROVE  n + 1 \in T
  <2>1. PICK w : IsWalk(w, n)
    BY <1>2
  <2> DEFINE v == [k \in 0..(n + 1) |-> IF k <= n THEN w[k] ELSE Stride(w[n])]
  <2>2. ASSUME NEW k \in 0..(n + 1)
        PROVE  v[k] = IF k = 0 THEN start ELSE Stride(v[k - 1])
    <3>1. CASE k = 0
      BY <2>1, <3>1
    <3>2. CASE k # 0 /\ k <= n
      <4>1. k \in 0..n /\ k - 1 \in 0..(n + 1) /\ k - 1 <= n /\ v[k] = w[k] /\ v[k - 1] = w[k - 1]
        BY <3>2
      <4>2. w[k] = Stride(w[k - 1])
        BY <2>1, <3>2, <4>1
      <4>3. QED
        BY <3>2, <4>1, <4>2
    <3>3. CASE k = n + 1
      <4>1. k # 0 /\ ~(k <= n) /\ k - 1 = n /\ n \in 0..(n + 1) /\ v[n] = w[n] /\ v[k] = Stride(w[n])
        BY <3>3
      <4>2. QED
        BY <4>1
    <3>4. QED
      BY <3>1, <3>2, <3>3
  <2>3. v = [k \in 0..(n + 1) |-> v[k]]
    OBVIOUS
  <2> HIDE DEF v
  <2>4. IsWalk(v, n + 1)
    BY <2>2, <2>3
  <2>5. QED
    BY <2>4
<1>3. T = Nat
  <2> HIDE DEF T
  <2>1. T \subseteq Nat
    BY DEF T
  <2>2. QED
    BY <1>1, <1>2, <2>1, CountingUp
<1>4. PICK w : IsWalk(w, Len(p))
  BY <1>3
<1>5. Walk(p, x) = CHOOSE walk : IsWalk(walk, Len(p))
  BY DEF Walk, start
<1>6. IsWalk(Walk(p, x), Len(p))
  BY <1>4, <1>5
<1>7. QED
  BY <1>6 DEF start

\* A turn of the loop leaves every node its root, and goes up.
LEMMA StrideKeeps ==
  ASSUME NEW nodes, NEW p, NEW root, NEW above, Forest(nodes, p, root, above),
         NEW at \in nodes, NEW w, w = [parent |-> p, at |-> at]
  PROVE  /\ Forest(nodes, Stride(w).parent, root, above)
         /\ Stride(w).at \in nodes /\ root[Stride(w).at] = root[at]
         /\ p[at] = at => Stride(w) = w
         /\ p[at] # at =>
              /\ Stride(w).at \in above[at] /\ above[Stride(w).at] \subseteq above[at]
<1>1. CASE p[at] = at
  BY <1>1 DEF Stride
<1>2. CASE p[at] # at
  <2> DEFINE q == [p EXCEPT ![at] = p[p[at]]]
  <2>1. Stride(w) = [parent |-> q, at |-> q[at]]
    BY <1>2 DEF Stride
  <2>2. q \in [nodes -> nodes] /\ q[at] = p[p[at]] /\ \A y \in nodes : y # at => q[y] = p[y]
    BY DEF Forest
  <2>3. q[at] \in above[at] /\ above[q[at]] \subseteq above[at] /\ root[q[at]] = root[at] /\ q[at] # at
    <3>1. p[at] \in nodes /\ p[at] \in above[at] /\ above[p[at]] \subseteq above[at]
      BY <1>2 DEF Forest
    <3>2. CASE p[p[at]] = p[at]
      BY <2>2, <3>1, <3>2 DEF Forest
    <3>3. CASE p[p[at]] # p[at]
      BY <2>2, <3>1, <3>3 DEF Forest
    <3>4. QED
      BY <3>2, <3>3
  <2>4. Forest(nodes, q, root, above)
    <3> HIDE DEF q
    <3>1. ASSUME NEW y \in nodes
          PROVE  /\ q[root[y]] = root[y] /\ root[q[y]] = root[y]
                 /\ y \notin above[y]
                 /\ q[y] = y => root[y] = y /\ above[y] = {}
                 /\ q[y] # y => q[y] \in above[y] /\ above[q[y]] \subseteq above[y]
      <4>1. root[y] # at /\ root[y] \in nodes
        BY <1>2 DEF Forest
      <4>2. q[root[y]] = root[y]
        BY <2>2, <4>1 DEF Forest
      <4>3. CASE y = at
        BY <2>3, <4>2, <4>3 DEF Forest
      <4>4. CASE y # at
        BY <2>2, <4>2, <4>4 DEF Forest
      <4>5. QED
        BY <4>3, <4>4
    <3>2. QED
      BY <2>2, <3>1 DEF Forest
  <2> HIDE DEF q
  <2>5. q[at] \in nodes
    BY <2>2
  <2>6. QED
    BY <1>2, <2>1, <2>3, <2>4, <2>5
<1>3. QED
  BY <1>1, <1>2

\* find returns the root, whatever the halving of the path does on the way.
LEMMA FindsRoot ==
  ASSUME NEW n \in Nat, NEW p, NEW root, NEW above, Forest(1..n, p, root, above), NEW x \in 1..n
  PROVE  Find(p, x).at = root[x] /\ Forest(1..n, Find(p, x).parent, root, above)
<1> DEFINE w == Walk(p, x)
           Height(y) == Cardinality(above[y])
           Good(k) ==
             /\ w[k] = [parent |-> w[k].parent, at |-> w[k].at]
             /\ Forest(1..n, w[k].parent, root, above)
             /\ w[k].at \in 1..n /\ root[w[k].at] = root[x]
             /\ w[k].parent[w[k].at] = w[k].at \/ Height(w[k].at) + k + 1 <= n
           T == {k \in Nat : k <= n => Good(k)}
<1>1. Len(p) = n
  BY DEF Forest
<1>2. /\ w[0] = [parent |-> p, at |-> x]
      /\ \A k \in 0..n : k # 0 => w[k] = Stride(w[k - 1])
  BY <1>1, WalkTurns
<1> HIDE DEF w
<1>3. \A y \in 1..n : IsFiniteSet(above[y]) /\ Height(y) \in Nat /\ Height(y) + 1 <= n
  <2> TAKE y \in 1..n
  <2>1. above[y] \subseteq 1..n /\ above[y] # 1..n
    BY DEF Forest
  <2>2. IsFiniteSet(1..n) /\ Cardinality(1..n) = n
    BY FS_Interval
  <2>3. IsFiniteSet(above[y]) /\ Height(y) <= n /\ Height(y) # n
    BY <2>1, <2>2, FS_Subset
  <2>4. Height(y) \in Nat
    BY <2>3, FS_CardinalityType
  <2> HIDE DEF Height
  <2>5. QED
    BY <2>3, <2>4
<1>4. 0 \in T
  BY <1>2, <1>3
<1>5. ASSUME NEW k \in Nat, k \in T
      PROVE  k + 1 \in T
  <2> SUFFICES ASSUME k + 1 <= n
               PROVE  Good(k + 1)
    OBVIOUS
  <2>1. Good(k)
    BY <1>5
  <2>2. w[k + 1] = Stride(w[k])
    <3>1. k + 1 \in 0..n /\ k + 1 # 0 /\ (k + 1) - 1 = k
      OBVIOUS
    <3>2. QED
      BY <1>2, <3>1
  <2> DEFINE q == w[k].parent
             y == w[k].at
  <2>3. /\ Forest(1..n, Stride(w[k]).parent, root, above)
        /\ Stride(w[k]).at \in 1..n /\ root[Stride(w[k]).at] = root[y]
        /\ q[y] = y => Stride(w[k]) = w[k]
        /\ q[y] # y => Stride(w[k]).at \in above[y] /\ above[Stride(w[k]).at] \subseteq above[y]
    <3>1. w[k] = [parent |-> q, at |-> y] /\ Forest(1..n, q, root, above) /\ y \in 1..n
      BY <2>1
    <3> HIDE DEF q, y
    <3>2. QED
      BY <3>1, StrideKeeps
  <2>4. w[k + 1] = [parent |-> w[k + 1].parent, at |-> w[k + 1].at]
    BY <2>1, <2>2 DEF Stride
  <2>5. w[k + 1].parent[w[k + 1].at] = w[k + 1].at \/ Height(w[k + 1].at) + (k + 1) + 1 <= n
    <3>1. CASE q[y] = y
      BY <2>2, <2>3, <3>1
    <3>2. CASE q[y] # y
      <4> DEFINE z == w[k + 1].at
      <4>1. z \in 1..n /\ z \in above[y] /\ above[z] \subseteq above[y] /\ z \notin above[z]
        BY <2>2, <2>3, <3>2 DEF Forest
      <4>2. Height(y) + k + 1 <= n /\ y \in 1..n
        BY <2>1, <3>2
      <4> HIDE DEF z, y
      <4>3. Height(z) <= Height(y) /\ Height(z) # Height(y)
        BY <1>3, <4>1, <4>2, FS_Subset
      <4>4. Height(z) \in Nat /\ Height(y) \in Nat
        BY <1>3, <4>1, <4>2
      <4> HIDE DEF Height
      <4>5. Height(z) + (k + 1) + 1 <= n
        BY <4>2, <4>3, <4>4
      <4>6. QED
        BY <4>5 DEF z
    <3>3. QED
      BY <3>1, <3>2
  <2>6. QED
    BY <2>1, <2>2, <2>3, <2>4, <2>5
<1>6. n \in T
  <2> HIDE DEF T
  <2>1. T \subseteq Nat
    BY DEF T
  <2>2. T = Nat
    BY <1>4, <1>5, <2>1, CountingUp
  <2>3. QED
    BY <2>2
<1>7. Good(n)
  BY <1>6
<1>8. w[n].parent[w[n].at] = w[n].at
  <2>1. Height(w[n].at) \in Nat
    BY <1>3, <1>7
  <2> HIDE DEF Height
  <2>2. ~(Height(w[n].at) + n + 1 <= n)
    BY <2>1
  <2>3. QED
    BY <1>7, <2>2
<1>9. w[n].at = root[x]
  BY <1>7, <1>8 DEF Forest
<1>10. QED
  BY <1>1, <1>7, <1>9 DEF Find, w

\* Hanging one root under the other joins the two trees, and no others.
LEMMA UnionJoins ==
  ASSUME NEW n \in Nat, NEW p, NEW root, NEW above, Forest(1..n, p, root, above),
         NEW pairs \in SUBSET ((1..n) \X (1..n)), Joins(1..n, pairs, root),
         NEW i \in 1..n, NEW j \in 1..n
  PROVE  \E newRoot, newAbove :
           /\ Forest(1..n, Union(p, i, j), newRoot, newAbove)
           /\ Joins(1..n, pairs \cup {<<i, j>>}, newRoot)
<1> DEFINE nodes == 1..n
           fj == Find(p, j)
           fi == Find(fj.parent, i)
           q == fi.parent
           ri == root[i]
           rj == root[j]
           u == [q EXCEPT ![ri] = rj]
           newRoot == [x \in nodes |-> IF root[x] = ri THEN rj ELSE root[x]]
           newAbove == [x \in nodes |-> IF root[x] = ri /\ ri # rj THEN above[x] \cup {rj} ELSE above[x]]
<1>1. fj.at = rj /\ Forest(nodes, fj.parent, root, above)
  BY FindsRoot
<1>2. fi.at = ri /\ Forest(nodes, q, root, above)
  BY <1>1, FindsRoot
<1>3. Union(p, i, j) = u
  BY <1>1, <1>2 DEF Union
<1> HIDE DEF fj, fi, q
<1>4. /\ ri \in nodes /\ rj \in nodes /\ root[ri] = ri /\ root[rj] = rj
      /\ above[ri] = {} /\ above[rj] = {} /\ q[ri] = ri /\ q[rj] = rj
  <2>1. \A x \in nodes : root[x] \in nodes /\ q[root[x]] = root[x]
    BY <1>2 DEF Forest
  <2>2. \A x \in nodes : root[root[x]] = root[x] /\ above[root[x]] = {}
    BY <1>2, <2>1 DEF Forest
  <2>3. QED
    BY <2>1, <2>2
<1>5. /\ u \in [nodes -> nodes] /\ u[ri] = rj
      /\ \A x \in nodes : x # ri => u[x] = q[x]
  BY <1>2, <1>4 DEF Forest
<1>6. /\ newRoot \in [nodes -> nodes] /\ newAbove \in [nodes -> SUBSET nodes]
      /\ \A x \in nodes : newRoot[x] = IF root[x] = ri THEN rj ELSE root[x]
      /\ \A x \in nodes :
           newAbove[x] = IF root[x] = ri /\ ri # rj THEN above[x] \cup {rj} ELSE above[x]
  BY <1>2, <1>4 DEF Forest
<1> HIDE DEF u, newRoot, newAbove
<1>7. Forest(nodes, u, newRoot, newAbove)
  <2>1. CASE ri = rj
    <3>1. \A x \in nodes : u[x] = q[x] /\ newRoot[x] = root[x] /\ newAbove[x] = above[x]
      BY <1>4, <1>5, <1>6, <2>1
    <3>2. q \in [nodes -> nodes] /\ root \in [nodes -> nodes] /\ above \in [nodes -> SUBSET nodes]
      BY <1>2 DEF Forest
    <3> HIDE DEF nodes, ri, rj
    <3>3. u = q /\ newRoot = root /\ newAbove = above
      BY <1>5, <1>6, <3>1, <3>2
    <3>4. QED
      BY <1>2, <3>3
  <2>2. ASSUME ri # rj, NEW x \in nodes
        PROVE  /\ u[newRoot[x]] = newRoot[x] /\ newRoot[u[x]] = newRoot[x]
               /\ x \notin newAbove[x]
               /\ u[x] = x => newRoot[x] = x /\ newAbove[x] = {}
               /\ u[x] # x => u[x] \in newAbove[x] /\ newAbove[u[x]] \subseteq newAbove[x]
    <3> DEFINE t == root[x]
    <3>1. /\ t \in nodes /\ q[x] \in nodes /\ root[q[x]] = t /\ q[t] = t /\ root[t] = t
          /\ x \notin above[x] /\ above[x] \subseteq nodes
          /\ q[x] = x => t = x /\ above[x] = {}
          /\ q[x] # x => q[x] \in above[x] /\ above[q[x]] \subseteq above[x]
      BY <1>2 DEF Forest
    <3> HIDE DEF t
    <3>2. t = root[x]
      BY DEF t
    <3> HIDE DEF ri, rj, nodes
    <3>3. CASE x = ri
      <4>1. u[x] = rj /\ newRoot[x] = rj /\ newRoot[rj] = rj /\ u[rj] = rj
        BY <1>4, <1>5, <1>6, <2>2, <3>3
      <4>2. newAbove[x] = {rj} /\ newAbove[rj] = {}
        BY <1>4, <1>6, <2>2, <3>3
      <4>3. QED
        BY <2>2, <3>3, <4>1, <4>2
    <3>4. CASE x # ri /\ t = ri
      <4>1. u[x] = q[x] /\ newRoot[x] = rj /\ newRoot[q[x]] = rj /\ u[rj] = rj
        BY <1>4, <1>5, <1>6, <2>2, <3>1, <3>2, <3>4
      <4>2. newAbove[x] = above[x] \cup {rj} /\ newAbove[q[x]] = above[q[x]] \cup {rj}
        BY <1>4, <1>6, <2>2, <3>1, <3>2, <3>4
      <4>3. x # rj
        BY <1>4, <2>2, <3>2, <3>4
      <4>4. QED
        BY <3>1, <3>4, <4>1, <4>2, <4>3
    <3>5. CASE x # ri /\ t # ri
      <4>1. u[x] = q[x] /\ newRoot[x] = t /\ newRoot[q[x]] = t /\ u[t] = t
        BY <1>4, <1>5, <1>6, <3>1, <3>2, <3>5
      <4>2. newAbove[x] = above[x] /\ newAbove[q[x]] = above[q[x]]
        BY <1>6, <3>1, <3>2, <3>5
      <4>3. QED
        BY <3>1, <3>5, <4>1, <4>2
    <3>6. QED
      BY <3>3, <3>4, <3>5
  <2>3. QED
    BY <1>5, <1>6, <2>1, <2>2 DEF Forest
<1>8. Joins(nodes, pairs \cup {<<i, j>>}, newRoot)
  <2>1. ASSUME NEW c \in pairs \cup {<<i, j>>}
        PROVE  newRoot[c[1]] = newRoot[c[2]]
    <3>1. CASE c \in pairs
      <4>1. c[1] \in nodes /\ c[2] \in nodes /\ root[c[1]] = root[c[2]]
        BY <3>1 DEF Joins
      <4>2. QED
        BY <1>6, <4>1
    <3>2. CASE c = <<i, j>>
      <4>1. c[1] = i /\ c[2] = j
        BY <3>2
      <4>2. QED
        BY <1>6, <4>1
    <3>3. QED
      BY <3>1, <3>2
  <2>2. ASSUME NEW S \in SUBSET nodes, Closed(pairs \cup {<<i, j>>}, S),
               NEW x \in nodes, NEW y \in nodes, newRoot[x] = newRoot[y]
        PROVE  x \in S <=> y \in S
    <3>1. Closed(pairs, S) /\ (i \in S <=> j \in S)
      <4>1. <<i, j>>[1] \in S <=> <<i, j>>[2] \in S
        BY <2>2 DEF Closed
      <4>2. QED
        BY <2>2, <4>1 DEF Closed
    <3>2. \A a, b \in nodes : root[a] = root[b] => (a \in S <=> b \in S)
      BY <3>1 DEF Joins
    <3>3. CASE root[x] = root[y]
      BY <3>2, <3>3
    <3>4. CASE root[x] = ri /\ root[y] = rj
      BY <3>1, <3>2, <3>4
    <3>5. CASE root[x] = rj /\ root[y] = ri
      BY <3>1, <3>2, <3>5
    <3>6. QED
      BY <1>6, <2>2, <3>3, <3>4, <3>5
  <2>3. QED
    BY <2>1, <2>2 DEF Joins
<1>9. QED
  BY <1>3, <1>7, <1>8

\* Each index is its own tree before the first comparison.
LEMMA FreshForest ==
  ASSUME NEW n \in Nat, NEW p, p = [x \in 1..n |-> x]
  PROVE  Forest(1..n, p, p, [x \in 1..n |-> {}]) /\ Joins(1..n, {}, p)
<1>1. Forest(1..n, p, p, [x \in 1..n |-> {}])
  BY DEF Forest
<1>2. Joins(1..n, {}, p)
  BY DEF Joins, Closed
<1>3. QED
  BY <1>1, <1>2

\* The trees are the components of the alike pairs.
LEMMA TreesAreComponents ==
  ASSUME NEW n \in Nat, DOMAIN findings = 1..n, alike \subseteq (1..n) \X (1..n),
         NEW root, NEW above, Forest(1..n, parent, root, above), Joins(1..n, alike, root),
         NEW x \in 1..n
  PROVE  /\ Group(x) = {y \in 1..n : root[y] = root[x]}
         /\ Group(x) = Component(x)
<1>1. Group(x) = {y \in 1..n : root[y] = root[x]}
  <2>1. \A y \in 1..n : Root(y) = root[y]
    BY FindsRoot DEF Root
  <2>2. QED
    BY <2>1 DEF Group
<1>2. ASSUME NEW y \in Component(x)
      PROVE  root[y] = root[x]
  <2> DEFINE S == {z \in 1..n : root[z] = root[x]}
  <2>1. x \in S /\ S \in SUBSET DOMAIN findings
    OBVIOUS
  <2>2. \A p \in alike : p[1] \in S <=> p[2] \in S
    <3> TAKE p \in alike
    <3>1. p[1] \in 1..n /\ p[2] \in 1..n /\ root[p[1]] = root[p[2]]
      BY DEF Joins
    <3>2. QED
      BY <3>1
  <2> HIDE DEF S
  <2>3. y \in S
    BY <1>2, <2>1, <2>2 DEF Component
  <2>4. QED
    BY <2>3 DEF S
<1>3. ASSUME NEW y \in 1..n, root[y] = root[x],
             NEW S \in SUBSET (1..n), x \in S, \A p \in alike : p[1] \in S <=> p[2] \in S
      PROVE  y \in S
  BY <1>3 DEF Joins, Closed
<1>4. Component(x) \subseteq 1..n
  BY DEF Component
<1>5. \A y \in 1..n : root[y] = root[x] => y \in Component(x)
  BY <1>3 DEF Component
<1>6. QED
  BY <1>1, <1>2, <1>4, <1>5

-----------------------------------------------------------------------------
(* Each step keeps the invariant.                                          *)

\* A leaf and a finding make a record.
LEMMA StampedRecords ==
  ASSUME NEW leaf \in Leaves, NEW f \in Candidates
  PROVE  /\ Stamped(leaf, f) \in Record /\ DedupKey(Stamped(leaf, f)) = DedupKey(f)
         /\ Stamped(leaf, f).winner = leaf /\ Stamped(leaf, f).flagged_by = {leaf}
         /\ Stamped(leaf, f).severity = f.severity /\ Stamped(leaf, f).file = f.file
<1>1. f \in [file : Nat, line : Nat, title : Nat, severity : 1..3]
  OBVIOUS
<1>2. QED
  BY <1>1 DEF Stamped, Record, DedupKey

\* The winner of two records of one key is one of them: no milder one, and
\* among equals the one of the smaller leaf.
LEMMA PickWinnerWins ==
  ASSUME NEW a \in Record, NEW b \in Record, DedupKey(a) = DedupKey(b)
  PROVE  LET w == PickWinner(a, b) IN
         /\ w \in Record /\ (w = a \/ w = b) /\ DedupKey(w) = DedupKey(a)
         /\ a.severity <= w.severity /\ b.severity <= w.severity
         /\ a.severity = w.severity => w.winner <= a.winner
         /\ b.severity = w.severity => w.winner <= b.winner
<1>1. a.severity \in 1..3 /\ b.severity \in 1..3 /\ a.winner \in Nat /\ b.winner \in Nat
  BY DEF Record
<1>2. QED
  BY <1>1 DEF PickWinner

LEMMA InitEstablishes == Init => CollectorInv
<1> SUFFICES ASSUME Init PROVE CollectorInv
  OBVIOUS
<1> USE DEF Init
<1>1. ShapeInv
  <2>1. IsFiniteSet(raised) /\ dropped \subseteq Record
    BY FS_EmptySet
  <2>2. gates \in [Gates -> {"none", "N/A", "PASS", "FAIL"}]
    OBVIOUS
  <2>3. findings \in Seq(Record) /\ DOMAIN findings = {}
    OBVIOUS
  <2>4. QED
    BY <2>1, <2>2, <2>3 DEF ShapeInv
<1>2. ExactInv
  BY DEF ExactInv
<1>3. HeldInv
  BY DEF HeldInv, Records
<1>4. PairInv /\ ForestInv /\ GatesInv
  BY DEF PairInv, ForestInv, GatesInv, BlockersReachGates
<1>5. QED
  BY <1>1, <1>2, <1>3, <1>4 DEF CollectorInv

\* The record of a key after one more finding of that key.
LEMMA FoldedRecord ==
  ASSUME ExactInv, NEW leaf \in Leaves, NEW f \in Candidates, raised \subseteq Leaves \X Candidates
  PROVE  LET key == DedupKey(f)
             new == Folded(Stamped(leaf, f), key)
             mine == OfKey(key) \cup {<<leaf, f>>}
         IN  /\ new \in Record /\ DedupKey(new) = key
             /\ new.flagged_by = {r[1] : r \in mine}
             /\ \E r \in mine : r[1] = new.winner /\ r[2].severity = new.severity
             /\ \A r \in mine :
                  /\ r[2].severity <= new.severity
                  /\ r[2].severity = new.severity => new.winner <= r[1]
<1> DEFINE key == DedupKey(f)
           s == Stamped(leaf, f)
           new == Folded(s, key)
           mine == OfKey(key) \cup {<<leaf, f>>}
           one == <<leaf, f>>
<1>1. /\ s \in Record /\ DedupKey(s) = key /\ s.winner = leaf
      /\ s.flagged_by = {leaf} /\ s.severity = f.severity
  BY StampedRecords
<1>2. one[1] = leaf /\ one[2] = f /\ one \in mine /\ f.severity \in 1..3 /\ leaf \in Nat
  <2>1. f \in [file : Nat, line : Nat, title : Nat, severity : 1..3]
    OBVIOUS
  <2>2. QED
    BY <2>1
<1> HIDE DEF s, one
<1>3. CASE key \notin DOMAIN merged
  <2>1. OfKey(key) = {}
    BY <1>3 DEF ExactInv, OfKey
  <2>2. mine = {one} /\ new = s
    BY <1>3, <2>1 DEF Folded, one
  <2>3. {r[1] : r \in mine} = {leaf}
    BY <1>2, <2>2
  <2> HIDE DEF key, new, mine
  <2>4. \E r \in mine : r[1] = new.winner /\ r[2].severity = new.severity
    BY <1>1, <1>2, <2>2
  <2>5. \A r \in mine : r[2].severity <= new.severity /\ new.winner <= r[1]
    BY <1>1, <1>2, <2>2
  <2>6. QED
    BY <1>1, <2>2, <2>3, <2>4, <2>5 DEF key, new, mine, one, s
<1>4. CASE key \in DOMAIN merged
  <2> DEFINE m == merged[key]
             w == PickWinner(m, s)
  <2>1. /\ m \in Record /\ DedupKey(m) = key
        /\ m.flagged_by = {r[1] : r \in OfKey(key)}
        /\ \E r \in OfKey(key) : r[1] = m.winner /\ r[2].severity = m.severity
        /\ \A r \in OfKey(key) :
             /\ r[2].severity <= m.severity
             /\ r[2].severity = m.severity => m.winner <= r[1]
    BY <1>4 DEF ExactInv
  <2>2. /\ w \in Record /\ (w = m \/ w = s) /\ DedupKey(w) = key
        /\ m.severity <= w.severity /\ s.severity <= w.severity
        /\ m.severity = w.severity => w.winner <= m.winner
        /\ s.severity = w.severity => w.winner <= s.winner
    BY <1>1, <2>1, PickWinnerWins
  <2>3. new = [w EXCEPT !.flagged_by = m.flagged_by \cup s.flagged_by]
    BY <1>4 DEF Folded
  <2>4. /\ m.severity \in 1..3 /\ w.severity \in 1..3 /\ m.winner \in Nat /\ w.winner \in Nat
        /\ m.flagged_by \subseteq Leaves /\ s.flagged_by \subseteq Leaves
    BY <1>1, <2>1, <2>2 DEF Record
  <2> HIDE DEF m, w, new, key
  <2>5. /\ new \in Record /\ DedupKey(new) = DedupKey(w) /\ new.severity = w.severity
        /\ new.winner = w.winner /\ new.flagged_by = m.flagged_by \cup s.flagged_by
    BY <2>2, <2>3, <2>4 DEF Record, DedupKey
  <2>6. new.flagged_by = {r[1] : r \in mine}
    BY <1>1, <1>2, <2>1, <2>5 DEF one
  <2>7. \E r \in mine : r[1] = new.winner /\ r[2].severity = new.severity
    BY <1>1, <1>2, <2>1, <2>2, <2>5
  <2>8. \A r \in OfKey(key) : r[2].severity \in 1..3 /\ r[1] \in Nat
    <3> TAKE r \in OfKey(key)
    <3>1. r[1] \in Leaves /\ r[2] \in Candidates
      BY DEF OfKey
    <3>2. r[2] \in [file : Nat, line : Nat, title : Nat, severity : 1..3]
      BY <3>1
    <3>3. QED
      BY <3>1, <3>2
  <2>9. ASSUME NEW r \in mine
        PROVE  /\ r[2].severity <= new.severity
               /\ r[2].severity = new.severity => new.winner <= r[1]
    <3>1. CASE r \in OfKey(key)
      BY <2>1, <2>2, <2>4, <2>5, <2>8, <3>1
    <3>2. CASE r = one
      BY <1>1, <1>2, <2>2, <2>5, <3>2
    <3>3. QED
      BY <3>1, <3>2 DEF one
  <2>10. QED
    BY <2>2, <2>5, <2>6, <2>7, <2>9 DEF new, key, s, one
<1>5. QED
  BY <1>3, <1>4

\* One more finding: the record of its key follows, no other changes.
LEMMA CollectKeeps ==
  ASSUME CollectorInv, NEW leaf \in Leaves, NEW f \in Candidates, Collect(leaf, f)
  PROVE  CollectorInv'
<1> DEFINE key0 == DedupKey(f)
           one == <<leaf, f>>
           new == Folded(Stamped(leaf, f), key0)
<1>1. ShapeInv /\ ExactInv /\ HeldInv /\ stage = "exact" /\ raised \subseteq Leaves \X Candidates
  BY DEF CollectorInv, ShapeInv, Collect
<1>2. /\ raised' = raised \cup {one}
      /\ merged' = [key \in DOMAIN merged \cup {key0} |-> IF key = key0 THEN new ELSE merged[key]]
      /\ UNCHANGED <<stage, findings, parent, pair, alike, dropped, gates>>
  BY DEF Collect, mergeVars
<1>3. ShapeInv'
  <2>1. IsFiniteSet(raised')
    BY <1>1, <1>2, FS_AddElement DEF ShapeInv
  <2>2. QED
    BY <1>1, <1>2, <2>1 DEF ShapeInv
<1>4. /\ new \in Record /\ DedupKey(new) = key0
      /\ new.flagged_by = {r[1] : r \in OfKey(key0) \cup {one}}
      /\ \E r \in OfKey(key0) \cup {one} : r[1] = new.winner /\ r[2].severity = new.severity
      /\ \A r \in OfKey(key0) \cup {one} :
           /\ r[2].severity <= new.severity
           /\ r[2].severity = new.severity => new.winner <= r[1]
  BY <1>1, FoldedRecord
<1>5. one[1] = leaf /\ one[2] = f
  OBVIOUS
<1> HIDE DEF new, one
<1>6. \A key : OfKey(key)' = IF key = key0 THEN OfKey(key) \cup {one} ELSE OfKey(key)
  BY <1>2, <1>5 DEF OfKey
<1>7. ExactInv'
  <2>1. DOMAIN merged' = {DedupKey(r[2]) : r \in raised'}
    BY <1>1, <1>2, <1>5 DEF ExactInv
  <2>2. ASSUME NEW key \in DOMAIN merged'
        PROVE  /\ merged'[key] \in Record /\ DedupKey(merged'[key]) = key
               /\ merged'[key].flagged_by = {r[1] : r \in OfKey(key)'}
               /\ \E r \in OfKey(key)' :
                    r[1] = merged'[key].winner /\ r[2].severity = merged'[key].severity
               /\ \A r \in OfKey(key)' :
                    /\ r[2].severity <= merged'[key].severity
                    /\ r[2].severity = merged'[key].severity => merged'[key].winner <= r[1]
    <3>1. CASE key = key0
      <4>1. merged'[key] = new /\ OfKey(key)' = OfKey(key0) \cup {one}
        BY <1>2, <1>6, <3>1
      <4>2. QED
        BY <1>4, <3>1, <4>1
    <3>2. CASE key # key0
      <4>1. key \in DOMAIN merged /\ merged'[key] = merged[key] /\ OfKey(key)' = OfKey(key)
        BY <1>2, <1>6, <3>2
      <4>2. QED
        BY <1>1, <4>1 DEF ExactInv
    <3>3. QED
      BY <3>1, <3>2
  <2>3. QED
    BY <2>1, <2>2 DEF ExactInv
<1>8. HeldInv'
  BY <1>1, <1>2 DEF HeldInv, ShapeInv, Records
<1>9. PairInv' /\ ForestInv' /\ GatesInv'
  BY <1>1, <1>2 DEF PairInv, ForestInv, GatesInv, BlockersReachGates
<1>10. QED
  BY <1>3, <1>7, <1>8, <1>9 DEF CollectorInv

\* The merged records, sorted, are the findings; the union-find starts.
LEMMA SortKeeps ==
  ASSUME CollectorInv, Sort
  PROVE  CollectorInv'
<1> DEFINE S == {merged[key] : key \in DOMAIN merged}
<1>1. /\ ShapeInv /\ ExactInv /\ HeldInv /\ stage = "exact" /\ dropped = {} /\ findings = <<>>
      /\ pair = <<1, 2>> /\ alike = {} /\ raised \subseteq Leaves \X Candidates
  BY DEF CollectorInv, ShapeInv, Sort
<1>2. /\ findings' = Sorted(S) /\ parent' = [i \in DOMAIN findings' |-> i]
      /\ stage' = IF Len(findings') < 2 THEN "rank" ELSE "compare"
      /\ UNCHANGED <<raised, merged, pair, alike, dropped, gates>>
  BY DEF Sort, collectVars
<1>3. S \in SUBSET Record /\ \A a, b \in S : DedupKey(a) = DedupKey(b) => a = b
  <2>1. \A key \in DOMAIN merged : merged[key] \in Record /\ DedupKey(merged[key]) = key
    BY <1>1 DEF ExactInv
  <2>2. S \in SUBSET Record
    BY <2>1
  <2>3. \A a, b \in S : DedupKey(a) = DedupKey(b) => a = b
    BY <2>1
  <2>4. QED
    BY <2>2, <2>3
<1>4. IsFiniteSet(S)
  <2> DEFINE m == [r \in raised |-> merged[DedupKey(r[2])]]
  <2>1. m \in Surjection(raised, S)
    BY <1>1 DEF ExactInv, Surjection
  <2> HIDE DEF m, S
  <2>2. QED
    BY <1>1, <2>1, FS_Surjection DEF ShapeInv
<1> HIDE DEF S
<1>5. /\ findings' \in Seq(Record) /\ Records(findings') = S
      /\ \A i, j \in DOMAIN findings' : DedupKey(findings'[i]) = DedupKey(findings'[j]) => i = j
  BY <1>2, <1>3, <1>4, SortedLists
<1>6. ShapeInv'
  BY <1>1, <1>2, <1>5 DEF ShapeInv
<1>7. ExactInv'
  BY <1>1, <1>2 DEF ExactInv, OfKey
<1>8. HeldInv'
  <2>1. \A key \in DOMAIN merged : Quoted(merged[key])
    <3> TAKE key \in DOMAIN merged
    <3>1. /\ merged[key].flagged_by = {r[1] : r \in OfKey(key)}
          /\ DedupKey(merged[key]) = key /\ merged[key] \in Record
      BY <1>1 DEF ExactInv
    <3>2. PICK r \in OfKey(key) : r[1] = merged[key].winner /\ r[2].severity = merged[key].severity
      BY <1>1 DEF ExactInv
    <3>3. \A s \in OfKey(key) : s[2] \in Candidates /\ <<s[1], s[2]>> \in raised /\ DedupKey(s[2]) = key
      BY <1>1 DEF OfKey
    <3>4. \A s \in OfKey(key) : s[2].file = merged[key].file
      <4>1. \A a : DedupKey(a)[1] = a.file
        BY DEF DedupKey
      <4>2. QED
        BY <3>1, <3>3, <4>1
    <3>5. merged[key].winner \in merged[key].flagged_by
      BY <3>1, <3>2
    <3>6. QED
      BY <3>1, <3>2, <3>3, <3>4, <3>5 DEF Quoted
  <2>2. \A r \in raised : \E held \in S : StandsFor(held, r)
    <3> TAKE r \in raised
    <3> DEFINE key == DedupKey(r[2])
    <3>1. key \in DOMAIN merged /\ r \in OfKey(key)
      BY <1>1 DEF ExactInv, OfKey
    <3>2. /\ merged[key].flagged_by = {s[1] : s \in OfKey(key)} /\ DedupKey(merged[key]) = key
          /\ r[2].severity <= merged[key].severity
      BY <1>1, <3>1 DEF ExactInv
    <3>3. merged[key].file = r[2].file
      BY <3>2 DEF DedupKey
    <3>4. r[2].severity \in 1..3 /\ merged[key].severity \in 1..3
      <4>1. r[2] \in [file : Nat, line : Nat, title : Nat, severity : 1..3] /\ merged[key] \in Record
        BY <1>1, <3>1 DEF ExactInv
      <4>2. QED
        BY <4>1 DEF Record
    <3> HIDE DEF key
    <3>5. StandsFor(merged[key], r)
      BY <3>1, <3>2, <3>3, <3>4 DEF StandsFor
    <3>6. QED
      BY <3>1, <3>5 DEF S
  <2>3. \A held \in S : Quoted(held)
    BY <2>1 DEF S
  <2>4. /\ \A held : Quoted(held)' <=> Quoted(held)
        /\ \A held, r : StandsFor(held, r)' <=> StandsFor(held, r)
    BY <1>2 DEF Quoted, StandsFor
  <2>5. Records(findings)' \cup dropped' = S
    BY <1>1, <1>2, <1>5 DEF Records
  <2>6. QED
    BY <1>2, <2>2, <2>3, <2>4, <2>5 DEF HeldInv
<1>9. PairInv'
  <2> SUFFICES ASSUME stage' = "compare"
               PROVE  pair' \in Nodes' \X Nodes' /\ pair'[1] < pair'[2]
    BY DEF PairInv
  <2>1. ~(Len(findings') < 2)
    BY <1>2
  <2>2. DOMAIN findings' = 1..Len(findings') /\ Len(findings') \in Nat
    BY <1>5
  <2>3. 1 \in DOMAIN findings' /\ 2 \in DOMAIN findings'
    BY <2>1, <2>2
  <2>4. QED
    BY <1>1, <1>2, <2>3 DEF Nodes
<1>10. ForestInv'
  <2>1. DOMAIN findings' = 1..Len(findings') /\ Len(findings') \in Nat
    BY <1>5
  <2>2. /\ Forest(1..Len(findings'), parent', parent', [x \in 1..Len(findings') |-> {}])
        /\ Joins(1..Len(findings'), {}, parent')
    BY <1>2, <2>1, FreshForest
  <2>3. Forest(Nodes', parent', parent', [x \in Nodes' |-> {}]) /\ Joins(Nodes', alike', parent')
    BY <1>1, <1>2, <2>1, <2>2 DEF Nodes
  <2>4. parent' \in [Nodes' -> Nodes'] /\ [x \in Nodes' |-> {}] \in [Nodes' -> SUBSET Nodes']
    BY <2>3 DEF Forest
  <2>5. QED
    BY <1>1, <1>2, <2>3, <2>4 DEF ForestInv
<1>11. GatesInv'
  BY <1>2 DEF GatesInv, BlockersReachGates
<1>12. QED
  BY <1>6, <1>7, <1>8, <1>9, <1>10, <1>11 DEF CollectorInv

\* A pair compared: the trees are what the pairs found alike so far join.
LEMMA CompareKeeps ==
  ASSUME CollectorInv, NEW sim_ok \in BOOLEAN, Compare(sim_ok)
  PROVE  CollectorInv'
<1> DEFINE n == Len(findings)
           i == pair[1]
           j == pair[2]
<1>1. /\ ShapeInv /\ ExactInv /\ HeldInv /\ stage = "compare"
      /\ n \in Nat /\ DOMAIN findings = 1..n
      /\ pair = <<i, j>> /\ i \in 1..n /\ j \in 1..n /\ i < j
  <2>1. ShapeInv /\ ExactInv /\ HeldInv /\ PairInv /\ stage = "compare"
    BY DEF CollectorInv, Compare
  <2>2. n \in Nat /\ DOMAIN findings = 1..n
    BY <2>1 DEF ShapeInv
  <2>3. QED
    BY <2>1, <2>2 DEF PairInv, Nodes
<1>2. /\ pair' = IF j < n THEN <<i, j + 1>> ELSE <<i + 1, i + 2>>
      /\ stage' = IF pair' = <<n, n + 1>> THEN "group" ELSE "compare"
      /\ UNCHANGED <<raised, merged, findings, dropped, gates>>
  BY DEF Compare, collectVars
<1>3. ShapeInv'
  BY <1>1, <1>2 DEF ShapeInv
<1>4. ExactInv'
  BY <1>1, <1>2 DEF ExactInv, OfKey
<1>5. HeldInv'
  <2>1. /\ \A held : Quoted(held)' <=> Quoted(held)
        /\ \A held, r : StandsFor(held, r)' <=> StandsFor(held, r)
        /\ Records(findings)' = Records(findings)
    BY <1>2 DEF Quoted, StandsFor, Records
  <2>2. QED
    BY <1>1, <1>2, <2>1 DEF HeldInv
<1>6. PairInv'
  <2> SUFFICES ASSUME stage' = "compare"
               PROVE  pair' \in Nodes' \X Nodes' /\ pair'[1] < pair'[2]
    BY DEF PairInv
  <2>1. Nodes' = 1..n
    BY <1>1, <1>2 DEF Nodes
  <2>2. pair' # <<n, n + 1>>
    BY <1>2
  <2> HIDE DEF n, i, j
  <2>3. CASE j < n
    BY <1>1, <1>2, <2>1, <2>3
  <2>4. CASE ~(j < n)
    <3>1. j = n /\ pair' = <<i + 1, i + 2>>
      BY <1>1, <1>2, <2>4
    <3>2. i + 1 # n
      BY <1>1, <2>2, <3>1
    <3>3. i + 1 \in 1..n /\ i + 2 \in 1..n /\ i + 1 < i + 2
      BY <1>1, <3>1, <3>2
    <3>4. QED
      BY <2>1, <3>1, <3>3
  <2>5. QED
    BY <2>3, <2>4
<1>7. ForestInv'
  <2>1. /\ alike \subseteq (1..n) \X (1..n)
        /\ \A p \in alike : findings[p[1]].file = findings[p[2]].file
    BY <1>1 DEF CollectorInv, ForestInv, Nodes
  <2>2. PICK root, above : Forest(1..n, parent, root, above) /\ Joins(1..n, alike, root)
    BY <1>1 DEF CollectorInv, ForestInv, Nodes
  <2>3. CASE SameIssue(findings[i], findings[j], sim_ok)
    <3>1. parent' = Union(parent, i, j) /\ alike' = alike \cup {<<i, j>>}
      BY <1>1, <2>3 DEF Compare
    <3>2. findings[i].file = findings[j].file
      BY <2>3 DEF SameIssue
    <3> HIDE DEF i, j
    <3>3. PICK newRoot, newAbove :
            /\ Forest(1..n, parent', newRoot, newAbove)
            /\ Joins(1..n, alike', newRoot)
      BY <1>1, <2>1, <2>2, <3>1, UnionJoins
    <3>4. newRoot \in [1..n -> 1..n] /\ newAbove \in [1..n -> SUBSET (1..n)]
      BY <3>3 DEF Forest
    <3>5. alike' \subseteq (1..n) \X (1..n) /\ \A p \in alike' : findings[p[1]].file = findings[p[2]].file
      BY <1>1, <2>1, <3>1, <3>2
    <3> HIDE DEF n
    <3>6. QED
      BY <1>1, <1>2, <3>3, <3>4, <3>5 DEF ForestInv, Nodes
  <2>4. CASE ~SameIssue(findings[i], findings[j], sim_ok)
    <3>1. parent' = parent /\ alike' = alike
      BY <2>4 DEF Compare
    <3>2. root \in [1..n -> 1..n] /\ above \in [1..n -> SUBSET (1..n)]
      BY <2>2 DEF Forest
    <3> HIDE DEF n
    <3>3. QED
      BY <1>1, <1>2, <2>1, <2>2, <3>1, <3>2 DEF ForestInv, Nodes
  <2>5. QED
    BY <2>3, <2>4
<1>8. GatesInv'
  <2>1. stage' # "judged"
    BY <1>2
  <2>2. QED
    BY <2>1 DEF GatesInv, BlockersReachGates
<1>9. QED
  BY <1>3, <1>4, <1>5, <1>6, <1>7, <1>8 DEF CollectorInv

\* A group of findings is a tree of the union-find, and lies in one file.
LEMMA GroupsAreTrees ==
  ASSUME ShapeInv, ForestInv, stage = "group"
  PROVE  /\ \A x \in Nodes : x \in Group(x) /\ Group(x) \subseteq Nodes
         /\ \A x, y, z \in Nodes : z \in Group(x) /\ z \in Group(y) => Group(x) = Group(y)
         /\ \A x \in Nodes : \A y \in Group(x) : findings[y].file = findings[x].file
<1> DEFINE n == Len(findings)
<1>1. n \in Nat /\ DOMAIN findings = 1..n /\ Nodes = 1..n
  BY DEF ShapeInv, Nodes
<1>2. /\ alike \subseteq (1..n) \X (1..n)
      /\ \A p \in alike : findings[p[1]].file = findings[p[2]].file
  BY <1>1 DEF ForestInv
<1>3. PICK root, above : Forest(1..n, parent, root, above) /\ Joins(1..n, alike, root)
  BY <1>1 DEF ForestInv
<1> HIDE DEF n
<1>4. \A x \in 1..n : Group(x) = {y \in 1..n : root[y] = root[x]}
  <2> TAKE x \in 1..n
  <2>1. QED
    BY <1>1, <1>2, <1>3, TreesAreComponents
<1>5. ASSUME NEW x \in Nodes, NEW y \in Group(x)
      PROVE  findings[y].file = findings[x].file
  <2> DEFINE S == {z \in 1..n : findings[z].file = findings[x].file}
  <2>1. S \in SUBSET (1..n) /\ x \in S
    BY <1>1, <1>5
  <2>2. Closed(alike, S)
    BY <1>2 DEF Closed
  <2>3. y \in 1..n /\ root[y] = root[x]
    BY <1>1, <1>4, <1>5
  <2> HIDE DEF S
  <2>4. y \in S
    BY <1>1, <1>3, <1>5, <2>1, <2>2, <2>3 DEF Joins
  <2>5. QED
    BY <2>4 DEF S
<1>6. \A x, y, z \in Nodes : z \in Group(x) /\ z \in Group(y) => Group(x) = Group(y)
  <2> TAKE x, y, z \in Nodes
  <2> HAVE z \in Group(x) /\ z \in Group(y)
  <2>1. root[z] = root[x] /\ root[z] = root[y]
    BY <1>1, <1>4
  <2>2. QED
    BY <1>1, <1>4, <2>1
<1>7. \A x \in Nodes : x \in Group(x) /\ Group(x) \subseteq Nodes
  BY <1>1, <1>4
<1>8. QED
  BY <1>5, <1>6, <1>7

\* What represents a group is one of its findings in all but flagged_by.
LEMMA RepresentativesOf ==
  ASSUME ShapeInv, NEW group \in SUBSET Nodes, NEW held \in Representatives(group)
  PROVE  /\ held \in Record
         /\ held.flagged_by = UNION {findings[m].flagged_by : m \in group}
         /\ \E rep \in group :
              /\ DedupKey(held) = DedupKey(findings[rep]) /\ held.file = findings[rep].file
              /\ held.severity = findings[rep].severity /\ held.winner = findings[rep].winner
         /\ \A m \in group : findings[m].severity <= held.severity
<1>1. \A m \in Nodes : findings[m] \in Record
  BY DEF ShapeInv, Nodes
<1> DEFINE together == UNION {findings[m].flagged_by : m \in group}
<1>2. together \subseteq Leaves
  BY <1>1 DEF Record
<1>3. PICK rep \in group :
        /\ \A m \in group : findings[m].severity <= findings[rep].severity
        /\ held = [findings[rep] EXCEPT !.flagged_by = together]
  BY DEF Representatives
<1>4. findings[rep] \in Record
  BY <1>1
<1> HIDE DEF together
<1>5. /\ held \in Record /\ held.flagged_by = together /\ held.file = findings[rep].file
      /\ held.severity = findings[rep].severity /\ held.winner = findings[rep].winner
      /\ DedupKey(held) = DedupKey(findings[rep])
  BY <1>2, <1>3, <1>4 DEF Record, DedupKey
<1>6. QED
  BY <1>3, <1>5 DEF together

\* One representative for each group: nothing is lost or misquoted.
LEMMA MergeGroupsKeeps ==
  ASSUME CollectorInv, MergeGroups
  PROVE  CollectorInv'
<1> DEFINE groups == {Group(x) : x \in DOMAIN findings}
<1>1. PICK chosen \in [groups -> UNION {Representatives(g) : g \in groups}] :
        /\ \A g \in groups : chosen[g] \in Representatives(g)
        /\ findings' = Sorted({chosen[g] : g \in groups})
  BY DEF MergeGroups
<1> DEFINE rep == [x \in Nodes |-> chosen[Group(x)]]
           S == {rep[x] : x \in Nodes}
<1>2. /\ ShapeInv /\ ExactInv /\ HeldInv /\ ForestInv /\ stage = "group" /\ dropped = {}
      /\ stage' = "rank" /\ UNCHANGED <<raised, merged, dropped, gates>>
  BY DEF CollectorInv, ShapeInv, MergeGroups, collectVars
<1>3. /\ \A x \in Nodes : x \in Group(x) /\ Group(x) \in SUBSET Nodes
      /\ \A x, y, z \in Nodes : z \in Group(x) /\ z \in Group(y) => Group(x) = Group(y)
      /\ \A x \in Nodes : \A y \in Group(x) : findings[y].file = findings[x].file
  BY <1>2, GroupsAreTrees
<1>4. findings' = Sorted(S)
  <2>1. {chosen[g] : g \in groups} = S
    BY DEF Nodes
  <2>2. QED
    BY <1>1, <2>1
<1>5. \A x \in Nodes : rep[x] \in Representatives(Group(x))
  BY <1>1 DEF Nodes
<1>6. \A x, y \in Nodes : Group(x) = Group(y) => rep[x] = rep[y]
  OBVIOUS
<1> HIDE DEF rep, groups
<1>7. \A x \in Nodes :
        /\ rep[x] \in Record
        /\ rep[x].flagged_by = UNION {findings[m].flagged_by : m \in Group(x)}
        /\ \E y \in Group(x) :
             /\ DedupKey(rep[x]) = DedupKey(findings[y]) /\ rep[x].file = findings[y].file
             /\ rep[x].severity = findings[y].severity /\ rep[x].winner = findings[y].winner
        /\ \A m \in Group(x) : findings[m].severity <= rep[x].severity
  BY <1>2, <1>3, <1>5, RepresentativesOf
<1>8. S \in SUBSET Record /\ IsFiniteSet(S)
  <2>1. S \in SUBSET Record
    BY <1>7
  <2>2. rep = [x \in Nodes |-> rep[x]]
    BY DEF rep
  <2>3. rep \in Surjection(Nodes, S)
    BY <2>2 DEF Surjection
  <2>4. IsFiniteSet(Nodes)
    <3>1. Len(findings) \in Nat /\ Nodes = 1..Len(findings)
      BY <1>2 DEF ShapeInv, Nodes
    <3>2. QED
      BY <3>1, FS_Interval
  <2> HIDE DEF S
  <2>5. QED
    BY <2>1, <2>3, <2>4, FS_Surjection
<1>9. \A a, b \in S : DedupKey(a) = DedupKey(b) => a = b
  <2> SUFFICES ASSUME NEW x \in Nodes, NEW y \in Nodes, DedupKey(rep[x]) = DedupKey(rep[y])
               PROVE  rep[x] = rep[y]
    OBVIOUS
  <2>1. PICK v \in Group(x) : DedupKey(rep[x]) = DedupKey(findings[v])
    BY <1>7
  <2>2. PICK w \in Group(y) : DedupKey(rep[y]) = DedupKey(findings[w])
    BY <1>7
  <2>3. v \in Nodes /\ w \in Nodes
    BY <1>3
  <2>4. v = w
    BY <1>2, <2>1, <2>2, <2>3 DEF ShapeInv, Nodes
  <2>5. QED
    BY <1>3, <1>6, <2>3, <2>4
<1>10. /\ findings' \in Seq(Record) /\ Records(findings') = S
       /\ \A i, j \in DOMAIN findings' : DedupKey(findings'[i]) = DedupKey(findings'[j]) => i = j
  BY <1>4, <1>8, <1>9, SortedLists
<1>11. ShapeInv'
  BY <1>2, <1>10 DEF ShapeInv
<1>12. ExactInv'
  BY <1>2 DEF ExactInv, OfKey
<1>13. ASSUME NEW x \in Nodes
       PROVE  Quoted(rep[x])
  <2>1. \A m \in Nodes : Quoted(findings[m])
    BY <1>2 DEF HeldInv, Records, Nodes
  <2>2. PICK y \in Group(x) :
          /\ DedupKey(rep[x]) = DedupKey(findings[y]) /\ rep[x].file = findings[y].file
          /\ rep[x].severity = findings[y].severity /\ rep[x].winner = findings[y].winner
    BY <1>7
  <2>3. y \in Nodes /\ Group(x) \in SUBSET Nodes
    BY <1>3
  <2>4. rep[x].winner \in rep[x].flagged_by
    <3>1. findings[y].winner \in findings[y].flagged_by
      BY <2>1, <2>3 DEF Quoted
    <3>2. QED
      BY <1>7, <2>2, <3>1
  <2>5. \E f \in Candidates :
          /\ <<rep[x].winner, f>> \in raised
          /\ DedupKey(f) = DedupKey(rep[x]) /\ f.severity = rep[x].severity
    BY <2>1, <2>2, <2>3 DEF Quoted
  <2>6. ASSUME NEW leaf \in rep[x].flagged_by
        PROVE  \E f \in Candidates : <<leaf, f>> \in raised /\ f.file = rep[x].file
    <3>1. PICK m \in Group(x) : leaf \in findings[m].flagged_by
      BY <1>7, <2>6
    <3>2. PICK f \in Candidates : <<leaf, f>> \in raised /\ f.file = findings[m].file
      BY <2>1, <2>3, <3>1 DEF Quoted
    <3>3. findings[m].file = rep[x].file
      BY <1>3, <2>2, <3>1
    <3>4. QED
      BY <3>2, <3>3
  <2>7. QED
    BY <2>4, <2>5, <2>6 DEF Quoted
<1>14. ASSUME NEW r \in raised
       PROVE  \E x \in Nodes : StandsFor(rep[x], r)
  <2>1. PICK x \in Nodes : StandsFor(findings[x], r)
    BY <1>2 DEF HeldInv, Records, Nodes
  <2>2. x \in Group(x)
    BY <1>3
  <2>3. rep[x].file = r[2].file
    BY <1>3, <1>7, <2>1 DEF StandsFor
  <2>4. r[1] \in rep[x].flagged_by
    BY <1>7, <2>1, <2>2 DEF StandsFor
  <2>5. r[2].severity <= rep[x].severity
    <3>1. findings[x].severity \in 1..3 /\ rep[x].severity \in 1..3 /\ r[2].severity \in 1..3
      <4>1. findings[x] \in Record /\ rep[x] \in Record /\ r[2] \in Candidates
        BY <1>2, <1>7 DEF ShapeInv, Nodes
      <4>2. r[2] \in [file : Nat, line : Nat, title : Nat, severity : 1..3]
        BY <4>1
      <4>3. QED
        BY <4>1, <4>2 DEF Record
    <3>2. r[2].severity <= findings[x].severity /\ findings[x].severity <= rep[x].severity
      BY <1>7, <2>1, <2>2, <3>1 DEF StandsFor
    <3> DEFINE a == r[2].severity
               b == findings[x].severity
               c == rep[x].severity
    <3> HIDE DEF a, b, c
    <3>3. a \in 1..3 /\ b \in 1..3 /\ c \in 1..3 /\ a <= b /\ b <= c
      BY <3>1, <3>2 DEF a, b, c
    <3>4. a <= c
      BY <3>3
    <3>5. QED
      BY <3>4 DEF a, c
  <2>6. r[2].severity \in 1..3 /\ rep[x].severity \in 1..3
    <3>1. r[2] \in [file : Nat, line : Nat, title : Nat, severity : 1..3]
      BY <1>2 DEF ShapeInv
    <3>2. QED
      BY <1>7, <3>1 DEF Record
  <2>7. StandsFor(rep[x], r)
    BY <2>3, <2>4, <2>5, <2>6 DEF StandsFor
  <2>8. QED
    BY <2>7
<1>15. HeldInv'
  <2>1. /\ \A held : Quoted(held)' <=> Quoted(held)
        /\ \A held, r : StandsFor(held, r)' <=> StandsFor(held, r)
    BY <1>2 DEF Quoted, StandsFor
  <2>2. Records(findings)' \cup dropped' = S
    BY <1>2, <1>10 DEF Records
  <2>3. QED
    BY <1>2, <1>13, <1>14, <2>1, <2>2 DEF HeldInv
<1>16. PairInv' /\ ForestInv' /\ GatesInv'
  BY <1>2 DEF PairInv, ForestInv, GatesInv, BlockersReachGates
<1>17. QED
  BY <1>11, <1>12, <1>15, <1>16 DEF CollectorInv

\* The ranker's decisions: what is not kept is dropped by name.
LEMMA RankKeeps ==
  ASSUME CollectorInv, NEW mentioned \in SUBSET DOMAIN findings, NEW drops \in SUBSET mentioned,
         Rank(mentioned, drops)
  PROVE  CollectorInv'
<1> DEFINE K == DOMAIN findings \ (mentioned \cap drops)
<1>1. /\ ShapeInv /\ ExactInv /\ HeldInv /\ stage = "rank" /\ dropped = {}
      /\ findings' = Listed(K) /\ dropped' = {findings[i] : i \in drops}
      /\ stage' = "gates" /\ UNCHANGED <<raised, merged, gates>>
  BY DEF CollectorInv, ShapeInv, Rank, Kept, collectVars
<1>2. /\ findings' \in Seq(Record) /\ Records(findings') = {findings[i] : i \in K}
      /\ \A i, j \in DOMAIN findings' : DedupKey(findings'[i]) = DedupKey(findings'[j]) => i = j
  BY <1>1, ListedLists
<1>3. dropped' \subseteq Record
  <2>1. \A i \in drops : findings[i] \in Record
    BY <1>1 DEF ShapeInv
  <2>2. QED
    BY <1>1, <2>1
<1>4. ShapeInv'
  BY <1>1, <1>2, <1>3 DEF ShapeInv
<1>5. ExactInv'
  BY <1>1 DEF ExactInv, OfKey
<1>6. HeldInv'
  <2>1. /\ \A held : Quoted(held)' <=> Quoted(held)
        /\ \A held, r : StandsFor(held, r)' <=> StandsFor(held, r)
    BY <1>1 DEF Quoted, StandsFor
  <2>2. K \cup drops = DOMAIN findings
    OBVIOUS
  <2>3. Records(findings') \cup dropped' = Records(findings) \cup dropped
    <3> HIDE DEF K
    <3>1. {findings[i] : i \in K} \cup {findings[i] : i \in drops} = {findings[i] : i \in DOMAIN findings}
      BY <2>2
    <3>2. QED
      BY <1>1, <1>2, <3>1 DEF Records
  <2>4. Records(findings)' = Records(findings')
    BY DEF Records
  <2>5. QED
    BY <1>1, <2>1, <2>3, <2>4 DEF HeldInv
<1>7. PairInv' /\ ForestInv' /\ GatesInv'
  BY <1>1 DEF PairInv, ForestInv, GatesInv, BlockersReachGates
<1>8. QED
  BY <1>4, <1>5, <1>6, <1>7 DEF CollectorInv

\* The gates: what stands for a blocking finding blocks itself.
LEMMA SynthesizeGatesKeeps ==
  ASSUME CollectorInv, SynthesizeGates
  PROVE  CollectorInv'
<1>1. /\ ShapeInv /\ ExactInv /\ HeldInv /\ stage = "gates" /\ stage' = "judged"
      /\ UNCHANGED <<raised, merged, findings, dropped>>
  BY DEF CollectorInv, SynthesizeGates, collectVars
<1>2. gates' = [g \in Gates |->
        IF Contributing[g] = {} THEN "N/A"
        ELSE IF Contributing[g] \cap BlockingFlaggedBy = {} THEN "PASS" ELSE "FAIL"]
  BY DEF SynthesizeGates
<1>3. gates' \in [Gates -> {"none", "N/A", "PASS", "FAIL"}]
  BY <1>2
<1>4. ShapeInv'
  BY <1>1, <1>3 DEF ShapeInv
<1>5. ExactInv'
  BY <1>1 DEF ExactInv, OfKey
<1>6. HeldInv'
  <2>1. /\ \A held : Quoted(held)' <=> Quoted(held)
        /\ \A held, r : StandsFor(held, r)' <=> StandsFor(held, r)
        /\ Records(findings)' = Records(findings)
    BY <1>1 DEF Quoted, StandsFor, Records
  <2>2. QED
    BY <1>1, <2>1 DEF HeldInv
<1>7. GatesInv'
  <2> SUFFICES ASSUME NEW g \in Gates, NEW r \in raised,
                      r[1] \in Contributing[g], r[2].severity >= 2
               PROVE  \/ gates'[g] = "FAIL"
                      \/ \E held \in dropped :
                           held.file = r[2].file /\ r[1] \in held.flagged_by /\ held.severity >= 2
    BY <1>1 DEF GatesInv, BlockersReachGates
  <2>1. PICK held \in Records(findings) \cup dropped : StandsFor(held, r)
    BY <1>1 DEF HeldInv
  <2>2. held.severity \in 1..3 /\ r[2].severity \in 1..3
    <3>1. held \in Record /\ r[2] \in [file : Nat, line : Nat, title : Nat, severity : 1..3]
      BY <1>1 DEF ShapeInv, Records
    <3>2. QED
      BY <3>1 DEF Record
  <2>3. held.severity >= 2
    BY <2>1, <2>2 DEF StandsFor
  <2>4. CASE held \in dropped
    BY <2>1, <2>3, <2>4 DEF StandsFor
  <2>5. CASE held \in Records(findings)
    <3>1. r[1] \in BlockingFlaggedBy
      BY <2>1, <2>3, <2>5 DEF StandsFor, Records, BlockingFlaggedBy, Blocking
    <3>2. gates'[g] = "FAIL"
      BY <1>2, <3>1
    <3>3. QED
      BY <3>2
  <2>6. QED
    BY <2>4, <2>5
<1>8. PairInv' /\ ForestInv'
  BY <1>1 DEF PairInv, ForestInv
<1>9. QED
  BY <1>4, <1>5, <1>6, <1>7, <1>8 DEF CollectorInv

LEMMA StutterKeeps ==
  ASSUME CollectorInv, UNCHANGED vars
  PROVE  CollectorInv'
<1>1. UNCHANGED <<stage, raised, merged, findings, parent, pair, alike, dropped, gates>>
  BY DEF vars, collectVars, mergeVars
<1>2. ShapeInv' /\ PairInv'
  BY <1>1 DEF CollectorInv, ShapeInv, PairInv, Nodes
<1>3. ExactInv'
  BY <1>1 DEF CollectorInv, ExactInv, OfKey
<1>4. HeldInv'
  <2>1. /\ \A held : Quoted(held)' <=> Quoted(held)
        /\ \A held, r : StandsFor(held, r)' <=> StandsFor(held, r)
        /\ Records(findings)' = Records(findings)
    BY <1>1 DEF Quoted, StandsFor, Records
  <2>2. QED
    BY <1>1, <2>1 DEF CollectorInv, HeldInv
<1>5. ForestInv'
  BY <1>1 DEF CollectorInv, ForestInv, Nodes
<1>6. GatesInv'
  BY <1>1 DEF CollectorInv, GatesInv, BlockersReachGates
<1>7. QED
  BY <1>2, <1>3, <1>4, <1>5, <1>6 DEF CollectorInv

\* The collector keeps its invariant.
THEOREM CollectorInvariant == Spec => []CollectorInv
<1>1. Init => CollectorInv
  BY InitEstablishes
<1>2. CollectorInv /\ [Next]_vars => CollectorInv'
  <2> SUFFICES ASSUME CollectorInv, [Next]_vars
               PROVE  CollectorInv'
    OBVIOUS
  <2>1. ASSUME NEW leaf \in Leaves, NEW f \in Candidates, Collect(leaf, f)
        PROVE  CollectorInv'
    BY <2>1, CollectKeeps
  <2>2. CASE Sort
    BY <2>2, SortKeeps
  <2>3. ASSUME NEW sim_ok \in BOOLEAN, Compare(sim_ok)
        PROVE  CollectorInv'
    BY <2>3, CompareKeeps
  <2>4. CASE MergeGroups
    BY <2>4, MergeGroupsKeeps
  <2>5. ASSUME NEW mentioned \in SUBSET DOMAIN findings, NEW drops \in SUBSET mentioned,
               Rank(mentioned, drops)
        PROVE  CollectorInv'
    BY <2>5, RankKeeps
  <2>6. CASE SynthesizeGates
    BY <2>6, SynthesizeGatesKeeps
  <2>7. CASE Judged \/ UNCHANGED vars
    BY <2>7, StutterKeeps DEF Judged
  <2>8. QED
    BY <2>1, <2>2, <2>3, <2>4, <2>5, <2>6, <2>7 DEF Next
<1>3. QED
  BY <1>1, <1>2, PTL DEF Spec

-----------------------------------------------------------------------------
(* What the invariant says.                                                *)

\* The data keep their shapes, and every walk of find ends at a root
\* (handlers.py _semantic_merge, find).
THEOREM CollectorTypes == Spec => []TypeOK
<1>1. CollectorInv => TypeOK
  <2> SUFFICES ASSUME CollectorInv
               PROVE  TypeOK
    OBVIOUS
  <2>1. ShapeInv /\ ExactInv /\ HeldInv /\ ForestInv
    BY DEF CollectorInv
  <2>2. ASSUME NEW held \in Held
        PROVE  /\ held.flagged_by \in (SUBSET Leaves) \ {{}} /\ held.winner \in Leaves
               /\ held.severity \in 1..3 /\ \E f \in Candidates : f.file = held.file
    <3>1. CASE held \in Records(merged)
      <4>1. PICK key \in DOMAIN merged : held = merged[key]
        BY <3>1 DEF Records
      <4>2. PICK r \in OfKey(key) : r[1] = held.winner
        BY <2>1, <4>1 DEF ExactInv
      <4>3. held \in Record /\ DedupKey(held) = key /\ held.flagged_by = {s[1] : s \in OfKey(key)}
        BY <2>1, <4>1 DEF ExactInv
      <4>4. r[2] \in Candidates /\ DedupKey(r[2]) = key
        BY <2>1, <4>2 DEF OfKey, ShapeInv
      <4>5. r[2].file = held.file
        <5>1. \A a : DedupKey(a)[1] = a.file
          BY DEF DedupKey
        <5>2. QED
          BY <4>3, <4>4, <5>1
      <4>6. held.winner \in held.flagged_by
        BY <4>2, <4>3
      <4>7. held.flagged_by \in SUBSET Leaves /\ held.winner \in Leaves /\ held.severity \in 1..3
        BY <4>3 DEF Record
      <4>8. held.flagged_by \in (SUBSET Leaves) \ {{}}
        BY <4>6, <4>7
      <4>9. QED
        BY <4>4, <4>5, <4>7, <4>8
    <3>2. CASE held \in Records(findings) \cup dropped
      <4>1. held \in Record /\ Quoted(held)
        BY <2>1, <3>2 DEF ShapeInv, HeldInv, Records
      <4>2. held.winner \in held.flagged_by
        BY <4>1 DEF Quoted
      <4>3. held.flagged_by \in SUBSET Leaves /\ held.winner \in Leaves /\ held.severity \in 1..3
        BY <4>1 DEF Record
      <4>4. held.flagged_by \in (SUBSET Leaves) \ {{}}
        BY <4>2, <4>3
      <4>5. PICK f \in Candidates : <<held.winner, f>> \in raised /\ f.file = held.file
        BY <4>1, <4>2 DEF Quoted
      <4>6. QED
        BY <4>3, <4>4, <4>5
    <3>3. QED
      BY <2>2, <3>1, <3>2 DEF Held
  <2>3. ASSUME stage \in {"compare", "group"}, NEW x \in DOMAIN findings
        PROVE  parent[x] \in DOMAIN findings /\ parent[Root(x)] = Root(x)
    <3> DEFINE n == Len(findings)
    <3>1. n \in Nat /\ Nodes = 1..n /\ x \in 1..n /\ DOMAIN findings = 1..n
      BY <2>1, <2>3 DEF ShapeInv, Nodes
    <3>2. PICK root, above : Forest(1..n, parent, root, above)
      BY <2>1, <2>3, <3>1 DEF ForestInv
    <3> HIDE DEF n
    <3>3. Root(x) = root[x]
      BY <3>1, <3>2, FindsRoot DEF Root
    <3>4. QED
      BY <3>1, <3>2, <3>3 DEF Forest
  <2>4. QED
    BY <2>1, <2>2, <2>3 DEF TypeOK, ShapeInv
<1>2. QED
  BY <1>1, CollectorInvariant, PTL

\* The order in which the specialists' outputs are read does not matter to
\* the exact merge (handle_collect_findings, _pick_winner).
THEOREM ExactMergeIsCanonical == Spec => []ExactIsCanonical
<1>1. CollectorInv => ExactIsCanonical
  <2> SUFFICES ASSUME ShapeInv, ExactInv
               PROVE  ExactIsCanonical
    BY DEF CollectorInv
  <2>1. DOMAIN merged = {DedupKey(r[2]) : r \in raised}
    BY DEF ExactInv
  <2>2. ASSUME NEW key \in DOMAIN merged
        PROVE  LET mine == {r \in raised : DedupKey(r[2]) = key}
                   gravest == {r \in mine : \A other \in mine : other[2].severity <= r[2].severity}
               IN  /\ \A r \in gravest :
                        merged[key].severity = r[2].severity /\ merged[key].winner <= r[1]
                   /\ \E r \in gravest : merged[key].winner = r[1]
                   /\ merged[key].flagged_by = {r[1] : r \in mine}
    <3> DEFINE mine == {r \in raised : DedupKey(r[2]) = key}
               gravest == {r \in mine : \A other \in mine : other[2].severity <= r[2].severity}
               m == merged[key]
    <3>1. mine = OfKey(key)
      BY DEF OfKey
    <3>2. /\ m \in Record /\ m.flagged_by = {r[1] : r \in mine}
          /\ \E r \in mine : r[1] = m.winner /\ r[2].severity = m.severity
          /\ \A r \in mine :
               r[2].severity <= m.severity /\ (r[2].severity = m.severity => m.winner <= r[1])
      BY <2>2, <3>1 DEF ExactInv
    <3>3. PICK s \in mine : s[1] = m.winner /\ s[2].severity = m.severity
      BY <3>2
    <3>4. m.severity \in 1..3 /\ \A r \in mine : r[2].severity \in 1..3
      <4>1. \A r \in mine : r[2] \in [file : Nat, line : Nat, title : Nat, severity : 1..3]
        BY DEF ShapeInv
      <4>2. QED
        BY <3>2, <4>1 DEF Record
    <3> HIDE DEF mine, m
    <3>5. s \in gravest
      BY <3>2, <3>3
    <3>6. \A r \in gravest : r \in mine /\ r[2].severity = m.severity
      BY <3>2, <3>3, <3>4
    <3>7. QED
      BY <3>2, <3>3, <3>5, <3>6 DEF mine, m
  <2>3. QED
    BY <2>1, <2>2 DEF ExactIsCanonical
<1>2. QED
  BY <1>1, CollectorInvariant, PTL

\* No merge loses or plays down a finding (handle_collect_findings,
\* _semantic_merge, _apply_rank_decisions).
THEOREM NoFindingVanishes == Spec => []NothingVanishes
<1>1. CollectorInv => NothingVanishes
  <2> SUFFICES ASSUME CollectorInv, NEW r \in raised
               PROVE  \E held \in IF stage = "exact" THEN Records(merged)
                                  ELSE Records(findings) \cup dropped :
                        StandsFor(held, r)
    BY DEF NothingVanishes, StandsFor
  <2>1. ShapeInv /\ ExactInv /\ HeldInv
    BY DEF CollectorInv
  <2>2. CASE stage = "exact"
    <3> DEFINE key == DedupKey(r[2])
               m == merged[key]
    <3>1. key \in DOMAIN merged /\ r \in OfKey(key)
      BY <2>1 DEF ExactInv, OfKey
    <3>2. /\ m \in Record /\ DedupKey(m) = key /\ r[1] \in m.flagged_by
          /\ r[2].severity <= m.severity /\ m \in Records(merged)
      BY <2>1, <3>1 DEF ExactInv, Records
    <3>3. m.file = r[2].file
      <4>1. \A a : DedupKey(a)[1] = a.file
        BY DEF DedupKey
      <4> HIDE DEF m
      <4>2. QED
        BY <3>2, <4>1
    <3>4. m.severity \in 1..3 /\ r[2].severity \in 1..3
      <4>1. r[2] \in [file : Nat, line : Nat, title : Nat, severity : 1..3]
        BY <2>1 DEF ShapeInv
      <4>2. QED
        BY <3>2, <4>1 DEF Record
    <3> HIDE DEF m
    <3>5. StandsFor(m, r)
      BY <3>2, <3>3, <3>4 DEF StandsFor
    <3>6. QED
      BY <2>2, <3>2, <3>5
  <2>3. CASE stage # "exact"
    BY <2>1, <2>3 DEF HeldInv
  <2>4. QED
    BY <2>2, <2>3
<1>2. QED
  BY <1>1, CollectorInvariant, PTL

\* A record quotes its winner truly, and names only leaves that found
\* something in its file (_semantic_merge, flagged_by).
THEOREM QuotesStayTrue == Spec => []QuotesAreTrue
<1>1. CollectorInv => QuotesAreTrue
  <2> SUFFICES ASSUME CollectorInv, NEW held \in Held
               PROVE  Quoted(held)
    BY DEF QuotesAreTrue, Quoted
  <2>1. ShapeInv /\ ExactInv /\ HeldInv
    BY DEF CollectorInv
  <2>2. CASE held \in Records(merged)
    <3>1. PICK key \in DOMAIN merged : held = merged[key]
      BY <2>2 DEF Records
    <3>2. PICK r \in OfKey(key) : r[1] = held.winner /\ r[2].severity = held.severity
      BY <2>1, <3>1 DEF ExactInv
    <3>3. DedupKey(held) = key /\ held.flagged_by = {s[1] : s \in OfKey(key)}
      BY <2>1, <3>1 DEF ExactInv
    <3>4. \A s \in OfKey(key) : s[2] \in Candidates /\ <<s[1], s[2]>> \in raised /\ DedupKey(s[2]) = key
      BY <2>1 DEF OfKey, ShapeInv
    <3>5. \A s \in OfKey(key) : s[2].file = held.file
      <4>1. \A a : DedupKey(a)[1] = a.file
        BY DEF DedupKey
      <4>2. QED
        BY <3>3, <3>4, <4>1
    <3>6. held.winner \in held.flagged_by
      BY <3>2, <3>3
    <3>7. QED
      BY <3>2, <3>3, <3>4, <3>5, <3>6 DEF Quoted
  <2>3. CASE held \in Records(findings) \cup dropped
    BY <2>1, <2>3 DEF HeldInv
  <2>4. QED
    BY <2>2, <2>3 DEF Held
<1>2. QED
  BY <1>1, CollectorInvariant, PTL

\* The union-find groups what chains of alike findings join, whatever the
\* path halving does in between (_semantic_merge, find and union).
THEOREM UnionFindIsRight == Spec => []GroupsAreComponents
<1>1. CollectorInv => GroupsAreComponents
  <2> SUFFICES ASSUME CollectorInv, stage \in {"compare", "group"}, NEW x \in DOMAIN findings
               PROVE  Group(x) = Component(x)
    BY DEF GroupsAreComponents
  <2> DEFINE n == Len(findings)
  <2>1. ShapeInv /\ ForestInv
    BY DEF CollectorInv
  <2>2. n \in Nat /\ Nodes = 1..n /\ x \in 1..n /\ DOMAIN findings = 1..n
    BY <2>1 DEF ShapeInv, Nodes
  <2>3. alike \subseteq (1..n) \X (1..n)
    BY <2>1, <2>2 DEF ForestInv
  <2>4. PICK root, above : Forest(1..n, parent, root, above) /\ Joins(1..n, alike, root)
    BY <2>1, <2>2 DEF ForestInv
  <2> HIDE DEF n
  <2>5. QED
    BY <2>2, <2>3, <2>4, TreesAreComponents
<1>2. QED
  BY <1>1, CollectorInvariant, PTL

\* A gate passes over no blocking finding of its leaves that was not dropped
\* by name (handle_synthesize_release_readiness).
THEOREM BlockersAreHeard == Spec => []BlockersReachGates
<1>1. CollectorInv => BlockersReachGates
  BY DEF CollectorInv, GatesInv
<1>2. QED
  BY <1>1, CollectorInvariant, PTL
=============================================================================
