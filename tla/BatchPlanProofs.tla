---------------------------- MODULE BatchPlanProofs ----------------------------
(***************************************************************************)
(* Theorems about BatchPlan: the plan is sound, the merge has an output    *)
(* for every planned unit, trimming is fair and the shards mirror the      *)
(* outputs, for every set of leaves, number of files, limit and budget.    *)
(*                                                                         *)
(* The arithmetic of the slices rests on CeilDivCovers and on the places   *)
(* of the files (Ranked); flattening and packing are related through the   *)
(* function that FlattenSeq defines by recursion, which FlattenJoins shows *)
(* to exist.                                                               *)
(***************************************************************************)
EXTENDS BatchPlan, Integers, FiniteSetTheorems, SequenceTheorems, WellFoundedInduction,
        NaturalsInduction, TLAPS

-----------------------------------------------------------------------------
(* Numbers.                                                                *)

\* A non-empty set of numbers has a least one.
LEMMA LeastNumber ==
  ASSUME NEW T \in SUBSET Nat, T # {}
  PROVE  \E m \in T : \A k \in T : m <= k
<1> DEFINE less == {ss \in Nat \X Nat : ss[1] < ss[2]}
<1>1. IsWellFoundedOn(less, Nat)
  BY NatLessThanWellFounded DEF OpToRel
<1>2. PICK m \in T : \A k \in T : <<k, m>> \notin less
  BY <1>1, WFMin
<1>3. ASSUME NEW k \in T
      PROVE  m <= k
  <2>1. <<k, m>> \in Nat \X Nat /\ m \in Nat /\ k \in Nat
    OBVIOUS
  <2>2. ~(<<k, m>>[1] < <<k, m>>[2])
    BY <1>2, <2>1
  <2>3. QED
    BY <2>1, <2>2
<1>4. QED
  BY <1>3

\* What holds at zero and goes from each number to the next holds for all.
LEMMA CountingUp ==
  ASSUME NEW T \in SUBSET Nat, 0 \in T, \A n \in Nat : n \in T => n + 1 \in T
  PROVE  T = Nat
<1> SUFFICES ASSUME Nat \ T # {}
             PROVE  FALSE
  OBVIOUS
<1>1. PICK m \in Nat \ T : \A k \in Nat \ T : m <= k
  BY LeastNumber
<1>2. m # 0 /\ m - 1 \in Nat /\ m = (m - 1) + 1 /\ ~(m <= m - 1)
  OBVIOUS
<1>3. QED
  BY <1>1, <1>2

\* In a strict total order on a finite set, given by what is before each
\* element, no two elements have as many before them, and some element has
\* any number of them before it.
LEMMA Places ==
  ASSUME NEW S, IsFiniteSet(S), NEW before \in [S -> SUBSET S],
         \A a \in S : a \notin before[a],
         \A a, b \in S : a \in before[b] => before[a] \subseteq before[b],
         \A a, b \in S : a = b \/ a \in before[b] \/ b \in before[a]
  PROVE  /\ Cardinality(S) \in Nat
         /\ \A a, b \in S : Cardinality(before[a]) = Cardinality(before[b]) => a = b
         /\ \A i \in 1..Cardinality(S) : \E a \in S : Cardinality(before[a]) = i - 1
<1> DEFINE n == Cardinality(S)
           rank == [a \in S |-> Cardinality(before[a]) + 1]
<1>1. n \in Nat /\ IsFiniteSet(1..n) /\ Cardinality(1..n) = n
  BY FS_CardinalityType, FS_Interval
<1>2. \A a \in S : IsFiniteSet(before[a]) /\ Cardinality(before[a]) \in Nat
  BY FS_Subset, FS_CardinalityType
<1>3. \A a \in S : Cardinality(before[a]) < n
  <2> TAKE a \in S
  <2>1. before[a] \subseteq S /\ before[a] # S
    OBVIOUS
  <2>2. Cardinality(before[a]) <= n /\ Cardinality(before[a]) # n
    BY <2>1, FS_Subset
  <2>3. QED
    BY <1>1, <1>2, <2>2
<1>4. \A a, b \in S : a \in before[b] => Cardinality(before[a]) < Cardinality(before[b])
  <2> SUFFICES ASSUME NEW a \in S, NEW b \in S, a \in before[b]
               PROVE  Cardinality(before[a]) < Cardinality(before[b])
    OBVIOUS
  <2>1. before[a] \subseteq before[b] /\ before[a] # before[b]
    OBVIOUS
  <2>2. /\ Cardinality(before[a]) <= Cardinality(before[b])
        /\ Cardinality(before[a]) # Cardinality(before[b])
    BY <1>2, <2>1, FS_Subset
  <2>3. QED
    BY <1>2, <2>2
<1>5. \A a, b \in S : Cardinality(before[a]) = Cardinality(before[b]) => a = b
  BY <1>2, <1>4
<1>6. rank \in Injection(S, 1..n)
  <2>1. rank \in [S -> 1..n]
    BY <1>1, <1>2, <1>3
  <2>2. \A a, b \in S : rank[a] = rank[b] => a = b
    BY <1>2, <1>5
  <2>3. QED
    BY <2>1, <2>2 DEF Injection, IsInjective
<1>7. rank \in Surjection(S, 1..n)
  BY <1>1, <1>6, FS_Injection
<1>8. ASSUME NEW i \in 1..n
      PROVE  \E a \in S : Cardinality(before[a]) = i - 1
  <2>1. PICK a \in S : rank[a] = i
    BY <1>7 DEF Surjection
  <2>2. QED
    BY <1>2, <2>1
<1>9. QED
  BY <1>1, <1>5, <1>8

\* A set of the first numbers holds as many numbers as its last one says.
LEMMA InitialSegment ==
  ASSUME NEW m \in Nat, NEW J \in SUBSET (1..m),
         \A j \in J : \A i \in 1..m : i <= j => i \in J
  PROVE  J = 1..Cardinality(J) /\ Cardinality(J) \in Nat
<1> DEFINE bounds == {x \in Nat : \A j \in J : j <= x}
<1>1. PICK p \in bounds : \A x \in bounds : p <= x
  <2>1. bounds \in SUBSET Nat /\ m \in bounds
    OBVIOUS
  <2> HIDE DEF bounds
  <2>2. QED
    BY <2>1, LeastNumber
<1>2. p = 0 \/ p \in J
  <2> SUFFICES ASSUME p # 0, p \notin J PROVE FALSE
    OBVIOUS
  <2>1. p - 1 \in bounds
    OBVIOUS
  <2>2. QED
    BY <1>1, <2>1
<1>3. J = 1..p
  <2>1. J \subseteq 1..p /\ p \in Nat
    OBVIOUS
  <2>2. p # 0 => p \in J /\ p \in 1..m
    BY <1>2
  <2>3. ASSUME NEW i \in 1..p PROVE i \in J
    BY <2>2
  <2>4. QED
    BY <2>1, <2>3
<1>4. QED
  BY <1>3, FS_Interval

\* A quotient rounded up covers the number, and exceeds it by less than one
\* divisor.
LEMMA CeilDivCovers ==
  ASSUME NEW num \in Nat, NEW den \in Nat \ {0}
  PROVE  /\ CeilDiv(num, den) \in Nat
         /\ num <= CeilDiv(num, den) * den
         /\ CeilDiv(num, den) * den < num + den
         /\ num > 0 => CeilDiv(num, den) > 0
         /\ num = 0 => CeilDiv(num, den) = 0
<1> DEFINE x == num + den - 1
           q == x \div den
<1>1. x \in Nat /\ q \in Nat /\ q * den <= x /\ x < q * den + den
  OBVIOUS
<1>2. CeilDiv(num, den) = q
  BY DEF CeilDiv
<1>3. num > 0 => q > 0
  <2> HIDE DEF q
  <2>1. q = 0 => q * den = 0
    OBVIOUS
  <2>2. QED
    BY <1>1, <2>1
<1>4. num = 0 => q = 0
  <2> HIDE DEF q
  <2>1. q >= 1 => q * den >= den
    BY <1>1
  <2>2. QED
    BY <1>1, <2>1
<1> HIDE DEF q
<1>5. QED
  BY <1>1, <1>2, <1>3, <1>4

\* Products keep an order.
LEMMA Scales ==
  ASSUME NEW x \in Nat, NEW y \in Nat, NEW z \in Nat, x <= y
  PROVE  x * z \in Nat /\ y * z \in Nat /\ x * z <= y * z
OBVIOUS

\* And a strict one by a positive factor gives it back.
LEMMA ScalesBack ==
  ASSUME NEW x \in Nat, NEW y \in Nat, NEW z \in Nat, x * z < y * z
  PROVE  x < y
<1> SUFFICES ASSUME y <= x PROVE FALSE
  OBVIOUS
<1>1. QED
  BY Scales

-----------------------------------------------------------------------------
(* The slices of a leaf.                                                   *)

\* The place of a file among the files of its leaf.
Rank(files, f) == Cardinality({g \in files : g < f})

\* The files of a leaf take the places from zero on, one each.
LEMMA Ranked ==
  ASSUME NEW files \in SUBSET Files
  PROVE  /\ IsFiniteSet(files) /\ Cardinality(files) \in Nat
         /\ \A f \in files : Rank(files, f) \in 0..(Cardinality(files) - 1)
         /\ \A f, g \in files : Rank(files, f) = Rank(files, g) => f = g
         /\ \A i \in 0..(Cardinality(files) - 1) : \E f \in files : Rank(files, f) = i
<1> DEFINE before == [f \in files |-> {g \in files : g < f}]
           n == Cardinality(files)
<1>1. NumFiles \in Nat /\ \A f \in files : f \in Int
  BY PlanAssumption DEF Files
<1>2. IsFiniteSet(files) /\ n \in Nat
  <2>1. IsFiniteSet(Files)
    BY <1>1, FS_Interval DEF Files
  <2>2. QED
    BY <2>1, FS_Subset, FS_CardinalityType
<1>3. before \in [files -> SUBSET files]
  OBVIOUS
<1>4. /\ \A f \in files : f \notin before[f]
      /\ \A f, g \in files : f \in before[g] => before[f] \subseteq before[g]
      /\ \A f, g \in files : f = g \/ f \in before[g] \/ g \in before[f]
  BY <1>1
<1>5. \A f \in files : before[f] = {g \in files : g < f}
  OBVIOUS
<1> HIDE DEF before
<1>6. /\ \A f, g \in files : Cardinality(before[f]) = Cardinality(before[g]) => f = g
      /\ \A i \in 1..n : \E f \in files : Cardinality(before[f]) = i - 1
  BY <1>2, <1>3, <1>4, Places
<1>7. \A f \in files : Rank(files, f) = Cardinality(before[f])
  BY <1>5 DEF Rank
<1>8. \A f \in files : Cardinality(before[f]) \in 0..(n - 1)
  <2> TAKE f \in files
  <2>1. before[f] \subseteq files /\ before[f] # files
    BY <1>3, <1>4
  <2>2. Cardinality(before[f]) <= n /\ Cardinality(before[f]) # n /\ IsFiniteSet(before[f])
    BY <1>2, <2>1, FS_Subset
  <2>3. QED
    BY <1>2, <2>2, FS_CardinalityType
<1>9. ASSUME NEW i \in 0..(n - 1)
      PROVE  \E f \in files : Cardinality(before[f]) = i
  <2>1. i + 1 \in 1..n /\ (i + 1) - 1 = i
    BY <1>2
  <2>2. QED
    BY <1>6, <2>1
<1>10. QED
  BY <1>2, <1>6, <1>7, <1>8, <1>9

Unit == [leaf_id : Leaves, sub_index : Nat \ {0}, total_subs : Nat \ {0}, files : SUBSET Files]

\* A slice of a leaf that is too large for one unit has no more files than a
\* chunk, and a chunk overshoots the token limit by less than one file.
LEMMA ChunkFits ==
  ASSUME limit \in TokenLimits, NEW n \in Nat, n * TokensPerFile > limit
  PROVE  /\ SubCount(n) \in Nat \ {0} /\ ChunkSize(n) \in Nat \ {0}
         /\ n <= ChunkSize(n) * SubCount(n)
         /\ ChunkSize(n) * TokensPerFile < limit + TokensPerFile
<1> DEFINE T == TokensPerFile
           L == limit
           m == SubCount(n)
           c == ChunkSize(n)
<1>1. T \in Nat \ {0} /\ L \in Nat \ {0} /\ n * T \in Nat /\ n * T > L
  BY PlanAssumption
<1>2. n > 0
  BY <1>1
<1>3. m \in Nat \ {0} /\ n * T <= m * L
  <2>1. m = CeilDiv(n * T, L)
    BY DEF SubCount
  <2> HIDE DEF m, T, L
  <2>2. QED
    BY <1>1, <2>1, CeilDivCovers
<1>4. c \in Nat \ {0} /\ n <= c * m /\ c * m < n + m
  <2>1. c = CeilDiv(n, m)
    BY DEF ChunkSize
  <2> HIDE DEF m, c
  <2>2. QED
    BY <1>2, <1>3, <2>1, CeilDivCovers
<1>5. c * T < L + T
  <2> HIDE DEF m, c, T, L
  <2> SUFFICES ASSUME L + T <= c * T PROVE FALSE
    BY <1>1, <1>4
  <2>1. L + T \in Nat /\ c * T \in Nat /\ c * m \in Nat /\ n + m \in Nat /\ m * L \in Nat /\ m * T \in Nat
    BY <1>1, <1>3, <1>4
  <2>2. (L + T) * m <= (c * T) * m
    BY <1>3, <2>1, Scales
  <2>3. (L + T) * m = m * L + m * T /\ (c * T) * m = (c * m) * T
    BY <1>1, <1>3, <1>4
  <2>4. (c * m + 1) * T <= (n + m) * T
    <3>1. c * m + 1 \in Nat /\ c * m + 1 <= n + m
      BY <1>4, <2>1
    <3>2. QED
      BY <1>1, <2>1, <3>1, Scales
  <2>5. (c * m + 1) * T = (c * m) * T + T /\ (n + m) * T = n * T + m * T
    BY <1>1, <1>3, <2>1
  <2>6. (c * m) * T \in Nat
    BY <1>1, <2>1
  <2>7. QED
    BY <1>1, <1>3, <2>1, <2>2, <2>3, <2>4, <2>5, <2>6
<1>6. QED
  BY <1>3, <1>4, <1>5

\* The chunk a file falls into.
LEMMA ChunkOfPlace ==
  ASSUME NEW c \in Nat \ {0}, NEW r \in Nat
  PROVE  \E k \in Nat \ {0} : (k - 1) * c <= r /\ r < k * c
<1> DEFINE q == r \div c
<1>1. q \in Nat /\ q * c <= r /\ r < q * c + c
  OBVIOUS
<1> HIDE DEF q
<1>2. q + 1 \in Nat \ {0} /\ (q + 1) - 1 = q /\ (q + 1) * c = q * c + c
  BY <1>1
<1>3. QED
  BY <1>1, <1>2

\* The slices that are emitted are those that start before the files end.
LEMMA SlicesEmitted ==
  ASSUME NEW n \in Nat \ {0}, NEW c \in Nat \ {0}, NEW m \in Nat \ {0}, n <= c * m
  PROVE  LET J == {j \in 1..m : (j - 1) * c < n}
         IN  /\ Cardinality(J) \in Nat \ {0}
             /\ \A k \in Nat \ {0} : k \in 1..Cardinality(J) <=> (k - 1) * c < n
<1> DEFINE J == {j \in 1..m : (j - 1) * c < n}
<1>1. \A j \in J : \A i \in 1..m : i <= j => i \in J
  <2> SUFFICES ASSUME NEW j \in J, NEW i \in 1..m, i <= j PROVE (i - 1) * c < n
    OBVIOUS
  <2>1. i - 1 \in Nat /\ j - 1 \in Nat /\ i - 1 <= j - 1
    OBVIOUS
  <2>2. (i - 1) * c \in Nat /\ (j - 1) * c \in Nat /\ (i - 1) * c <= (j - 1) * c
    BY <2>1, Scales
  <2>3. QED
    BY <2>2
<1>2. J \in SUBSET (1..m)
  OBVIOUS
<1>3. \A k \in Nat \ {0} : k \in J <=> (k - 1) * c < n
  <2> SUFFICES ASSUME NEW k \in Nat \ {0}, (k - 1) * c < n PROVE k \in 1..m
    OBVIOUS
  <2>1. k - 1 \in Nat /\ (k - 1) * c \in Nat /\ c * m = m * c /\ m * c \in Nat
    OBVIOUS
  <2>2. (k - 1) * c < m * c
    BY <2>1
  <2>3. k - 1 < m
    BY <2>1, <2>2, ScalesBack
  <2>4. QED
    BY <2>3
<1>4. 1 \in J
  BY <1>3
<1> HIDE DEF J
<1>5. J = 1..Cardinality(J) /\ Cardinality(J) \in Nat
  BY <1>1, <1>2, InitialSegment
<1>6. Cardinality(J) \in Nat \ {0} /\ \A k \in Nat \ {0} : k \in 1..Cardinality(J) <=> (k - 1) * c < n
  <2>1. Cardinality(J) # 0
    BY <1>4, <1>5
  <2>2. \A k \in Nat \ {0} : k \in 1..Cardinality(J) <=> k \in J
    BY <1>5
  <2>3. QED
    BY <1>3, <1>5, <2>1, <2>2
<1>7. QED
  BY <1>6 DEF J

\* The units a leaf is cut into: numbered from one, they partition the files
\* of the leaf, none is empty but that of a leaf without files, and each
\* overshoots the token limit by less than one file.
CutOf(leaf, us) ==
  /\ us \in Seq(Unit) /\ Len(us) > 0
  /\ \A k \in DOMAIN us : us[k].leaf_id = leaf /\ us[k].sub_index = k
  /\ UNION {us[k].files : k \in DOMAIN us} = scope[leaf]
  /\ \A j, k \in DOMAIN us : j # k => us[j].files \cap us[k].files = {}
  /\ scope[leaf] # {} => \A k \in DOMAIN us : us[k].files # {}
  /\ scope[leaf] = {} => Len(us) = 1
  /\ \A k \in DOMAIN us : Cardinality(us[k].files) * TokensPerFile < limit + TokensPerFile

LEMMA SlicedCuts ==
  ASSUME scope \in [Leaves -> SUBSET Files], limit \in TokenLimits, NEW leaf \in Leaves,
         Cardinality(scope[leaf]) * TokensPerFile > limit
  PROVE  CutOf(leaf, Sliced(leaf, scope[leaf]))
<1> DEFINE files == scope[leaf]
           n == Cardinality(files)
           c == ChunkSize(n)
           m == SubCount(n)
           K == Cardinality({j \in 1..m : (j - 1) * c < n})
           us == Sliced(leaf, files)
           slice(k) == {f \in files : (k - 1) * c <= Rank(files, f) /\ Rank(files, f) < k * c}
<1>1. files \in SUBSET Files /\ TokensPerFile \in Nat \ {0} /\ limit \in Nat \ {0}
  BY PlanAssumption
<1>2. /\ IsFiniteSet(files) /\ n \in Nat
      /\ \A f \in files : Rank(files, f) \in 0..(n - 1)
      /\ \A f, g \in files : Rank(files, f) = Rank(files, g) => f = g
      /\ \A i \in 0..(n - 1) : \E f \in files : Rank(files, f) = i
  BY <1>1, Ranked
<1>3. n \in Nat \ {0} /\ files # {}
  <2>1. n * TokensPerFile > limit
    OBVIOUS
  <2> HIDE DEF n, files
  <2>2. n # 0
    BY <1>1, <1>2, <2>1
  <2>3. QED
    BY <1>2, <2>2, FS_EmptySet DEF n
<1>4. /\ m \in Nat \ {0} /\ c \in Nat \ {0} /\ n <= c * m
      /\ c * TokensPerFile < limit + TokensPerFile
  <2>1. n * TokensPerFile > limit
    OBVIOUS
  <2> HIDE DEF n
  <2>2. QED
    BY <1>3, <2>1, ChunkFits
<1>5. K \in Nat \ {0} /\ \A k \in Nat \ {0} : k \in 1..K <=> (k - 1) * c < n
  <2> HIDE DEF n, m, c
  <2>1. QED
    BY <1>3, <1>4, SlicesEmitted
<1>6. \A k : SliceOf(files, k) = slice(k)
  BY DEF SliceOf, Rank
<1>7. us = [k \in 1..K |-> [leaf_id |-> leaf, sub_index |-> k, total_subs |-> m, files |-> slice(k)]]
  <2>1. us = [k \in 1..K |-> [leaf_id |-> leaf, sub_index |-> k, total_subs |-> m,
                              files |-> SliceOf(files, k)]]
    BY DEF Sliced
  <2> HIDE DEF us, slice, K, m
  <2>2. QED
    BY <1>6, <2>1
<1>8. /\ DOMAIN us = 1..K
      /\ \A k \in 1..K : us[k] = [leaf_id |-> leaf, sub_index |-> k, total_subs |-> m, files |-> slice(k)]
  <2> HIDE DEF us, slice, K, m
  <2>1. QED
    BY <1>7
<1> HIDE DEF us, K, m, c, n
<1>9. us \in Seq(Unit) /\ Len(us) = K
  <2>1. \A k \in 1..K : us[k] \in Unit
    <3> TAKE k \in 1..K
    <3>1. slice(k) \in SUBSET Files /\ k \in Nat \ {0}
      BY <1>1, <1>5
    <3> HIDE DEF slice
    <3>2. QED
      BY <1>4, <1>8, <3>1 DEF Unit
  <2>2. us = [k \in 1..K |-> us[k]]
    <3> HIDE DEF slice
    <3>1. QED
      BY <1>7, <1>8
  <2>3. us \in [1..K -> Unit]
    BY <2>1, <2>2
  <2>4. QED
    BY <1>5, <2>3
<1>10. \A k \in 1..K : us[k].leaf_id = leaf /\ us[k].sub_index = k /\ us[k].files = slice(k)
  <2> HIDE DEF slice
  <2>1. QED
    BY <1>8
<1>11. \A f \in files : \E k \in 1..K : f \in slice(k)
  <2> TAKE f \in files
  <2>1. Rank(files, f) \in Nat /\ Rank(files, f) < n
    BY <1>2, <1>3
  <2>2. PICK k \in Nat \ {0} : (k - 1) * c <= Rank(files, f) /\ Rank(files, f) < k * c
    BY <1>4, <2>1, ChunkOfPlace
  <2>3. (k - 1) * c \in Nat
    BY <1>4
  <2>4. (k - 1) * c < n
    BY <1>3, <2>1, <2>2, <2>3
  <2>5. k \in 1..K
    BY <1>5, <2>4
  <2>6. QED
    BY <2>2, <2>5
<1>12. UNION {us[k].files : k \in 1..K} = files
  <2>1. \A k \in 1..K : us[k].files \subseteq files
    BY <1>10
  <2>2. \A f \in files : \E k \in 1..K : f \in us[k].files
    BY <1>10, <1>11
  <2>3. QED
    BY <2>1, <2>2
<1>13. \A j, k \in 1..K : j < k => slice(j) \cap slice(k) = {}
  <2> SUFFICES ASSUME NEW j \in 1..K, NEW k \in 1..K, j < k, NEW f \in files,
                      f \in slice(j), f \in slice(k)
               PROVE  FALSE
    OBVIOUS
  <2>1. j \in Nat /\ k - 1 \in Nat /\ j <= k - 1
    BY <1>5
  <2>2. j * c \in Nat /\ (k - 1) * c \in Nat /\ j * c <= (k - 1) * c
    BY <1>4, <2>1, Scales
  <2>3. Rank(files, f) \in Nat /\ Rank(files, f) < j * c /\ (k - 1) * c <= Rank(files, f)
    BY <1>2
  <2>4. QED
    BY <2>2, <2>3
<1>14. \A j, k \in 1..K : j # k => us[j].files \cap us[k].files = {}
  <2> SUFFICES ASSUME NEW j \in 1..K, NEW k \in 1..K, j # k
               PROVE  slice(j) \cap slice(k) = {}
    BY <1>10
  <2>1. j < k \/ k < j
    BY <1>5
  <2> HIDE DEF slice
  <2>2. QED
    BY <1>13, <2>1
<1>15. \A k \in 1..K : slice(k) # {}
  <2> TAKE k \in 1..K
  <2>1. k \in Nat \ {0} /\ (k - 1) * c \in Nat /\ k * c \in Nat /\ k * c = (k - 1) * c + c
    BY <1>4, <1>5
  <2>2. (k - 1) * c < n
    BY <1>5, <2>1
  <2>3. PICK f \in files : Rank(files, f) = (k - 1) * c
    BY <1>2, <1>3, <2>1, <2>2
  <2>4. QED
    BY <1>4, <2>1, <2>3
<1>16. \A k \in 1..K : Cardinality(slice(k)) * TokensPerFile < limit + TokensPerFile
  <2> TAKE k \in 1..K
  <2>1. k \in Nat \ {0} /\ (k - 1) * c \in Nat /\ k * c \in Nat /\ k * c = (k - 1) * c + c
    BY <1>4, <1>5
  <2> DEFINE lo == (k - 1) * c
             place == [f \in slice(k) |-> Rank(files, f) - lo + 1]
  <2>2. place \in [slice(k) -> 1..c]
    <3>1. \A f \in slice(k) : Rank(files, f) - lo + 1 \in 1..c
      BY <1>2, <1>3, <1>4, <2>1
    <3> HIDE DEF slice, lo
    <3>2. QED
      BY <3>1
  <2>3. \A f, g \in slice(k) : place[f] = place[g] => f = g
    <3> SUFFICES ASSUME NEW f \in slice(k), NEW g \in slice(k), place[f] = place[g] PROVE f = g
      OBVIOUS
    <3>1. Rank(files, f) \in Nat /\ Rank(files, g) \in Nat /\ lo \in Nat
      BY <1>2, <2>1
    <3>2. Rank(files, f) - lo + 1 = Rank(files, g) - lo + 1
      OBVIOUS
    <3> HIDE DEF lo, place
    <3>3. QED
      BY <1>2, <3>1, <3>2
  <2>4. IsFiniteSet(1..c) /\ Cardinality(1..c) = c
    BY <1>4, FS_Interval
  <2> HIDE DEF slice, place
  <2>5. place \in Injection(slice(k), 1..c)
    BY <2>2, <2>3 DEF Injection, IsInjective
  <2>6. Cardinality(slice(k)) <= c /\ Cardinality(slice(k)) \in Nat
    BY <2>4, <2>5, FS_Injection, FS_CardinalityType
  <2>7. Cardinality(slice(k)) * TokensPerFile \in Nat /\ c * TokensPerFile \in Nat
        /\ Cardinality(slice(k)) * TokensPerFile <= c * TokensPerFile
    BY <1>1, <1>4, <2>6, Scales
  <2>8. QED
    BY <1>1, <1>4, <2>7
<1>17. CutOf(leaf, us)
  <2> HIDE DEF slice
  <2>1. us \in Seq(Unit) /\ Len(us) > 0
    BY <1>5, <1>9
  <2>2. \A k \in DOMAIN us : us[k].leaf_id = leaf /\ us[k].sub_index = k
    BY <1>8, <1>10
  <2>3. UNION {us[k].files : k \in DOMAIN us} = scope[leaf]
    BY <1>8, <1>12
  <2>4. \A j, k \in DOMAIN us : j # k => us[j].files \cap us[k].files = {}
    BY <1>8, <1>14
  <2>5. \A k \in DOMAIN us : us[k].files # {}
    BY <1>8, <1>10, <1>15
  <2>6. \A k \in DOMAIN us : Cardinality(us[k].files) * TokensPerFile < limit + TokensPerFile
    BY <1>8, <1>10, <1>16
  <2>7. QED
    BY <1>3, <2>1, <2>2, <2>3, <2>4, <2>5, <2>6 DEF CutOf
<1>18. QED
  BY <1>17 DEF us

LEMMA UnitsOfCuts ==
  ASSUME scope \in [Leaves -> SUBSET Files], limit \in TokenLimits, NEW leaf \in Leaves
  PROVE  CutOf(leaf, UnitsOf(leaf))
<1>1. CASE Cardinality(scope[leaf]) * TokensPerFile > limit
  BY <1>1, SlicedCuts DEF UnitsOf
<1>2. CASE ~(Cardinality(scope[leaf]) * TokensPerFile > limit)
  <2> DEFINE us == Whole(leaf, scope[leaf])
             u == [leaf_id |-> leaf, sub_index |-> 1, total_subs |-> 1, files |-> scope[leaf]]
  <2>1. UnitsOf(leaf) = us
    BY <1>2 DEF UnitsOf
  <2>2. us = <<u>>
    BY DEF Whole
  <2>3. u \in Unit /\ u.leaf_id = leaf /\ u.sub_index = 1 /\ u.files = scope[leaf]
    BY DEF Unit
  <2>4. Cardinality(scope[leaf]) * TokensPerFile < limit + TokensPerFile
    <3>1. limit \in Nat /\ TokensPerFile \in Nat \ {0} /\ Cardinality(scope[leaf]) \in Nat
      BY PlanAssumption, Ranked
    <3>2. Cardinality(scope[leaf]) * TokensPerFile \in Nat
      BY <3>1
    <3>3. QED
      BY <1>2, <3>1, <3>2
  <2> HIDE DEF u, us
  <2>5. us \in Seq(Unit) /\ Len(us) = 1 /\ DOMAIN us = {1} /\ us[1] = u
    BY <2>2, <2>3
  <2>6. QED
    BY <2>1, <2>3, <2>4, <2>5 DEF CutOf
<1>3. QED
  BY <1>1, <1>2

-----------------------------------------------------------------------------
(* Flattening and packing.                                                 *)

\* FlattenSeq joins the parts one after the other.
Joining(parts, joined) ==
  \A i \in DOMAIN joined : joined[i] = IF i = 1 THEN parts[i] ELSE joined[i - 1] \o parts[i]

LEMMA FlattenJoins ==
  ASSUME NEW S, NEW parts \in Seq(Seq(S)), Len(parts) > 0
  PROVE  \E joined \in [1..Len(parts) -> Seq(S)] :
           Joining(parts, joined) /\ FlattenSeq(parts) = joined[Len(parts)]
<1> DEFINE N == Len(parts)
           flat == CHOOSE f : f = [i \in 1..N |-> IF i = 1 THEN parts[i] ELSE f[i - 1] \o parts[i]]
           Ex(n) == \E f \in [1..n -> Seq(S)] : Joining(parts, f)
           T == {n \in Nat : n <= N => Ex(n)}
<1>1. N \in Nat /\ \A i \in 1..N : parts[i] \in Seq(S)
  OBVIOUS
<1>2. FlattenSeq(parts) = flat[N]
  BY DEF FlattenSeq
<1>3. 0 \in T
  <2>1. [i \in 1..0 |-> parts[i]] \in [1..0 -> Seq(S)]
    OBVIOUS
  <2>2. Joining(parts, [i \in 1..0 |-> parts[i]])
    BY DEF Joining
  <2>3. QED
    BY <2>1, <2>2
<1>4. ASSUME NEW n \in Nat, Ex(n), n + 1 <= N
      PROVE  Ex(n + 1)
  <2>1. PICK f \in [1..n -> Seq(S)] : Joining(parts, f)
    BY <1>4
  <2> DEFINE last == IF n + 1 = 1 THEN parts[n + 1] ELSE f[n] \o parts[n + 1]
             g == [i \in 1..(n + 1) |-> IF i = n + 1 THEN last ELSE f[i]]
  <2>2. n + 1 \in 1..N /\ parts[n + 1] \in Seq(S)
    BY <1>1, <1>4
  <2>3. last \in Seq(S)
    BY <2>2, ConcatProperties
  <2>4. g \in [1..(n + 1) -> Seq(S)]
    <3> HIDE DEF last
    <3>1. QED
      BY <2>3
  <2>5. Joining(parts, g)
    <3> SUFFICES ASSUME NEW i \in 1..(n + 1)
                 PROVE  g[i] = IF i = 1 THEN parts[i] ELSE g[i - 1] \o parts[i]
      BY DEF Joining
    <3>1. CASE i = n + 1
      BY <3>1
    <3>2. CASE i # n + 1
      <4>1. i \in 1..n /\ g[i] = f[i]
        BY <3>2
      <4>2. i # 1 => i - 1 \in 1..n /\ i - 1 # n + 1 /\ g[i - 1] = f[i - 1]
        BY <4>1
      <4>3. f[i] = IF i = 1 THEN parts[i] ELSE f[i - 1] \o parts[i]
        BY <2>1, <4>1 DEF Joining
      <4> HIDE DEF g
      <4>4. QED
        BY <4>1, <4>2, <4>3
    <3>3. QED
      BY <3>1, <3>2
  <2>6. QED
    BY <2>4, <2>5
<1>5. PICK f \in [1..N -> Seq(S)] : Joining(parts, f)
  <2> HIDE DEF Ex
  <2>1. \A n \in Nat : n \in T => n + 1 \in T
    BY <1>1, <1>4
  <2>2. T \in SUBSET Nat
    OBVIOUS
  <2>3. T = Nat
    <3> HIDE DEF T
    <3>1. QED
      BY <1>3, <2>1, <2>2, CountingUp
  <2>4. Ex(N)
    BY <1>1, <2>3
  <2>5. QED
    BY <2>4 DEF Ex
<1>6. f = [i \in 1..N |-> IF i = 1 THEN parts[i] ELSE f[i - 1] \o parts[i]]
  BY <1>5 DEF Joining
<1>7. flat = [i \in 1..N |-> IF i = 1 THEN parts[i] ELSE flat[i - 1] \o parts[i]]
  BY <1>6
<1> HIDE DEF flat
<1>8. DOMAIN flat = 1..N /\ \A i \in 1..N : flat[i] = IF i = 1 THEN parts[i] ELSE flat[i - 1] \o parts[i]
  BY <1>7
<1> DEFINE U == {n \in Nat : n \in 1..N => flat[n] \in Seq(S)}
<1>9. U = Nat
  <2>1. 0 \in U
    OBVIOUS
  <2>2. ASSUME NEW n \in Nat, n \in U, n + 1 \in 1..N
        PROVE  flat[n + 1] \in Seq(S)
    <3>1. parts[n + 1] \in Seq(S)
      BY <1>1, <2>2
    <3>2. CASE n = 0
      <4>1. n + 1 = 1 /\ 1 \in 1..N
        BY <2>2, <3>2
      <4>2. flat[1] = parts[1]
        BY <1>8, <4>1
      <4>3. QED
        BY <3>1, <4>1, <4>2
    <3>3. CASE n # 0
      <4>1. n \in 1..N /\ flat[n] \in Seq(S) /\ n + 1 # 1 /\ (n + 1) - 1 = n
        BY <1>1, <2>2, <3>3
      <4>2. flat[n + 1] = flat[n] \o parts[n + 1]
        BY <1>8, <2>2, <4>1
      <4>3. QED
        BY <3>1, <4>1, <4>2, ConcatProperties
    <3>4. QED
      BY <3>2, <3>3
  <2>3. U \in SUBSET Nat /\ \A n \in Nat : n \in U => n + 1 \in U
    BY <2>2
  <2> HIDE DEF U
  <2>4. QED
    BY <2>1, <2>3, CountingUp
<1>10. \A i \in 1..N : flat[i] \in Seq(S)
  BY <1>1, <1>9
<1>11. flat \in [1..N -> Seq(S)]
  <2>1. flat = [i \in 1..N |-> flat[i]]
    BY <1>7, <1>8
  <2>2. QED
    BY <1>10, <2>1
<1>12. Joining(parts, flat)
  BY <1>8 DEF Joining
<1>13. QED
  BY <1>2, <1>11, <1>12

\* A union takes in one more member.
LEMMA UnionWith ==
  ASSUME NEW f, NEW D, NEW x
  PROVE  UNION {f[i] : i \in D \cup {x}} = (UNION {f[i] : i \in D}) \cup f[x]
<1> DEFINE all == UNION {f[i] : i \in D \cup {x}}
           some == UNION {f[i] : i \in D}
<1>1. f[x] \subseteq all
  OBVIOUS
<1>2. some \subseteq all
  OBVIOUS
<1>3. all \subseteq some \cup f[x]
  OBVIOUS
<1> HIDE DEF all, some
<1>4. all = some \cup f[x]
  BY <1>1, <1>2, <1>3
<1>5. QED
  BY <1>4 DEF all, some

\* What is joined holds the elements of the parts and no others.
LEMMA FlattenElements ==
  ASSUME NEW S, NEW parts \in Seq(Seq(S))
  PROVE  /\ FlattenSeq(parts) \in Seq(S)
         /\ ToSet(FlattenSeq(parts)) = UNION {ToSet(parts[i]) : i \in DOMAIN parts}
<1> DEFINE N == Len(parts)
<1>1. N \in Nat /\ DOMAIN parts = 1..N /\ \A i \in 1..N : parts[i] \in Seq(S)
  OBVIOUS
<1>2. CASE N = 0
  <2>1. parts = <<>> /\ FlattenSeq(parts) = parts
    BY <1>2 DEF FlattenSeq
  <2>2. DOMAIN parts = {}
    BY <1>1, <1>2
  <2>3. FlattenSeq(parts) \in Seq(S)
    <3>1. <<>> \in Seq(S)
      OBVIOUS
    <3>2. QED
      BY <2>1, <3>1
  <2>4. UNION {ToSet(parts[i]) : i \in DOMAIN parts} = {}
    BY <2>2
  <2>5. ToSet(FlattenSeq(parts)) = {}
    BY <2>1, <2>2 DEF ToSet
  <2>6. QED
    BY <2>3, <2>4, <2>5
<1>3. CASE N # 0
  <2>1. PICK joined \in [1..N -> Seq(S)] : Joining(parts, joined) /\ FlattenSeq(parts) = joined[N]
    BY <1>1, <1>3, FlattenJoins
  <2> DEFINE sets == [i \in 1..N |-> ToSet(parts[i])]
             Ok(n) == ToSet(joined[n]) = UNION {sets[i] : i \in 1..n}
             T == {n \in Nat : n \in 1..N => Ok(n)}
  <2>2. ASSUME NEW n \in Nat, n \in 1..N => Ok(n), n + 1 \in 1..N
        PROVE  Ok(n + 1)
    <3>1. joined[n + 1] = IF n + 1 = 1 THEN parts[n + 1] ELSE joined[(n + 1) - 1] \o parts[n + 1]
      BY <2>1, <2>2 DEF Joining
    <3>2. CASE n = 0
      <4>1. joined[n + 1] = parts[1] /\ 1..(n + 1) = {1} /\ 1 \in 1..N
        BY <2>2, <3>1, <3>2
      <4>2. sets[1] = ToSet(parts[1]) /\ UNION {sets[i] : i \in {1}} = sets[1]
        BY <4>1
      <4> HIDE DEF sets
      <4>3. QED
        BY <4>1, <4>2
    <3>3. CASE n # 0
      <4>1. n \in 1..N /\ (n + 1) - 1 = n /\ n + 1 # 1 /\ 1..(n + 1) = (1..n) \cup {n + 1}
        BY <1>1, <2>2, <3>3
      <4>2. joined[n + 1] = joined[n] \o parts[n + 1] /\ joined[n] \in Seq(S) /\ parts[n + 1] \in Seq(S)
        BY <1>1, <2>1, <2>2, <3>1, <4>1
      <4>3. ToSet(joined[n] \o parts[n + 1]) = ToSet(joined[n]) \cup ToSet(parts[n + 1])
        <5> DEFINE s == joined[n]
                   t == parts[n + 1]
        <5> HIDE DEF s, t
        <5>1. s \in Seq(S) /\ t \in Seq(S)
          BY <4>2 DEF s, t
        <5>2. /\ Len(s) \in Nat /\ Len(t) \in Nat /\ DOMAIN s = 1..Len(s) /\ DOMAIN t = 1..Len(t)
              /\ DOMAIN (s \o t) = 1..(Len(s) + Len(t))
              /\ \A i \in 1..(Len(s) + Len(t)) : (s \o t)[i] = IF i <= Len(s) THEN s[i] ELSE t[i - Len(s)]
          BY <5>1, ConcatProperties
        <5>3. \A i \in DOMAIN s : i \in DOMAIN (s \o t) /\ (s \o t)[i] = s[i]
          BY <5>2
        <5>4. \A i \in DOMAIN t : i + Len(s) \in DOMAIN (s \o t) /\ (s \o t)[i + Len(s)] = t[i]
          BY <5>2
        <5>5. \A i \in DOMAIN (s \o t) :
                \/ i \in DOMAIN s /\ (s \o t)[i] = s[i]
                \/ i - Len(s) \in DOMAIN t /\ (s \o t)[i] = t[i - Len(s)]
          BY <5>2
        <5>6. ToSet(s \o t) \subseteq ToSet(s) \cup ToSet(t)
          BY <5>5 DEF ToSet
        <5>7. ToSet(s) \subseteq ToSet(s \o t) /\ ToSet(t) \subseteq ToSet(s \o t)
          BY <5>3, <5>4 DEF ToSet
        <5>8. ToSet(s \o t) = ToSet(s) \cup ToSet(t)
          BY <5>6, <5>7
        <5>9. QED
          BY <5>8 DEF s, t
      <4>4. sets[n + 1] = ToSet(parts[n + 1]) /\ ToSet(joined[n]) = UNION {sets[i] : i \in 1..n}
        BY <2>2, <4>1
      <4> HIDE DEF sets
      <4>5. UNION {sets[i] : i \in (1..n) \cup {n + 1}} = (UNION {sets[i] : i \in 1..n}) \cup sets[n + 1]
        BY UnionWith
      <4>6. QED
        BY <4>1, <4>2, <4>3, <4>4, <4>5
    <3>4. QED
      BY <3>2, <3>3
  <2>3. Ok(N)
    <3> HIDE DEF Ok
    <3>1. 0 \in T /\ T \in SUBSET Nat /\ \A n \in Nat : n \in T => n + 1 \in T
      <4>1. 0 \in T /\ T \in SUBSET Nat
        OBVIOUS
      <4>2. \A n \in Nat : (n \in 1..N => Ok(n)) /\ n + 1 \in 1..N => Ok(n + 1)
        BY <2>2
      <4>3. QED
        BY <4>1, <4>2
    <3>2. T = Nat
      <4> HIDE DEF T
      <4>1. QED
        BY <3>1, CountingUp
    <3>3. QED
      BY <1>1, <1>3, <3>2
  <2>4. {sets[i] : i \in 1..N} = {ToSet(parts[i]) : i \in DOMAIN parts}
    BY <1>1
  <2>5. QED
    <3> HIDE DEF sets
    <3>1. ToSet(joined[N]) = UNION {ToSet(parts[i]) : i \in DOMAIN parts}
      BY <2>3, <2>4
    <3>2. joined[N] \in Seq(S)
      <4>1. N \in 1..N
        BY <1>1, <1>3
      <4> HIDE DEF N
      <4>2. QED
        BY <2>1, <4>1
    <3>3. QED
      BY <2>1, <3>1, <3>2
<1>4. QED
  BY <1>2, <1>3

\* The batches hold the units in their order, each once, and all but the last
\* are full.
LEMMA PackTiles ==
  ASSUME size \in BatchSizes, NEW S, NEW units \in Seq(S)
  PROVE  /\ Pack(units) \in Seq(Seq(S))
         /\ FlattenSeq(Pack(units)) = units
         /\ \A b \in DOMAIN Pack(units) :
              \/ Len(Pack(units)[b]) = size
              \/ b = Len(Pack(units)) /\ Len(Pack(units)[b]) \in 1..size
<1> DEFINE N == Len(units)
           s == size
           B == CeilDiv(N, s)
           end(b) == IF b * s <= N THEN b * s ELSE N
           bs == Pack(units)
<1>1. N \in Nat /\ s \in Nat \ {0} /\ \A i \in 1..N : units[i] \in S
  BY PlanAssumption
<1>2. B \in Nat /\ N <= B * s /\ B * s < N + s /\ (N > 0 => B > 0) /\ (N = 0 => B = 0)
  <2> HIDE DEF N, s
  <2>1. QED
    BY <1>1, CeilDivCovers
<1>3. DOMAIN bs = 1..B /\ \A b \in 1..B : bs[b] = SubSeq(units, (b - 1) * s + 1, end(b))
  BY DEF Pack
<1>4. \A b \in Nat : end(b) \in 0..N
  BY <1>1
<1> HIDE DEF N, s, B, bs
<1>5. \A b \in 1..B : /\ (b - 1) * s \in Nat /\ (b - 1) * s < N
                      /\ b * s = (b - 1) * s + s
                      /\ (b < B => b * s < N)
  <2> TAKE b \in 1..B
  <2>1. b \in Nat /\ b - 1 \in Nat /\ B - 1 \in Nat /\ b - 1 <= B - 1
    BY <1>2
  <2>2. (b - 1) * s \in Nat /\ (B - 1) * s \in Nat /\ (b - 1) * s <= (B - 1) * s
    BY <1>1, <2>1, Scales
  <2>3. B * s = (B - 1) * s + s /\ b * s = (b - 1) * s + s
    <3>1. \A x \in Int : x * s = (x - 1) * s + s
      BY <1>1
    <3>2. QED
      BY <1>2, <2>1, <3>1
  <2>4. (B - 1) * s < N
    BY <1>1, <1>2, <2>2, <2>3
  <2>5. b < B => b * s <= (B - 1) * s
    <3>1. b < B => b <= B - 1
      BY <1>2
    <3>2. QED
      BY <1>1, <2>1, <3>1, Scales
  <2>6. b * s \in Nat
    BY <1>1, <2>1
  <2>7. QED
    BY <1>1, <2>2, <2>3, <2>4, <2>5, <2>6
<1>6. \A b \in 1..B : /\ bs[b] \in Seq(S)
                      /\ Len(bs[b]) = end(b) - (b - 1) * s
                      /\ end(b) > (b - 1) * s
                      /\ (b < B => end(b) = b * s)
  <2> TAKE b \in 1..B
  <2> DEFINE lo == (b - 1) * s
  <2>1. lo \in Nat /\ lo < N /\ b * s = lo + s /\ (b < B => b * s < N)
    BY <1>5
  <2> HIDE DEF lo
  <2>2. end(b) \in 0..N /\ end(b) > lo
    BY <1>1, <2>1
  <2> HIDE DEF end
  <2>3. lo + 1 \in Int /\ end(b) \in Int /\ \A i \in (lo + 1)..end(b) : units[i] \in S
    BY <1>1, <2>1, <2>2
  <2>4. SubSeq(units, lo + 1, end(b)) \in Seq(S)
        /\ Len(SubSeq(units, lo + 1, end(b))) = IF lo + 1 <= end(b) THEN end(b) - (lo + 1) + 1 ELSE 0
    BY <2>3, SubSeqProperties
  <2>5. bs[b] = SubSeq(units, lo + 1, end(b))
    BY <1>3 DEF lo
  <2>6. Len(bs[b]) = end(b) - lo
    BY <2>1, <2>2, <2>3, <2>4, <2>5
  <2>7. b < B => end(b) = b * s
    BY <1>1, <2>1 DEF end
  <2>8. QED
    BY <2>2, <2>4, <2>5, <2>6, <2>7 DEF lo
<1>7. bs \in Seq(Seq(S)) /\ Len(bs) = B
  <2>1. bs = [b \in 1..B |-> bs[b]]
    BY <1>3 DEF bs, Pack
  <2>2. bs \in [1..B -> Seq(S)]
    BY <1>6, <2>1
  <2>3. QED
    BY <1>2, <2>2
<1>8. FlattenSeq(bs) = units
  <2>1. CASE N = 0
    <3>1. B = 0
      BY <1>2, <2>1
    <3>2. FlattenSeq(bs) = bs /\ bs = <<>>
      BY <1>7, <3>1 DEF FlattenSeq
    <3>3. units = <<>>
      BY <2>1 DEF N
    <3>4. QED
      BY <3>2, <3>3
  <2>2. CASE N # 0
    <3>1. B \in 1..B
      BY <1>1, <1>2, <2>2
    <3>2. PICK joined \in [1..B -> Seq(S)] : Joining(bs, joined) /\ FlattenSeq(bs) = joined[B]
      BY <1>7, <3>1, FlattenJoins
    <3> DEFINE Ok(b) == joined[b] = SubSeq(units, 1, end(b))
               T == {b \in Nat : b \in 1..B => Ok(b)}
    <3>3. ASSUME NEW b \in Nat, b \in 1..B => Ok(b), b + 1 \in 1..B
          PROVE  Ok(b + 1)
      <4>1. joined[b + 1] = IF b + 1 = 1 THEN bs[b + 1] ELSE joined[(b + 1) - 1] \o bs[b + 1]
        BY <3>2, <3>3 DEF Joining
      <4>2. bs[b + 1] = SubSeq(units, ((b + 1) - 1) * s + 1, end(b + 1))
        BY <1>3, <3>3
      <4>3. (b + 1) - 1 = b /\ (b + 1 = 1 <=> b = 0)
        OBVIOUS
      <4>4. CASE b = 0
        <5>1. ((b + 1) - 1) * s + 1 = 1
          BY <1>1, <4>4
        <5>2. QED
          BY <4>1, <4>2, <4>3, <4>4, <5>1
      <4>5. CASE b # 0
        <5>1. b \in 1..B /\ b < B
          BY <1>2, <3>3, <4>5
        <5>2. end(b) = b * s /\ b * s \in 0..N /\ end(b + 1) \in 0..N
              /\ end(b + 1) > ((b + 1) - 1) * s /\ ((b + 1) - 1) * s = b * s
          BY <1>4, <1>6, <3>3, <4>3, <5>1
        <5>3. joined[b] = SubSeq(units, 1, b * s) /\ bs[b + 1] = SubSeq(units, b * s + 1, end(b + 1))
          BY <3>3, <4>2, <5>1, <5>2
        <5>4. joined[b + 1] = SubSeq(units, 1, b * s) \o SubSeq(units, b * s + 1, end(b + 1))
          BY <4>1, <4>3, <4>5, <5>3
        <5> DEFINE k == b * s
                   n == end(b + 1)
        <5>5. 1 \in 1..(N + 1) /\ k \in (1 - 1)..N /\ n \in k..N
          BY <1>1, <5>2
        <5> HIDE DEF k, n
        <5>6. SubSeq(units, 1, k) \o SubSeq(units, k + 1, n) = SubSeq(units, 1, n)
          BY <5>5, ConcatAdjacentSubSeq DEF N
        <5>7. QED
          BY <5>4, <5>6 DEF k, n
      <4>6. QED
        BY <4>4, <4>5
    <3>4. Ok(B)
      <4> HIDE DEF Ok
      <4>1. 0 \in T /\ T \in SUBSET Nat
        OBVIOUS
      <4>2. \A b \in Nat : (b \in 1..B => Ok(b)) /\ b + 1 \in 1..B => Ok(b + 1)
        BY <3>3
      <4>3. \A b \in Nat : b \in T => b + 1 \in T
        BY <4>2
      <4>4. T = Nat
        <5> HIDE DEF T
        <5>1. QED
          BY <4>1, <4>3, CountingUp
      <4>5. QED
        BY <1>2, <3>1, <4>4
    <3>5. end(B) = N
      BY <1>1, <1>2
    <3>6. SubSeq(units, 1, N) = units
      BY SubSeqFull DEF N
    <3>7. QED
      BY <3>2, <3>4, <3>5, <3>6
  <2>3. QED
    BY <2>1, <2>2
<1>9. \A b \in 1..B : Len(bs[b]) = s \/ (b = B /\ Len(bs[b]) \in 1..s)
  <2> TAKE b \in 1..B
  <2>1. /\ (b - 1) * s \in Nat /\ b * s = (b - 1) * s + s
        /\ Len(bs[b]) = end(b) - (b - 1) * s
        /\ end(b) > (b - 1) * s /\ (b < B => end(b) = b * s)
    BY <1>5, <1>6
  <2>2. end(b) \in 0..N /\ b * s \in Nat
    BY <1>1, <1>4, <2>1
  <2>3. end(b) <= b * s
    BY <1>1, <2>2
  <2> HIDE DEF end
  <2>4. b < B => Len(bs[b]) = s
    BY <1>1, <2>1
  <2>5. Len(bs[b]) \in 1..s
    BY <1>1, <2>1, <2>2, <2>3
  <2>6. b < B \/ b = B
    BY <1>2
  <2>7. QED
    BY <2>4, <2>5, <2>6
<1>10. QED
  BY <1>3, <1>7, <1>8, <1>9 DEF bs, s

-----------------------------------------------------------------------------
(* The plan.                                                               *)

PlannedUnits == FlattenSeq([i \in DOMAIN picked |-> UnitsOf(picked[i])])

\* The plan is what the planner makes of the picked leaves; before it there
\* are none.
PlannedInv ==
  /\ phase \in {"plan", "loop", "merge", "trim", "persist", "crashed", "merged", "exited_early"}
  /\ scope \in [Leaves -> SUBSET Files] /\ limit \in TokenLimits /\ size \in BatchSizes
  /\ picked \in Seq(Leaves)
  /\ batches = Pack(PlannedUnits)
  /\ total_files_planned = PlannedFiles(PlannedUnits)

\* The units of the plan are the cuts of the picked leaves, however packed.
LEMMA UnitsAreCuts ==
  ASSUME PlannedInv
  PROVE  /\ PlannedUnits \in Seq(Unit) /\ Units = PlannedUnits
         /\ batches \in Seq(Seq(Unit))
         /\ \A i \in DOMAIN picked : picked[i] \in Leaves /\ CutOf(picked[i], UnitsOf(picked[i]))
         /\ ToSet(Units) = UNION {ToSet(UnitsOf(picked[i])) : i \in DOMAIN picked}
<1> DEFINE parts == [i \in DOMAIN picked |-> UnitsOf(picked[i])]
<1>1. \A i \in DOMAIN picked : picked[i] \in Leaves /\ CutOf(picked[i], UnitsOf(picked[i]))
  <2>1. picked \in Seq(Leaves) /\ scope \in [Leaves -> SUBSET Files] /\ limit \in TokenLimits
    BY DEF PlannedInv
  <2>2. \A i \in DOMAIN picked : picked[i] \in Leaves
    BY <2>1
  <2>3. QED
    BY <2>1, <2>2, UnitsOfCuts
<1>2. parts \in Seq(Seq(Unit)) /\ DOMAIN parts = DOMAIN picked
  <2>1. picked \in Seq(Leaves) /\ Len(picked) \in Nat /\ DOMAIN picked = 1..Len(picked)
    BY DEF PlannedInv
  <2>2. \A i \in DOMAIN picked : UnitsOf(picked[i]) \in Seq(Unit)
    BY <1>1 DEF CutOf
  <2>3. parts \in [1..Len(picked) -> Seq(Unit)]
    BY <2>1, <2>2
  <2>4. QED
    BY <2>1, <2>3
<1>3. PlannedUnits = FlattenSeq(parts)
  BY DEF PlannedUnits
<1>4. {ToSet(parts[i]) : i \in DOMAIN parts} = {ToSet(UnitsOf(picked[i])) : i \in DOMAIN picked}
  BY <1>2
<1> HIDE DEF parts
<1>5. PlannedUnits \in Seq(Unit) /\ ToSet(PlannedUnits) = UNION {ToSet(parts[i]) : i \in DOMAIN parts}
  BY <1>2, <1>3, FlattenElements
<1>6. size \in BatchSizes /\ batches = Pack(PlannedUnits)
  BY DEF PlannedInv
<1>7. batches \in Seq(Seq(Unit)) /\ FlattenSeq(batches) = PlannedUnits
  BY <1>5, <1>6, PackTiles
<1>8. Units = PlannedUnits
  BY <1>7 DEF Units
<1>9. QED
  BY <1>1, <1>4, <1>5, <1>7, <1>8

\* The units that carry a picked leaf are those it was cut into.
LEMMA UnitsOfPicked ==
  ASSUME PlannedInv, NEW leaf \in {picked[i] : i \in DOMAIN picked}
  PROVE  /\ CutOf(leaf, UnitsOf(leaf))
         /\ \A i \in UnitsFor(leaf) : \E k \in DOMAIN UnitsOf(leaf) : Units[i] = UnitsOf(leaf)[k]
         /\ \A k \in DOMAIN UnitsOf(leaf) : \E i \in UnitsFor(leaf) : Units[i] = UnitsOf(leaf)[k]
<1>1. PICK p \in DOMAIN picked : leaf = picked[p]
  OBVIOUS
<1>2. \A i \in DOMAIN picked : CutOf(picked[i], UnitsOf(picked[i]))
  BY UnitsAreCuts
<1>3. ToSet(Units) = UNION {ToSet(UnitsOf(picked[i])) : i \in DOMAIN picked}
  BY UnitsAreCuts
<1>4. ASSUME NEW i \in UnitsFor(leaf)
      PROVE  \E k \in DOMAIN UnitsOf(leaf) : Units[i] = UnitsOf(leaf)[k]
  <2>1. i \in DOMAIN Units /\ Units[i].leaf_id = leaf /\ Units[i] \in ToSet(Units)
    BY DEF UnitsFor, ToSet
  <2>2. PICK j \in DOMAIN picked : Units[i] \in ToSet(UnitsOf(picked[j]))
    BY <1>3, <2>1
  <2>3. PICK k \in DOMAIN UnitsOf(picked[j]) : Units[i] = UnitsOf(picked[j])[k]
    BY <2>2 DEF ToSet
  <2>4. UnitsOf(picked[j])[k].leaf_id = picked[j]
    BY <1>2 DEF CutOf
  <2>5. picked[j] = leaf
    BY <2>1, <2>3, <2>4
  <2>6. QED
    BY <2>3, <2>5
<1>5. ASSUME NEW k \in DOMAIN UnitsOf(leaf)
      PROVE  \E i \in UnitsFor(leaf) : Units[i] = UnitsOf(leaf)[k]
  <2>1. UnitsOf(leaf)[k] \in ToSet(UnitsOf(picked[p]))
    BY <1>1 DEF ToSet
  <2>2. UnitsOf(leaf)[k] \in ToSet(Units)
    BY <1>3, <2>1
  <2>3. PICK i \in DOMAIN Units : Units[i] = UnitsOf(leaf)[k]
    BY <2>2 DEF ToSet
  <2>4. UnitsOf(leaf)[k].leaf_id = leaf
    BY <1>1, <1>2 DEF CutOf
  <2>5. QED
    BY <2>3, <2>4 DEF UnitsFor
<1>6. QED
  BY <1>1, <1>2, <1>4, <1>5

LEMMA PlannedPartition ==
  ASSUME PlannedInv
  PROVE  SlicesPartition
<1> SUFFICES ASSUME NEW leaf \in {picked[i] : i \in DOMAIN picked}
             PROVE  /\ {Units[i].sub_index : i \in UnitsFor(leaf)}
                         = 1..Cardinality({Units[i].files : i \in UnitsFor(leaf)})
                    /\ UNION {Units[i].files : i \in UnitsFor(leaf)} = scope[leaf]
                    /\ \A i, j \in UnitsFor(leaf) :
                         IF Units[i].sub_index = Units[j].sub_index
                         THEN Units[i].files = Units[j].files
                         ELSE Units[i].files \cap Units[j].files = {}
                    /\ scope[leaf] # {} => \A i \in UnitsFor(leaf) : Units[i].files # {}
  BY DEF SlicesPartition
<1> DEFINE us == UnitsOf(leaf)
           I == UnitsFor(leaf)
           n == Len(us)
           fileSets == {Units[i].files : i \in I}
<1>1. /\ CutOf(leaf, us)
      /\ \A i \in I : \E k \in DOMAIN us : Units[i] = us[k]
      /\ \A k \in DOMAIN us : \E i \in I : Units[i] = us[k]
  BY UnitsOfPicked
<1> HIDE DEF us, I
<1>2. /\ n \in Nat \ {0} /\ DOMAIN us = 1..n
      /\ \A k \in 1..n : us[k].sub_index = k
      /\ UNION {us[k].files : k \in 1..n} = scope[leaf]
      /\ \A j, k \in 1..n : j # k => us[j].files \cap us[k].files = {}
      /\ scope[leaf] # {} => \A k \in 1..n : us[k].files # {}
      /\ scope[leaf] = {} => n = 1
  <2>1. us \in Seq(Unit) /\ Len(us) > 0
    BY <1>1 DEF CutOf
  <2>2. n \in Nat \ {0} /\ DOMAIN us = 1..n
    BY <2>1
  <2>3. QED
    BY <1>1, <2>2 DEF CutOf
<1> HIDE DEF n
<1>3. fileSets = {us[k].files : k \in 1..n}
  BY <1>1, <1>2
<1>4. Cardinality(fileSets) = n
  <2> DEFINE at == [k \in 1..n |-> us[k].files]
             sets == {us[k].files : k \in 1..n}
  <2>1. at \in Surjection(1..n, sets)
    BY DEF Surjection
  <2>2. \A j, k \in 1..n : at[j] = at[k] => j = k
    <3> SUFFICES ASSUME NEW j \in 1..n, NEW k \in 1..n, us[j].files = us[k].files, j # k PROVE FALSE
      OBVIOUS
    <3>1. scope[leaf] # {}
      BY <1>2
    <3>2. us[j].files # {} /\ us[j].files \cap us[k].files = {}
      BY <1>2, <3>1
    <3>3. QED
      BY <3>2
  <2>3. at \in [1..n -> sets]
    OBVIOUS
  <2> HIDE DEF at, sets
  <2>4. at \in Injection(1..n, sets)
    BY <2>2, <2>3 DEF Injection, IsInjective
  <2>5. IsFiniteSet(1..n) /\ Cardinality(1..n) = n
    BY <1>2, FS_Interval
  <2>6. IsFiniteSet(sets) /\ Cardinality(1..n) = Cardinality(sets)
    BY <2>1, <2>4, <2>5, FS_Surjection, FS_Injection
  <2>7. QED
    BY <1>3, <2>5, <2>6 DEF sets
<1>5. {Units[i].sub_index : i \in I} = 1..n
  <2>1. \A i \in I : Units[i].sub_index \in 1..n
    BY <1>1, <1>2
  <2>2. \A k \in 1..n : \E i \in I : Units[i].sub_index = k
    BY <1>1, <1>2
  <2>3. QED
    BY <2>1, <2>2
<1>6. UNION fileSets = scope[leaf]
  BY <1>2, <1>3
<1>7. \A i, j \in I :
        IF Units[i].sub_index = Units[j].sub_index
        THEN Units[i].files = Units[j].files
        ELSE Units[i].files \cap Units[j].files = {}
  <2> TAKE i, j \in I
  <2>1. PICK k \in 1..n : Units[i] = us[k]
    BY <1>1, <1>2
  <2>2. PICK l \in 1..n : Units[j] = us[l]
    BY <1>1, <1>2
  <2>3. QED
    BY <1>2, <2>1, <2>2
<1>8. scope[leaf] # {} => \A i \in I : Units[i].files # {}
  BY <1>1, <1>2
<1>9. QED
  BY <1>4, <1>5, <1>6, <1>7, <1>8 DEF I

LEMMA PlannedSound ==
  ASSUME PlannedInv
  PROVE  PlanSound
<1>1. SlicesPartition
  BY PlannedPartition
<1>2. OvershootsLessThanAFile
  <2> SUFFICES ASSUME NEW i \in DOMAIN Units
               PROVE  Cardinality(Units[i].files) * TokensPerFile < limit + TokensPerFile
    BY DEF OvershootsLessThanAFile
  <2>1. Units[i] \in ToSet(Units)
    BY DEF ToSet
  <2>2. PICK j \in DOMAIN picked : Units[i] \in ToSet(UnitsOf(picked[j]))
    BY <2>1, UnitsAreCuts
  <2>3. PICK k \in DOMAIN UnitsOf(picked[j]) : Units[i] = UnitsOf(picked[j])[k]
    BY <2>2 DEF ToSet
  <2>4. CutOf(picked[j], UnitsOf(picked[j]))
    BY UnitsAreCuts
  <2>5. QED
    BY <2>3, <2>4 DEF CutOf
<1>3. PackedTight
  <2>1. PlannedUnits \in Seq(Unit) /\ Units = PlannedUnits
    BY UnitsAreCuts
  <2>2. size \in BatchSizes /\ batches = Pack(PlannedUnits)
    BY DEF PlannedInv
  <2>3. \A b \in DOMAIN batches :
          Len(batches[b]) = size \/ (b = Len(batches) /\ Len(batches[b]) \in 1..size)
    BY <2>1, <2>2, PackTiles
  <2>4. QED
    BY <2>1, <2>3 DEF PackedTight, PlannedUnits
<1>4. QED
  BY <1>1, <1>2, <1>3 DEF PlanSound

-----------------------------------------------------------------------------
(* Sums.                                                                   *)

\* A sum is a natural number, and changes with one of its summands by as much.
LEMMA SumChanges ==
  ASSUME NEW D, IsFiniteSet(D), NEW f \in [D -> Nat], NEW g \in [D -> Nat], NEW t \in D,
         \A w \in D \ {t} : g[w] = f[w]
  PROVE  /\ SumOver(f) \in Nat /\ SumOver(g) \in Nat
         /\ SumOver(g) + f[t] = SumOver(f) + g[t]
<1> DEFINE Row(n, w) == {w} \X (1..n[w])
           Rest == UNION {Row(f, w) : w \in D \ {t}}
<1>1. \A n \in [D -> Nat] : \A w \in D :
        IsFiniteSet(Row(n, w)) /\ Cardinality(Row(n, w)) = n[w]
  <2> SUFFICES ASSUME NEW n \in [D -> Nat], NEW w \in D
               PROVE  IsFiniteSet(Row(n, w)) /\ Cardinality(Row(n, w)) = n[w]
    OBVIOUS
  <2>1. n[w] \in Nat /\ 1 \in Int /\ n[w] \in Int
    OBVIOUS
  <2>2. IsFiniteSet(1..n[w]) /\ Cardinality(1..n[w]) = n[w]
    BY <2>1, FS_Interval
  <2>3. IsFiniteSet({w}) /\ Cardinality({w}) = 1
    BY FS_Singleton
  <2>4. IsFiniteSet(Row(n, w)) /\ Cardinality(Row(n, w)) = Cardinality({w}) * Cardinality(1..n[w])
    BY <2>2, <2>3, FS_Product
  <2>5. QED
    BY <2>1, <2>2, <2>3, <2>4
<1>2. IsFiniteSet(Rest)
  <2> DEFINE row == [w \in D \ {t} |-> Row(f, w)]
             rows == {Row(f, w) : w \in D \ {t}}
  <2>1. row \in Surjection(D \ {t}, rows)
    BY DEF Surjection
  <2>2. IsFiniteSet(D \ {t})
    BY FS_Subset
  <2>3. IsFiniteSet(rows)
    BY <2>1, <2>2, FS_Surjection
  <2>4. \A T \in rows : IsFiniteSet(T)
    BY <1>1
  <2>5. QED
    BY <2>3, <2>4, FS_UNION
<1>3. \A n \in {f, g} : SumOver(n) = Cardinality(Rest) + n[t]
  <2> SUFFICES ASSUME NEW n \in {f, g}
               PROVE  SumOver(n) = Cardinality(Rest) + n[t]
    OBVIOUS
  <2>1. n \in [D -> Nat] /\ \A w \in D \ {t} : n[w] = f[w]
    OBVIOUS
  <2>2. (UNION {Row(n, w) : w \in D}) = Rest \cup Row(n, t)
    BY <2>1
  <2>3. Rest \cap Row(n, t) = {}
    OBVIOUS
  <2>4. Cardinality(Rest \cup Row(n, t)) = Cardinality(Rest) + Cardinality(Row(n, t)) - Cardinality({})
    BY <1>1, <1>2, <2>1, <2>3, FS_Union
  <2>5. /\ Cardinality(Rest) \in Nat /\ Cardinality({}) = 0
        /\ Cardinality(Row(n, t)) = n[t] /\ n[t] \in Nat
    BY <1>1, <1>2, <2>1, FS_CardinalityType, FS_EmptySet
  <2>6. SumOver(n) = Cardinality(Rest \cup Row(n, t))
    <3>1. DOMAIN n = D
      BY <2>1
    <3>2. QED
      BY <2>2, <3>1 DEF SumOver
  <2> HIDE DEF Rest
  <2>7. QED
    BY <2>4, <2>5, <2>6
<1>4. Cardinality(Rest) \in Nat
  BY <1>2, FS_CardinalityType
<1>5. QED
  <2> HIDE DEF Rest
  <2>1. QED
    BY <1>3, <1>4

\* A sum of zeros is zero.
LEMMA SumOfZeros ==
  ASSUME NEW D, NEW f \in [D -> {0}]
  PROVE  SumOver(f) = 0
<1>1. (UNION {{t} \X (1..f[t]) : t \in DOMAIN f}) = {}
  OBVIOUS
<1>2. QED
  BY <1>1, FS_EmptySet DEF SumOver

LEMMA SumType ==
  ASSUME NEW D, IsFiniteSet(D), NEW f \in [D -> Nat]
  PROVE  SumOver(f) \in Nat
<1>1. CASE D = {}
  <2>1. f \in [D -> {0}]
    BY <1>1
  <2>2. QED
    BY <2>1, SumOfZeros
<1>2. CASE D # {}
  <2>1. PICK t \in D : TRUE
    BY <1>2
  <2>2. QED
    BY <2>1, SumChanges
<1>3. QED
  BY <1>1, <1>2

-----------------------------------------------------------------------------
(* The outputs of the units.                                               *)

LEMMA OutputShape ==
  ASSUME NEW out \in Outputs
  PROVE  /\ out.base \in Nat /\ out.findings \in [Ranks -> Nat]
         /\ out.findings \in [Ranks -> 0..MaxPerRank]
         /\ NumFindings(out) \in Nat /\ SizeOf(out) \in Nat
<1>1. /\ out.base \in Nat /\ out.findings \in [Ranks -> Nat]
      /\ out.findings \in [Ranks -> 0..MaxPerRank]
  <2>1. out.base \in Bases /\ out.findings \in [Ranks -> 0..MaxPerRank]
    BY DEF Outputs
  <2>2. Bases \subseteq Nat /\ MaxPerRank \in Nat
    BY MergeAssumption
  <2>3. out.findings \in [Ranks -> Nat]
    BY <2>1, <2>2
  <2>4. QED
    BY <2>1, <2>2, <2>3
<1>2. NumFindings(out) \in Nat
  BY <1>1, MergeAssumption, SumType DEF NumFindings
<1>3. QED
  BY <1>1, <1>2 DEF SizeOf

\* An output that has findings has a least severe one.
LEMMA LowestRankIsLeast ==
  ASSUME NEW out \in Outputs, NumFindings(out) > 0
  PROVE  LET r == LowestRank(out.findings)
         IN  /\ r \in Ranks /\ out.findings[r] > 0
             /\ \A q \in Ranks : out.findings[q] > 0 => r <= q
<1> DEFINE some == {r \in Ranks : out.findings[r] > 0}
<1>1. out.findings \in [Ranks -> Nat] /\ Ranks \subseteq Nat
  BY OutputShape, MergeAssumption
<1>2. some # {}
  <2> SUFFICES ASSUME some = {} PROVE FALSE
    OBVIOUS
  <2>1. out.findings \in [Ranks -> {0}]
    <3>1. \A r \in Ranks : out.findings[r] = 0
      BY <1>1
    <3>2. QED
      BY <1>1, <3>1
  <2>2. NumFindings(out) = 0
    BY <2>1, SumOfZeros DEF NumFindings
  <2>3. QED
    BY <2>2
<1>3. \E r \in some : \A q \in some : r <= q
  <2>1. some \in SUBSET Nat
    BY <1>1
  <2> HIDE DEF some
  <2>2. QED
    BY <1>2, <2>1, LeastNumber
<1>4. \E r \in Ranks : out.findings[r] > 0 /\ \A q \in Ranks : out.findings[q] > 0 => r <= q
  BY <1>3
<1>5. QED
  BY <1>4 DEF LowestRank

\* What a pass does to the outputs.
Dropped(outs, target, r) == [outs EXCEPT ![target].findings[r] = @ - 1]

LEMMA DroppingOne ==
  ASSUME NEW D, IsFiniteSet(D), NEW outs \in [D -> Outputs], NEW target \in D,
         NEW r \in Ranks, outs[target].findings[r] > 0
  PROVE  LET dropped == Dropped(outs, target, r)
         IN  /\ dropped \in [D -> Outputs]
             /\ \A key \in D \ {target} : dropped[key] = outs[key]
             /\ dropped[target].base = outs[target].base
             /\ \A q \in Ranks : dropped[target].findings[q]
                  = IF q = r THEN outs[target].findings[q] - 1 ELSE outs[target].findings[q]
             /\ Aggregate(outs) \in Nat /\ Aggregate(dropped) \in Nat
             /\ Aggregate(dropped) + 1 = Aggregate(outs)
<1> DEFINE dropped == Dropped(outs, target, r)
           old == outs[target]
           new == [old EXCEPT !.findings = [old.findings EXCEPT ![r] = @ - 1]]
<1>1. old \in Outputs /\ old.findings \in [Ranks -> 0..MaxPerRank] /\ MaxPerRank \in Nat
  BY MergeAssumption, OutputShape
<1>2. dropped = [outs EXCEPT ![target] = new]
  BY DEF Dropped
<1>3. /\ new.base = old.base
      /\ new.findings = [old.findings EXCEPT ![r] = old.findings[r] - 1]
      /\ \A q \in Ranks : new.findings[q] = IF q = r THEN old.findings[q] - 1 ELSE old.findings[q]
  BY <1>1 DEF Outputs
<1>4. new \in Outputs
  <2>1. new.findings \in [Ranks -> 0..MaxPerRank]
    BY <1>1, <1>3
  <2>2. old.base \in Bases
    BY <1>1 DEF Outputs
  <2>3. new = [base |-> old.base, findings |-> new.findings]
    BY <1>1 DEF Outputs
  <2> HIDE DEF new
  <2>4. QED
    BY <2>1, <2>2, <2>3 DEF Outputs
<1>5. old.findings[r] > 0
  OBVIOUS
<1> HIDE DEF new, old
<1>6. NumFindings(new) \in Nat /\ NumFindings(old) \in Nat /\ NumFindings(new) + 1 = NumFindings(old)
  <2>1. new.findings \in [Ranks -> Nat] /\ old.findings \in [Ranks -> Nat]
    BY <1>1, <1>4, OutputShape
  <2>2. \A w \in Ranks \ {r} : new.findings[w] = old.findings[w]
    BY <1>3
  <2>3. /\ SumOver(old.findings) \in Nat /\ SumOver(new.findings) \in Nat
        /\ SumOver(new.findings) + old.findings[r] = SumOver(old.findings) + new.findings[r]
    <3> DEFINE f == old.findings
               g == new.findings
    <3>1. IsFiniteSet(Ranks) /\ f \in [Ranks -> Nat] /\ g \in [Ranks -> Nat]
          /\ \A w \in Ranks \ {r} : g[w] = f[w]
      BY <2>1, <2>2, MergeAssumption
    <3> HIDE DEF f, g
    <3>2. SumOver(f) \in Nat /\ SumOver(g) \in Nat /\ SumOver(g) + f[r] = SumOver(f) + g[r]
      BY <3>1, SumChanges
    <3>3. QED
      BY <3>2 DEF f, g
  <2>4. new.findings[r] = old.findings[r] - 1 /\ old.findings[r] \in Nat
    BY <1>3, <2>1
  <2>5. QED
    BY <1>5, <2>3, <2>4 DEF NumFindings
<1>7. SizeOf(new) \in Nat /\ SizeOf(old) \in Nat /\ SizeOf(new) + 1 = SizeOf(old)
  <2>1. old.base \in Nat
    BY <1>1, OutputShape
  <2>2. QED
    BY <1>3, <1>6, <2>1 DEF SizeOf
<1>8. /\ dropped \in [D -> Outputs] /\ dropped[target] = new
      /\ \A key \in D \ {target} : dropped[key] = outs[key]
  BY <1>2, <1>4
<1> HIDE DEF dropped
<1>9. Aggregate(outs) \in Nat /\ Aggregate(dropped) \in Nat /\ Aggregate(dropped) + 1 = Aggregate(outs)
  <2> DEFINE f == [key \in D |-> SizeOf(outs[key])]
             g == [key \in D |-> SizeOf(dropped[key])]
  <2>1. f \in [D -> Nat] /\ g \in [D -> Nat]
    BY <1>8, OutputShape
  <2>2. \A w \in D \ {target} : g[w] = f[w]
    BY <1>8
  <2>3. f[target] = SizeOf(old) /\ g[target] = SizeOf(new)
    BY <1>8 DEF old
  <2>4. Aggregate(outs) = SumOver(f) /\ Aggregate(dropped) = SumOver(g)
    <3>1. DOMAIN outs = D /\ DOMAIN dropped = D
      BY <1>8
    <3>2. QED
      BY <3>1 DEF Aggregate
  <2> HIDE DEF f, g
  <2>5. SumOver(f) \in Nat /\ SumOver(g) \in Nat /\ SumOver(g) + f[target] = SumOver(f) + g[target]
    BY <2>1, <2>2, SumChanges
  <2>6. QED
    BY <1>7, <2>3, <2>4, <2>5
<1>10. QED
  BY <1>3, <1>8, <1>9 DEF dropped, old

-----------------------------------------------------------------------------
(* The loop and the merge.                                                 *)

\* What an iteration may commit: outputs for units of the plan.
Commits == UNION {[keys -> Outputs] : keys \in SUBSET planned_units}

LoopInv ==
  /\ phase = "plan" => loop_iters = <<>>
  /\ loop_iters \in Seq(Commits)

\* What is left of an output after trimming.
TrimmedFrom(kept, out) ==
  /\ kept.base = out.base
  /\ \A r \in Ranks :
       /\ kept.findings[r] <= out.findings[r]
       /\ kept.findings[r] < out.findings[r] =>
            /\ \A q \in Ranks : q < r => kept.findings[q] = 0
            /\ Aggregate(outputs) + 1 > Budget

\* While the merge is at work every unit of the plan has its last committed
\* output, trimmed, and the shards that are not to be written are written.
MergeInv ==
  IF phase \in {"trim", "persist", "merged"}
  THEN /\ Committed = planned_units
       /\ outputs \in [planned_units -> Outputs] /\ passes_left \in Nat
       /\ pending \subseteq planned_units
       /\ phase = "trim" => pending = planned_units
       /\ phase = "merged" => pending = {}
       /\ \A key \in planned_units : TrimmedFrom(outputs[key], loop_iters[IterOf(key)][key])
       /\ \A key \in planned_units \ pending :
            ShardName(key) \in DOMAIN shards /\ shards[ShardName(key)] = outputs[key]
  ELSE outputs = <<>> /\ passes_left = 0 /\ pending = {}

ShardInv == shards \in [DOMAIN shards -> Outputs \cup {Torn}]

PlanInv == PlannedInv /\ LoopInv /\ MergeInv /\ ShardInv

LEMMA CommitShape ==
  ASSUME NEW payload \in Commits
  PROVE  /\ DOMAIN payload \subseteq planned_units /\ payload \in [DOMAIN payload -> Outputs]
         /\ \A key \in DOMAIN payload : payload[key] \in Outputs
BY DEF Commits

\* The outputs that win are the last ones that were committed.
LEMMA LastCommitted ==
  ASSUME LoopInv, NEW key \in Committed
  PROVE  /\ IterOf(key) \in DOMAIN loop_iters /\ key \in DOMAIN loop_iters[IterOf(key)]
         /\ \A j \in DOMAIN loop_iters : key \in DOMAIN loop_iters[j] => j <= IterOf(key)
         /\ loop_iters[IterOf(key)][key] \in Outputs
<1> DEFINE n == Len(loop_iters)
           some == {i \in 1..n : key \in DOMAIN loop_iters[i]}
           mirrored == {n - i : i \in some}
<1>1. n \in Nat /\ DOMAIN loop_iters = 1..n /\ \A i \in 1..n : loop_iters[i] \in Commits
  BY DEF LoopInv
<1>2. some # {}
  BY <1>1 DEF Committed
<1>3. \E i \in some : \A j \in some : j <= i
  <2>1. mirrored \in SUBSET Nat /\ mirrored # {}
    BY <1>1, <1>2
  <2>2. PICK m \in mirrored : \A k \in mirrored : m <= k
    <3> HIDE DEF mirrored
    <3>1. QED
      BY <2>1, LeastNumber
  <2>3. PICK i \in some : m = n - i
    OBVIOUS
  <2>4. \A j \in some : n - i <= n - j
    BY <2>2, <2>3
  <2>5. \A j \in some : j <= i
    BY <1>1, <2>4
  <2>6. QED
    BY <2>5
<1>4. \E i \in DOMAIN loop_iters :
        /\ key \in DOMAIN loop_iters[i]
        /\ \A j \in DOMAIN loop_iters : key \in DOMAIN loop_iters[j] => j <= i
  BY <1>1, <1>3
<1> HIDE DEF n, some, mirrored
<1>5. /\ IterOf(key) \in DOMAIN loop_iters /\ key \in DOMAIN loop_iters[IterOf(key)]
      /\ \A j \in DOMAIN loop_iters : key \in DOMAIN loop_iters[j] => j <= IterOf(key)
  BY <1>4 DEF IterOf
<1>6. loop_iters[IterOf(key)][key] \in Outputs
  BY <1>1, <1>5, CommitShape
<1>7. QED
  BY <1>5, <1>6

\* Only units of the plan are ever committed, and the plan is finite.
LEMMA CommittedPlanned ==
  ASSUME PlannedInv, LoopInv
  PROVE  Committed \subseteq planned_units /\ IsFiniteSet(planned_units)
<1>1. \A i \in DOMAIN loop_iters : loop_iters[i] \in Commits
  BY DEF LoopInv
<1>2. Committed \subseteq planned_units
  BY <1>1, CommitShape DEF Committed
<1>3. IsFiniteSet(planned_units)
  <2> DEFINE keyAt == [i \in DOMAIN Units |-> KeyOf(Units[i])]
  <2>1. Units \in Seq(Unit)
    BY UnitsAreCuts
  <2>2. IsFiniteSet(DOMAIN Units)
    <3>1. DOMAIN Units = 1..Len(Units) /\ Len(Units) \in Nat
      BY <2>1
    <3>2. QED
      BY <3>1, FS_Interval
  <2>3. keyAt \in Surjection(DOMAIN Units, planned_units)
    BY DEF Surjection, planned_units, KeysIn
  <2>4. QED
    BY <2>2, <2>3, FS_Surjection
<1>4. QED
  BY <1>2, <1>3

-----------------------------------------------------------------------------
(* The steps.                                                              *)

LEMMA InitEstablishes == Init => PlanInv
<1> SUFFICES ASSUME Init PROVE PlanInv
  OBVIOUS
<1>1. PlannedUnits = <<>>
  <2>1. [i \in DOMAIN picked |-> UnitsOf(picked[i])] = <<>>
    BY DEF Init
  <2>2. QED
    BY <2>1 DEF PlannedUnits, FlattenSeq
<1>2. Pack(<<>>) = <<>>
  <2>1. size \in BatchSizes /\ <<>> \in Seq(Unit) /\ Len(<<>>) = 0
    BY DEF Init
  <2>2. size \in Nat \ {0}
    BY <2>1, PlanAssumption
  <2>3. CeilDiv(0, size) = 0
    BY <2>2, CeilDivCovers
  <2>4. QED
    BY <2>1, <2>3 DEF Pack
<1>3. PlannedFiles(<<>>) = 0
  <2>1. (UNION {<<>>[i].files : i \in DOMAIN <<>>}) = {}
    OBVIOUS
  <2>2. QED
    BY <2>1, FS_EmptySet DEF PlannedFiles
<1>4. PlannedInv
  BY <1>1, <1>2, <1>3 DEF Init, PlannedInv
<1>5. LoopInv
  BY DEF Init, LoopInv
<1>6. MergeInv
  BY DEF Init, MergeInv
<1>7. ShardInv
  BY LeftoversAssumption DEF Init, ShardInv
<1>8. QED
  BY <1>4, <1>5, <1>6, <1>7 DEF PlanInv

\* The plan stays what it is.
LEMMA SamePlan ==
  ASSUME UNCHANGED planVars
  PROVE  /\ Units' = Units /\ planned_units' = planned_units /\ Commits' = Commits
         /\ PlannedUnits' = PlannedUnits
         /\ PlannedInv /\ phase' \in {"plan", "loop", "merge", "trim", "persist", "crashed", "merged",
                                      "exited_early"} => PlannedInv'
<1>1. Units' = Units /\ planned_units' = planned_units
  BY DEF planVars, Units, planned_units, KeysIn
<1>2. Commits' = Commits
  BY <1>1 DEF Commits
<1>3. \A leaf : UnitsOf(leaf)' = UnitsOf(leaf)
  BY DEF planVars, UnitsOf, Sliced, Whole, SliceOf, ChunkSize, SubCount
<1>4. PlannedUnits' = PlannedUnits
  BY <1>3 DEF planVars, PlannedUnits
<1>5. Pack(PlannedUnits)' = Pack(PlannedUnits) /\ PlannedFiles(PlannedUnits)' = PlannedFiles(PlannedUnits)
  BY <1>4 DEF planVars, Pack, PlannedFiles
<1>6. QED
  BY <1>1, <1>2, <1>4, <1>5 DEF planVars, PlannedInv

\* So do the winners while nothing is committed.
LEMMA SameCommits ==
  ASSUME UNCHANGED <<planVars, loop_iters>>
  PROVE  /\ Committed' = Committed
         /\ \A key : IterOf(key)' = IterOf(key) /\ ShardName(key)' = ShardName(key)
         /\ LoopInv /\ (phase' = "plan" => phase = "plan") => LoopInv'
<1>1. Committed' = Committed
  BY DEF Committed
<1>2. \A key : IterOf(key)' = IterOf(key) /\ ShardName(key)' = ShardName(key)
  BY DEF IterOf, ShardName
<1>3. Commits' = Commits
  BY SamePlan
<1>4. QED
  BY <1>1, <1>2, <1>3 DEF LoopInv

LEMMA PlanKeeps ==
  ASSUME PlanInv, NEW k \in 0..MaxPicked, NEW leaves \in [1..k -> Leaves], Plan(leaves)
  PROVE  PlanInv'
<1> DEFINE units == FlattenSeq([i \in DOMAIN leaves |-> UnitsOf(leaves[i])])
<1>1. /\ phase = "plan" /\ picked' = leaves /\ batches' = Pack(units)
      /\ total_files_planned' = PlannedFiles(units) /\ phase' \in {"merge", "loop"}
      /\ UNCHANGED <<scope, limit, size, loop_iters, outputs, passes_left, pending, shards>>
  BY DEF Plan, mergeVars
<1>2. leaves \in Seq(Leaves)
  <2>1. k \in Nat
    BY MergeAssumption
  <2>2. QED
    BY <2>1
<1>3. \A leaf : UnitsOf(leaf)' = UnitsOf(leaf)
  BY <1>1 DEF UnitsOf, Sliced, Whole, SliceOf, ChunkSize, SubCount
<1>4. PlannedUnits' = units
  BY <1>1, <1>3 DEF PlannedUnits
<1> HIDE DEF units
<1>5. Pack(PlannedUnits)' = Pack(units) /\ PlannedFiles(PlannedUnits)' = PlannedFiles(units)
  BY <1>1, <1>4 DEF Pack, PlannedFiles
<1>6. PlannedInv'
  BY <1>1, <1>2, <1>5 DEF PlanInv, PlannedInv
<1>7. LoopInv'
  <2>1. loop_iters' = <<>>
    BY <1>1 DEF PlanInv, LoopInv
  <2>2. QED
    BY <1>1, <2>1 DEF LoopInv
<1>8. MergeInv' /\ ShardInv'
  BY <1>1 DEF PlanInv, MergeInv, ShardInv
<1>9. QED
  BY <1>6, <1>7, <1>8 DEF PlanInv

LEMMA IterateKeeps ==
  ASSUME PlanInv, NEW b \in DOMAIN batches, NEW loop_done \in BOOLEAN,
         NEW keys \in SUBSET KeysIn(batches[b]), NEW payload \in [keys -> Outputs],
         Iterate(b, keys, payload, loop_done)
  PROVE  PlanInv'
<1>1. /\ phase = "loop" /\ phase' \in {"merge", "loop"} /\ loop_iters' = Append(loop_iters, payload)
      /\ UNCHANGED planVars /\ UNCHANGED <<outputs, passes_left, pending, shards>>
  BY DEF Iterate, mergeVars
<1>2. KeysIn(batches[b]) \subseteq planned_units
  <2>1. size \in BatchSizes /\ batches \in Seq(Seq(Unit)) /\ Units = FlattenSeq(batches)
    BY UnitsAreCuts DEF PlanInv, PlannedInv, Units
  <2>2. ToSet(Units) = UNION {ToSet(batches[i]) : i \in DOMAIN batches}
    BY <2>1, FlattenElements
  <2>3. ToSet(batches[b]) \subseteq ToSet(Units)
    BY <2>2
  <2>4. ASSUME NEW i \in DOMAIN batches[b]
        PROVE  KeyOf(batches[b][i]) \in planned_units
    <3>1. batches[b][i] \in ToSet(Units)
      BY <2>3 DEF ToSet
    <3>2. QED
      BY <3>1 DEF ToSet, planned_units, KeysIn
  <2>5. QED
    BY <2>4 DEF KeysIn
<1>3. payload \in Commits
  <2>1. keys \in SUBSET planned_units
    BY <1>2
  <2>2. QED
    BY <2>1 DEF Commits
<1>4. PlannedInv' /\ Commits' = Commits
  BY <1>1, SamePlan DEF PlanInv
<1>5. LoopInv'
  <2>1. loop_iters \in Seq(Commits)
    BY DEF PlanInv, LoopInv
  <2>2. loop_iters' \in Seq(Commits)
    BY <1>1, <1>3, <2>1, AppendProperties
  <2>3. QED
    BY <1>1, <1>4, <2>2 DEF LoopInv
<1>6. MergeInv' /\ ShardInv'
  BY <1>1 DEF PlanInv, MergeInv, ShardInv
<1>7. QED
  BY <1>4, <1>5, <1>6 DEF PlanInv

LEMMA FoldKeeps ==
  ASSUME PlanInv, Fold
  PROVE  PlanInv'
<1>1. /\ phase = "merge" /\ planned_units \subseteq Committed /\ phase' \in {"trim", "persist"}
      /\ outputs' = [key \in Committed |-> loop_iters[IterOf(key)][key]]
      /\ passes_left' = SumOver([key \in Committed |-> NumFindings(outputs'[key])])
      /\ pending' = Committed
      /\ UNCHANGED planVars /\ UNCHANGED <<loop_iters, shards>>
  BY DEF Fold
<1>2. Committed = planned_units /\ IsFiniteSet(planned_units)
  BY <1>1, CommittedPlanned DEF PlanInv
<1>3. \A key \in planned_units : outputs'[key] = loop_iters[IterOf(key)][key]
  BY <1>1, <1>2
<1>4. outputs' \in [planned_units -> Outputs]
  <2>1. \A key \in planned_units : loop_iters[IterOf(key)][key] \in Outputs
    BY <1>2, LastCommitted DEF PlanInv
  <2>2. QED
    BY <1>1, <1>2, <2>1
<1>5. passes_left' \in Nat
  <2> DEFINE f == [key \in planned_units |-> NumFindings(outputs'[key])]
  <2>1. f \in [planned_units -> Nat]
    BY <1>4, OutputShape
  <2>2. passes_left' = SumOver(f)
    BY <1>1, <1>2
  <2> HIDE DEF f
  <2>3. QED
    BY <1>2, <2>1, <2>2, SumType
<1>6. PlannedInv' /\ planned_units' = planned_units
  BY <1>1, SamePlan DEF PlanInv
<1>7. LoopInv' /\ Committed' = Committed /\ \A key : IterOf(key)' = IterOf(key)
  BY <1>1, SameCommits DEF PlanInv
<1>8. ASSUME NEW key \in planned_units
      PROVE  TrimmedFrom(outputs[key], loop_iters[IterOf(key)][key])'
  <2>1. outputs'[key] \in Outputs
    BY <1>4
  <2>2. outputs'[key].findings \in [Ranks -> Nat]
    BY <2>1, OutputShape
  <2>3. outputs'[key] = (loop_iters[IterOf(key)][key])'
    BY <1>1, <1>3, <1>7
  <2>4. \A r \in Ranks : outputs'[key].findings[r] <= outputs'[key].findings[r]
                         /\ ~(outputs'[key].findings[r] < outputs'[key].findings[r])
    BY <2>2
  <2>5. QED
    BY <2>3, <2>4 DEF TrimmedFrom
<1>9. MergeInv'
  BY <1>1, <1>2, <1>4, <1>5, <1>6, <1>7, <1>8 DEF MergeInv
<1>10. ShardInv'
  BY <1>1 DEF PlanInv, ShardInv
<1>11. QED
  BY <1>6, <1>7, <1>9, <1>10 DEF PlanInv

LEMMA TrimPassKeeps ==
  ASSUME PlanInv, NEW target \in Largest, TrimPass(target)
  PROVE  PlanInv'
<1>1. /\ phase = "trim" /\ UNCHANGED planVars /\ UNCHANGED <<loop_iters, pending, shards>>
      /\ phase' \in {"trim", "persist"}
  BY DEF TrimPass
<1>2. /\ Committed = planned_units /\ outputs \in [planned_units -> Outputs] /\ passes_left \in Nat
      /\ pending = planned_units
      /\ \A key \in planned_units : TrimmedFrom(outputs[key], loop_iters[IterOf(key)][key])
  BY <1>1 DEF PlanInv, MergeInv
<1>3. PlannedInv' /\ planned_units' = planned_units
  BY <1>1, SamePlan DEF PlanInv
<1>4. LoopInv' /\ Committed' = Committed /\ \A key : IterOf(key)' = IterOf(key)
  BY <1>1, SameCommits DEF PlanInv
<1>5. \A key : (loop_iters[IterOf(key)][key])' = loop_iters[IterOf(key)][key]
  BY <1>1, <1>4
<1>6. CASE Aggregate(outputs) > Budget /\ passes_left > 0 /\ NumFindings(outputs[target]) > 0
  <2> DEFINE r == LowestRank(outputs[target].findings)
  <2>1. outputs' = Dropped(outputs, target, r) /\ passes_left' = passes_left - 1 /\ phase' = "trim"
    BY <1>1, <1>6 DEF TrimPass, Dropped
  <2>2. target \in planned_units /\ outputs[target] \in Outputs
    BY <1>2 DEF Largest
  <2>3. /\ r \in Ranks /\ outputs[target].findings[r] > 0
        /\ \A q \in Ranks : outputs[target].findings[q] > 0 => r <= q
    BY <1>6, <2>2, LowestRankIsLeast
  <2>4. IsFiniteSet(planned_units)
    BY CommittedPlanned DEF PlanInv
  <2> HIDE DEF r
  <2>5. /\ outputs' \in [planned_units -> Outputs]
        /\ \A key \in planned_units \ {target} : outputs'[key] = outputs[key]
        /\ outputs'[target].base = outputs[target].base
        /\ \A q \in Ranks : outputs'[target].findings[q]
             = IF q = r THEN outputs[target].findings[q] - 1 ELSE outputs[target].findings[q]
        /\ Aggregate(outputs) \in Nat /\ Aggregate(outputs') \in Nat
        /\ Aggregate(outputs') + 1 = Aggregate(outputs)
    BY <1>2, <2>1, <2>2, <2>3, <2>4, DroppingOne
  <2>6. Aggregate(outputs)' = Aggregate(outputs') /\ Aggregate(outputs') + 1 > Budget
    BY <1>6, <2>5 DEF Aggregate
  <2>7. ASSUME NEW key \in planned_units
        PROVE  TrimmedFrom(outputs[key], loop_iters[IterOf(key)][key])'
    <3> DEFINE out == loop_iters[IterOf(key)][key]
    <3>1. TrimmedFrom(outputs[key], out)
      BY <1>2
    <3>2. out \in Outputs /\ outputs[key] \in Outputs /\ outputs'[key] \in Outputs
      BY <1>2, <2>5, LastCommitted DEF PlanInv
    <3>3. out' = out
      BY <1>5
    <3> HIDE DEF out
    <3>4. /\ out.findings \in [Ranks -> Nat] /\ outputs[key].findings \in [Ranks -> Nat]
          /\ outputs'[key].findings \in [Ranks -> Nat] /\ Ranks \subseteq Nat
      BY <3>2, OutputShape, MergeAssumption
    <3>5. outputs'[key].base = out.base
      BY <2>5, <3>1 DEF TrimmedFrom
    <3>6. ASSUME NEW q \in Ranks
          PROVE  /\ outputs'[key].findings[q] <= out.findings[q]
                 /\ outputs'[key].findings[q] < out.findings[q] =>
                      \A p \in Ranks : p < q => outputs'[key].findings[p] = 0
      <4>1. /\ outputs[key].findings[q] <= out.findings[q]
            /\ outputs[key].findings[q] < out.findings[q] =>
                 \A p \in Ranks : p < q => outputs[key].findings[p] = 0
        BY <3>1 DEF TrimmedFrom
      <4>2. CASE key # target
        BY <2>5, <4>1, <4>2
      <4>3. CASE key = target /\ q = r
        <5>1. outputs'[key].findings[q] = outputs[key].findings[q] - 1
          BY <2>5, <4>3
        <5>2. \A p \in Ranks : p < q => outputs[key].findings[p] = 0
          <6> TAKE p \in Ranks
          <6>1. outputs[key].findings[p] > 0 => q <= p
            BY <2>3, <4>3
          <6>2. p \in Nat /\ q \in Nat /\ outputs[key].findings[p] \in Nat
            BY <3>4
          <6>3. QED
            BY <6>1, <6>2
        <5>3. \A p \in Ranks : p < q => p # r
          BY <3>4, <4>3
        <5>4. \A p \in Ranks : p < q => outputs'[key].findings[p] = 0
          BY <2>5, <4>3, <5>2, <5>3
        <5>5. outputs[key].findings[q] \in Nat /\ out.findings[q] \in Nat
          BY <3>4
        <5>6. QED
          BY <4>1, <5>1, <5>4, <5>5
      <4>4. CASE key = target /\ q # r
        <5>1. outputs'[key].findings[q] = outputs[key].findings[q]
          BY <2>5, <4>4
        <5>2. \A p \in Ranks : outputs[key].findings[p] = 0 => p # r
          BY <2>3, <4>4
        <5>3. \A p \in Ranks : outputs[key].findings[p] = 0 => outputs'[key].findings[p] = 0
          BY <2>5, <4>4, <5>2
        <5>4. QED
          BY <4>1, <5>1, <5>3
      <4>5. QED
        BY <4>2, <4>3, <4>4
    <3>7. TrimmedFrom(outputs[key], out)'
      <4>1. outputs'[key].base = out'.base
        BY <3>3, <3>5
      <4>2. \A q \in Ranks :
              /\ outputs'[key].findings[q] <= out'.findings[q]
              /\ outputs'[key].findings[q] < out'.findings[q] =>
                   \A p \in Ranks : p < q => outputs'[key].findings[p] = 0
        BY <3>3, <3>6
      <4>3. Aggregate(outputs)' + 1 > Budget
        BY <2>6
      <4>4. QED
        BY <4>1, <4>2, <4>3 DEF TrimmedFrom
    <3>8. QED
      BY <3>7 DEF out
  <2>8. passes_left' \in Nat
    BY <1>2, <1>6, <2>1
  <2>9. MergeInv'
    BY <1>1, <1>2, <1>3, <1>4, <2>1, <2>5, <2>7, <2>8 DEF MergeInv
  <2>10. QED
    BY <1>1, <1>3, <1>4, <2>9 DEF PlanInv, ShardInv
<1>7. CASE ~(Aggregate(outputs) > Budget /\ passes_left > 0 /\ NumFindings(outputs[target]) > 0)
  <2>1. UNCHANGED <<outputs, passes_left>>
    BY <1>7 DEF TrimPass
  <2>2. Aggregate(outputs)' = Aggregate(outputs)
    BY <2>1 DEF Aggregate
  <2>3. \A key \in planned_units : TrimmedFrom(outputs[key], loop_iters[IterOf(key)][key])'
    BY <1>2, <1>5, <2>1, <2>2 DEF TrimmedFrom
  <2>4. MergeInv'
    BY <1>1, <1>2, <1>3, <1>4, <2>1, <2>3 DEF MergeInv
  <2>5. QED
    BY <1>1, <1>3, <1>4, <2>4 DEF PlanInv, ShardInv
<1>8. QED
  BY <1>6, <1>7

\* Writing a shard, whole or torn, leaves those of the other units alone.
LEMMA PutShardPuts ==
  ASSUME PlanInv, NEW key \in planned_units, NEW contents \in Outputs \cup {Torn},
         PutShard(key, contents)
  PROVE  /\ ShardInv'
         /\ ShardName(key) \in DOMAIN shards' /\ shards'[ShardName(key)] = contents
         /\ \A other \in planned_units \ {key} : ShardName(other) \in DOMAIN shards =>
              ShardName(other) \in DOMAIN shards' /\ shards'[ShardName(other)] = shards[ShardName(other)]
<1>1. shards' = [name \in DOMAIN shards \cup {ShardName(key)} |->
                   IF name = ShardName(key) THEN contents ELSE shards[name]]
  BY DEF PutShard
<1>2. \A name \in DOMAIN shards : shards[name] \in Outputs \cup {Torn}
  BY DEF PlanInv, ShardInv
<1>3. /\ DOMAIN shards' = DOMAIN shards \cup {ShardName(key)}
      /\ \A name \in DOMAIN shards' : shards'[name] \in Outputs \cup {Torn}
  BY <1>1, <1>2
<1>4. ShardInv'
  <2>1. shards' = [name \in DOMAIN shards' |-> shards'[name]]
    BY <1>1, <1>3
  <2>2. QED
    BY <1>3, <2>1 DEF ShardInv
<1>5. \A other \in planned_units \ {key} : ShardName(other) # ShardName(key)
  BY DEF ShardName
<1>6. QED
  BY <1>1, <1>3, <1>4, <1>5

LEMMA PersistShardKeeps ==
  ASSUME PlanInv, NEW key \in pending, PersistShard(key)
  PROVE  PlanInv'
<1>1. /\ phase = "persist" /\ pending' = pending \ {key} /\ PutShard(key, outputs[key])
      /\ UNCHANGED phase /\ UNCHANGED planVars /\ UNCHANGED <<loop_iters, outputs, passes_left>>
  BY DEF PersistShard, Sharded
<1>2. /\ Committed = planned_units /\ outputs \in [planned_units -> Outputs] /\ passes_left \in Nat
      /\ pending \subseteq planned_units
      /\ \A other \in planned_units : TrimmedFrom(outputs[other], loop_iters[IterOf(other)][other])
      /\ \A other \in planned_units \ pending :
           ShardName(other) \in DOMAIN shards /\ shards[ShardName(other)] = outputs[other]
  BY <1>1 DEF PlanInv, MergeInv
<1>3. PlannedInv' /\ planned_units' = planned_units
  BY <1>1, SamePlan DEF PlanInv, PlannedInv
<1>4. LoopInv' /\ Committed' = Committed
      /\ \A other : IterOf(other)' = IterOf(other) /\ ShardName(other)' = ShardName(other)
  BY <1>1, SameCommits DEF PlanInv
<1>5. key \in planned_units /\ outputs[key] \in Outputs \cup {Torn}
  BY <1>2
<1>6. /\ ShardInv'
      /\ ShardName(key) \in DOMAIN shards' /\ shards'[ShardName(key)] = outputs[key]
      /\ \A other \in planned_units \ {key} : ShardName(other) \in DOMAIN shards =>
           ShardName(other) \in DOMAIN shards' /\ shards'[ShardName(other)] = shards[ShardName(other)]
  BY <1>1, <1>5, PutShardPuts
<1>7. \A other \in planned_units \ pending' :
        ShardName(other) \in DOMAIN shards' /\ shards'[ShardName(other)] = outputs[other]
  <2> TAKE other \in planned_units \ pending'
  <2>1. CASE other = key
    BY <1>6, <2>1
  <2>2. CASE other # key
    <3>1. other \in planned_units \ pending /\ other \in planned_units \ {key}
      BY <1>1, <2>2
    <3>2. QED
      BY <1>2, <1>6, <3>1
  <2>3. QED
    BY <2>1, <2>2
<1>8. \A other \in planned_units : TrimmedFrom(outputs[other], loop_iters[IterOf(other)][other])'
  <2>1. Aggregate(outputs)' = Aggregate(outputs)
    BY <1>1 DEF Aggregate
  <2>2. \A other : (loop_iters[IterOf(other)][other])' = loop_iters[IterOf(other)][other]
    BY <1>1, <1>4
  <2>3. QED
    BY <1>1, <1>2, <2>1, <2>2 DEF TrimmedFrom
<1>9. MergeInv'
  BY <1>1, <1>2, <1>3, <1>4, <1>7, <1>8 DEF MergeInv
<1>10. QED
  BY <1>3, <1>4, <1>6, <1>9 DEF PlanInv

LEMMA CrashKeeps ==
  ASSUME PlanInv, NEW key \in pending, Crash(key)
  PROVE  PlanInv'
<1>1. /\ phase = "persist" /\ phase' = "crashed" /\ PutShard(key, Torn)
      /\ outputs' = <<>> /\ passes_left' = 0 /\ pending' = {}
      /\ UNCHANGED planVars /\ UNCHANGED loop_iters
  BY DEF Crash
<1>2. key \in planned_units
  BY <1>1 DEF PlanInv, MergeInv
<1>3. PlannedInv'
  BY <1>1, SamePlan DEF PlanInv
<1>4. LoopInv'
  BY <1>1, SameCommits DEF PlanInv
<1>5. ShardInv'
  BY <1>1, <1>2, PutShardPuts
<1>6. MergeInv'
  BY <1>1 DEF MergeInv
<1>7. QED
  BY <1>3, <1>4, <1>5, <1>6 DEF PlanInv

\* No file is missed: the units that were merged are those that were planned.
LEMMA ReturnKeeps ==
  ASSUME PlanInv, Return
  PROVE  PlanInv'
<1>1. /\ phase = "persist" /\ pending = {}
      /\ phase' = IF Cardinality(union_files) < total_files_planned THEN "missed_file" ELSE "merged"
      /\ UNCHANGED planVars
      /\ UNCHANGED <<loop_iters, outputs, passes_left, pending, shards>>
  BY DEF Return, mergeVars
<1>2. /\ Committed = planned_units /\ outputs \in [planned_units -> Outputs] /\ passes_left \in Nat
      /\ \A key \in planned_units : TrimmedFrom(outputs[key], loop_iters[IterOf(key)][key])
      /\ \A key \in planned_units :
           ShardName(key) \in DOMAIN shards /\ shards[ShardName(key)] = outputs[key]
  BY <1>1 DEF PlanInv, MergeInv
<1>3. union_files = UNION {Units[i].files : i \in DOMAIN Units}
  <2>1. \A i \in DOMAIN Units : KeyOf(Units[i]) \in DOMAIN outputs
    BY <1>2 DEF planned_units, KeysIn
  <2>2. {j \in DOMAIN Units : KeyOf(Units[j]) \in DOMAIN outputs} = DOMAIN Units
    BY <2>1
  <2>3. QED
    BY <2>2 DEF union_files
<1>4. Cardinality(union_files) = total_files_planned
  BY <1>3, UnitsAreCuts DEF PlanInv, PlannedInv, PlannedFiles
<1>5. Cardinality(union_files) \in Nat
  <2>1. \A i \in DOMAIN Units : Units[i].files \subseteq Files
    <3>1. Units \in Seq(Unit)
      BY UnitsAreCuts DEF PlanInv
    <3>2. \A i \in DOMAIN Units : Units[i] \in Unit
      BY <3>1
    <3>3. QED
      BY <3>2 DEF Unit
  <2>2. union_files \subseteq Files
    BY <1>3, <2>1
  <2>3. QED
    BY <2>2, Ranked
<1>6. phase' = "merged"
  BY <1>1, <1>4, <1>5
<1>7. PlannedInv' /\ planned_units' = planned_units
  BY <1>1, <1>6, SamePlan DEF PlanInv
<1>8. LoopInv' /\ Committed' = Committed
      /\ \A key : IterOf(key)' = IterOf(key) /\ ShardName(key)' = ShardName(key)
  BY <1>1, <1>6, SameCommits DEF PlanInv
<1>9. \A key \in planned_units : TrimmedFrom(outputs[key], loop_iters[IterOf(key)][key])'
  <2>1. Aggregate(outputs)' = Aggregate(outputs)
    BY <1>1 DEF Aggregate
  <2>2. \A key : (loop_iters[IterOf(key)][key])' = loop_iters[IterOf(key)][key]
    BY <1>1, <1>8
  <2>3. QED
    BY <1>1, <1>2, <2>1, <2>2 DEF TrimmedFrom
<1>10. MergeInv'
  BY <1>1, <1>2, <1>6, <1>7, <1>8, <1>9 DEF MergeInv
<1>11. QED
  BY <1>1, <1>7, <1>8, <1>10 DEF PlanInv, ShardInv

\* The merge that turns back, the resumed run and a step that changes nothing.
LEMMA MovesKeep ==
  ASSUME PlanInv, UNCHANGED <<planVars, loop_iters, mergeVars>>,
         \/ UNCHANGED phase
         \/ phase = "merge" /\ phase' = "exited_early"
         \/ phase = "crashed" /\ phase' = "merge"
  PROVE  PlanInv'
<1>1. UNCHANGED planVars /\ UNCHANGED <<loop_iters, outputs, passes_left, pending, shards>>
  BY DEF mergeVars
<1>2. PlannedInv' /\ planned_units' = planned_units
  BY <1>1, SamePlan DEF PlanInv, PlannedInv
<1>3. LoopInv' /\ Committed' = Committed
      /\ \A key : IterOf(key)' = IterOf(key) /\ ShardName(key)' = ShardName(key)
  BY <1>1, SameCommits DEF PlanInv
<1>4. MergeInv'
  <2>1. CASE UNCHANGED phase
    <3>1. Aggregate(outputs)' = Aggregate(outputs)
      BY <1>1 DEF Aggregate
    <3>2. \A key : (loop_iters[IterOf(key)][key])' = loop_iters[IterOf(key)][key]
      BY <1>1, <1>3
    <3>3. \A key : TrimmedFrom(outputs[key], loop_iters[IterOf(key)][key])'
                     = TrimmedFrom(outputs[key], loop_iters[IterOf(key)][key])
      BY <1>1, <3>1, <3>2 DEF TrimmedFrom
    <3>4. QED
      BY <1>1, <1>2, <1>3, <2>1, <3>3 DEF PlanInv, MergeInv
  <2>2. CASE ~UNCHANGED phase
    BY <1>1, <2>2 DEF PlanInv, MergeInv
  <2>3. QED
    BY <2>1, <2>2
<1>5. QED
  BY <1>1, <1>2, <1>3, <1>4 DEF PlanInv, ShardInv

LEMMA NextKeeps == PlanInv /\ [Next]_vars => PlanInv'
<1> SUFFICES ASSUME PlanInv, [Next]_vars PROVE PlanInv'
  OBVIOUS
<1>1. ASSUME NEW k \in 0..MaxPicked, NEW leaves \in [1..k -> Leaves], Plan(leaves)
      PROVE  PlanInv'
  BY <1>1, PlanKeeps
<1>2. ASSUME NEW b \in DOMAIN batches, NEW loop_done \in BOOLEAN,
             NEW keys \in SUBSET KeysIn(batches[b]), NEW payload \in [keys -> Outputs],
             Iterate(b, keys, payload, loop_done)
      PROVE  PlanInv'
  BY <1>2, IterateKeeps
<1>3. CASE ExitedEarly
  BY <1>3, MovesKeep DEF ExitedEarly
<1>4. CASE Fold
  BY <1>4, FoldKeeps
<1>5. ASSUME NEW target \in Largest, TrimPass(target)
      PROVE  PlanInv'
  BY <1>5, TrimPassKeeps
<1>6. ASSUME NEW key \in pending, PersistShard(key)
      PROVE  PlanInv'
  BY <1>6, PersistShardKeeps
<1>7. ASSUME NEW key \in pending, Crash(key)
      PROVE  PlanInv'
  BY <1>7, CrashKeeps
<1>8. CASE Return
  BY <1>8, ReturnKeeps
<1>9. CASE Resume
  BY <1>9, MovesKeep DEF Resume
<1>10. CASE UNCHANGED vars
  BY <1>10, MovesKeep DEF vars
<1>11. CASE Done
  BY <1>10, <1>11 DEF Done
<1>12. QED
  BY <1>1, <1>2, <1>3, <1>4, <1>5, <1>6, <1>7, <1>8, <1>9, <1>10, <1>11 DEF Next

-----------------------------------------------------------------------------
(* What a run promises.                                                    *)

\* The plan, the commits and the merge keep to the invariant, through crashes
\* and resumed runs.
THEOREM PlanInvariant == Spec => []PlanInv
<1>1. QED
  BY InitEstablishes, NextKeeps, PTL DEF Spec

\* The planner's and the merge's data stay in the shapes of their schemas
\* (handle_plan_specialist_batches, handle_merge_specialist_outputs).
THEOREM PlanTypes == Spec => []TypeOK
<1>1. PlanInv => TypeOK
  <2> SUFFICES ASSUME PlanInv PROVE TypeOK
    OBVIOUS
  <2>1. PlannedInv /\ LoopInv /\ MergeInv /\ ShardInv
    BY DEF PlanInv
  <2>2. Units \in Seq(Unit) /\ Units = PlannedUnits
    BY <2>1, UnitsAreCuts
  <2>3. \A i \in DOMAIN Units : Units[i] \in Unit
    BY <2>2
  <2>4. \A i \in DOMAIN Units :
          KeyOf(Units[i]) \in Keys /\ Units[i].files \subseteq Files /\ Units[i].total_subs \in Nat \ {0}
    BY <2>3 DEF Unit, KeyOf, Keys
  <2>5. total_files_planned \in 0..NumFiles
    <3> DEFINE planned == UNION {Units[i].files : i \in DOMAIN Units}
    <3>1. planned \subseteq Files
      BY <2>4
    <3>2. total_files_planned = Cardinality(planned)
      BY <2>1, <2>2 DEF PlannedInv, PlannedFiles
    <3>3. NumFiles \in Nat /\ IsFiniteSet(Files) /\ Cardinality(Files) = NumFiles
      BY PlanAssumption, FS_Interval DEF Files
    <3> HIDE DEF planned
    <3>4. Cardinality(planned) \in Nat /\ Cardinality(planned) <= NumFiles
      BY <3>1, <3>3, FS_Subset, FS_CardinalityType
    <3>5. QED
      BY <3>2, <3>3, <3>4
  <2>6. \A i \in DOMAIN loop_iters : loop_iters[i] \in [DOMAIN loop_iters[i] -> Outputs]
    <3>1. \A i \in DOMAIN loop_iters : loop_iters[i] \in Commits
      BY <2>1 DEF LoopInv
    <3>2. QED
      BY <3>1, CommitShape
  <2>7. outputs \in [DOMAIN outputs -> Outputs] /\ passes_left \in Nat /\ pending \subseteq DOMAIN outputs
    <3>1. CASE phase \in {"trim", "persist", "merged"}
      BY <2>1, <3>1 DEF MergeInv
    <3>2. CASE phase \notin {"trim", "persist", "merged"}
      <4>1. outputs = <<>> /\ passes_left = 0 /\ pending = {}
        BY <2>1, <3>2 DEF MergeInv
      <4>2. <<>> \in [DOMAIN <<>> -> Outputs]
        OBVIOUS
      <4>3. QED
        BY <4>1, <4>2
    <3>3. QED
      BY <3>1, <3>2
  <2>8. picked \in Seq(Leaves)
    BY <2>1 DEF PlannedInv
  <2>9. \A i \in DOMAIN picked : picked[i] \in Leaves
    BY <2>8
  <2>10. QED
    BY <2>1, <2>4, <2>5, <2>6, <2>7, <2>9 DEF TypeOK, PlannedInv, ShardInv
<1>2. QED
  BY <1>1, PlanInvariant, PTL

\* However many files and leaves there are and whatever the token limit and
\* the batch size, the plan is sound: the units of a picked leaf partition its
\* files, exceed the limit by less than one file, and are packed into full
\* batches in their order (handle_plan_specialist_batches).
THEOREM PlanIsSound == Spec => []PlanSound
<1>1. PlanInv => PlanSound
  BY PlannedSound DEF PlanInv
<1>2. QED
  BY <1>1, PlanInvariant, PTL

\* However the loop cut, repeated or ordered its iterations, the merge has an
\* output for each planned unit and for no other, and never reports a missed
\* file (handle_merge_specialist_outputs).
THEOREM MergeIsComplete == Spec => []MergeComplete
<1>1. PlanInv => MergeComplete
  BY DEF PlanInv, PlannedInv, MergeInv, MergeComplete
<1>2. QED
  BY <1>1, PlanInvariant, PTL

\* Trimming drops the least severe findings of a unit first, and none that
\* the outputs had room for (handle_merge_specialist_outputs).
THEOREM TrimmingIsFair == Spec => []TrimsTheLeast
<1>1. PlanInv => TrimsTheLeast
  <2> SUFFICES ASSUME PlanInv, phase \in {"trim", "persist", "merged"}, NEW key \in DOMAIN outputs
               PROVE  \E out \in {loop_iters[i][key] : i \in
                                   {j \in DOMAIN loop_iters :
                                      /\ key \in DOMAIN loop_iters[j]
                                      /\ \A k \in DOMAIN loop_iters :
                                           k > j => key \notin DOMAIN loop_iters[k]}} :
                        /\ outputs[key].base = out.base
                        /\ \A r \in Ranks :
                             /\ outputs[key].findings[r] <= out.findings[r]
                             /\ outputs[key].findings[r] < out.findings[r] =>
                                  /\ \A q \in Ranks : q < r => outputs[key].findings[q] = 0
                                  /\ Aggregate(outputs) + 1 > Budget
    BY DEF TrimsTheLeast
  <2>1. /\ key \in Committed /\ TrimmedFrom(outputs[key], loop_iters[IterOf(key)][key])
    BY DEF PlanInv, MergeInv
  <2>2. /\ IterOf(key) \in DOMAIN loop_iters /\ key \in DOMAIN loop_iters[IterOf(key)]
        /\ \A j \in DOMAIN loop_iters : key \in DOMAIN loop_iters[j] => j <= IterOf(key)
    BY <2>1, LastCommitted DEF PlanInv
  <2>3. \A j \in DOMAIN loop_iters : j \in Nat
    BY DEF PlanInv, LoopInv
  <2>4. \A k \in DOMAIN loop_iters : k > IterOf(key) => key \notin DOMAIN loop_iters[k]
    BY <2>2, <2>3
  <2>5. IterOf(key) \in {j \in DOMAIN loop_iters :
                           /\ key \in DOMAIN loop_iters[j]
                           /\ \A k \in DOMAIN loop_iters : k > j => key \notin DOMAIN loop_iters[k]}
    BY <2>2, <2>4
  <2>6. QED
    BY <2>1, <2>5 DEF TrimmedFrom
<1>2. QED
  BY <1>1, PlanInvariant, PTL

\* Once the merge has returned, the shard of the winning iteration of each
\* unit is the output it returned, whatever earlier runs and attempts that
\* died left behind (the shard writes of handle_merge_specialist_outputs).
THEOREM ShardsMirrorOutputs == Spec => []ShardsMirror
<1>1. PlanInv => ShardsMirror
  BY DEF PlanInv, MergeInv, ShardsMirror
<1>2. QED
  BY <1>1, PlanInvariant, PTL

=============================================================================
