--------------------------- MODULE AnalyticsProofs ---------------------------
(***************************************************************************)
(* Theorems about the analytics, for any interval, precision, zone and     *)
(* load: first what sums and lists of groups are, and what the collector   *)
(* does to the tables, then MetricsSnapshot, then DailyReport.             *)
(***************************************************************************)
EXTENDS MetricsSnapshot, DailyReport, FiniteSetTheorems, WellFoundedInduction, TLAPS

-----------------------------------------------------------------------------
(* Sums.  What a fold computes is determined by its recursive equation.    *)

\* A set of numbers that is not empty has a least one.
LEMMA LeastNumber ==
  ASSUME NEW T, T \subseteq Nat, T # {}
  PROVE  \E m \in T : \A n \in T : m <= n
<1>1. PICK m \in T : \A n \in T : ~ (<<n, m>> \in OpToRel(<, Nat))
  BY NatLessThanWellFounded, WFMin
<1>2. \A n \in T : ~ (n < m)
  BY <1>1 DEF OpToRel
<1> QED
  BY <1>2

SumsUp(f, v, D) ==
  \A s \in SUBSET D : f[s] = IF s = {} THEN 0 ELSE v[CHOOSE x \in s : TRUE] + f[s \ {CHOOSE x \in s : TRUE}]

\* A recursive function over the subsets of a finite set is determined by its equation.
LEMMA Determined ==
  ASSUME NEW D, IsFiniteSet(D), NEW f, NEW g, NEW v,
         SumsUp(f, v, D), SumsUp(g, v, D)
  PROVE  f[D] = g[D]
<1> SUFFICES ASSUME f[D] # g[D]
             PROVE  FALSE
  OBVIOUS
<1> DEFINE Bad == {s \in SUBSET D : f[s] # g[s]}
           Sizes == {Cardinality(s) : s \in Bad}
<1>1. \A s \in SUBSET D : IsFiniteSet(s) /\ Cardinality(s) \in Nat
  BY FS_Subset, FS_CardinalityType
<1>2. Sizes \subseteq Nat /\ Sizes # {}
  BY <1>1
<1>3. PICK m \in Sizes : \A n \in Sizes : m <= n
  <2> HIDE DEF Sizes
  <2> QED
    BY <1>2, LeastNumber
<1>4. PICK s \in Bad : m = Cardinality(s)
  BY <1>3
<1>5. s # {}
  BY <1>4 DEF SumsUp
<1> DEFINE i == CHOOSE x \in s : TRUE
<1>6. i \in s
  BY <1>5
<1>7. s \in SUBSET D /\ f[s] # g[s] /\ f[s] = v[i] + f[s \ {i}] /\ g[s] = v[i] + g[s \ {i}]
  BY <1>4, <1>5 DEF SumsUp
<1> HIDE DEF i
<1>8. s \ {i} \in Bad
  BY <1>7
<1>9. Cardinality(s \ {i}) = Cardinality(s) - 1
  BY <1>1, <1>6, <1>7, FS_RemoveElement
<1>10. m <= Cardinality(s \ {i})
  BY <1>3, <1>8
<1> QED
  BY <1>1, <1>4, <1>7, <1>9, <1>10

\* To know the sum of a function's values, it is enough to have a function on
\* the subsets of its domain that adds one value at a time.
LEMMA TotalIs ==
  ASSUME NEW D, IsFiniteSet(D), NEW v, DOMAIN v = D, NEW h, SumsUp(h, v, D)
  PROVE  Total(v) = h[D]
<1> DEFINE Sat(iter) == iter = [s \in SUBSET D |-> IF s = {} THEN 0
                          ELSE v[CHOOSE x \in s : TRUE] + iter[s \ {CHOOSE x \in s : TRUE}]]
           f == CHOOSE iter : Sat(iter)
           g == [s \in SUBSET D |-> h[s]]
<1>1. Total(v) = f[D]
  BY Zenon DEF Total, FoldFunction, FoldFunctionOnSet, MapThenFoldSet
<1>2. SumsUp(g, v, D) /\ g[D] = h[D]
  <2> DEFINE c(s) == CHOOSE x \in s : TRUE
  <2>1. \A s \in SUBSET D : s \ {c(s)} \in SUBSET D
    OBVIOUS
  <2>2. \A s \in SUBSET D : h[s] = IF s = {} THEN 0 ELSE v[c(s)] + h[s \ {c(s)}]
    BY DEF SumsUp
  <2> HIDE DEF c
  <2>3. \A s \in SUBSET D : g[s] = IF s = {} THEN 0 ELSE v[c(s)] + g[s \ {c(s)}]
    BY <2>1, <2>2
  <2> HIDE DEF g
  <2>4. SumsUp(g, v, D)
    BY <2>3 DEF SumsUp, c
  <2> QED
    BY <2>4 DEF g
<1>3. Sat(g)
  <2>1. g = [s \in SUBSET D |-> g[s]]
    OBVIOUS
  <2> HIDE DEF g
  <2> QED
    BY <1>2, <2>1 DEF SumsUp
<1>4. Sat(f)
  BY <1>3
<1>5. SumsUp(f, v, D)
  <2> DEFINE F(s) == IF s = {} THEN 0 ELSE v[CHOOSE x \in s : TRUE] + f[s \ {CHOOSE x \in s : TRUE}]
  <2>1. f = [s \in SUBSET D |-> F(s)]
    BY <1>4
  <2> HIDE DEF f, F
  <2>2. \A s \in SUBSET D : f[s] = F(s)
    BY <2>1
  <2> QED
    BY <2>2 DEF F, SumsUp
<1> HIDE DEF f, g
<1>6. f[D] = g[D]
  BY <1>2, <1>5, Determined
<1> QED
  BY <1>1, <1>2, <1>6

\* As many points as the sum of the values on s.
Heap(v, s) == {p \in s \X Nat : 1 <= p[2] /\ p[2] <= v[p[1]]}

LEMMA HeapFacts ==
  ASSUME NEW n \in Nat, NEW D, IsFiniteSet(D), NEW v \in [D -> 0..n]
  PROVE  /\ Heap(v, {}) = {}
         /\ \A s \in SUBSET D : IsFiniteSet(Heap(v, s)) /\ Cardinality(Heap(v, s)) \in Nat
         /\ \A s \in SUBSET D : \A i \in s : Cardinality(Heap(v, s)) = v[i] + Cardinality(Heap(v, s \ {i}))
<1>1. ASSUME NEW s \in SUBSET D
      PROVE  IsFiniteSet(Heap(v, s)) /\ Cardinality(Heap(v, s)) \in Nat
  <2>1. IsFiniteSet(s) /\ IsFiniteSet(1..n)
    BY FS_Subset, FS_Interval
  <2>2. IsFiniteSet(s \X (1..n))
    BY <2>1, FS_Product
  <2>3. Heap(v, s) \subseteq s \X (1..n)
    BY DEF Heap
  <2> QED
    BY <2>2, <2>3, FS_Subset, FS_CardinalityType
<1>2. ASSUME NEW s \in SUBSET D, NEW i \in s
      PROVE  Cardinality(Heap(v, s)) = v[i] + Cardinality(Heap(v, s \ {i}))
  <2> DEFINE A == {i} \X (1..v[i])
             B == Heap(v, s \ {i})
  <2>1. v[i] \in Nat
    OBVIOUS
  <2>2. /\ IsFiniteSet({i}) /\ Cardinality({i}) = 1
        /\ IsFiniteSet(1..v[i]) /\ Cardinality(1..v[i]) = v[i]
    <3>1. ASSUME NEW k \in Nat
          PROVE  IsFiniteSet(1..k) /\ Cardinality(1..k) = k
      <4>1. IsFiniteSet(1..k) /\ Cardinality(1..k) = IF 1 > k THEN 0 ELSE k - 1 + 1
        <5>1. 1 \in Int /\ k \in Int
          OBVIOUS
        <5> QED
          BY <5>1, FS_Interval, Zenon
      <4>2. (IF 1 > k THEN 0 ELSE k - 1 + 1) = k
        OBVIOUS
      <4> QED
        BY <4>1, <4>2
    <3> QED
      BY <2>1, <3>1, FS_Singleton
  <2>3. IsFiniteSet(A) /\ Cardinality(A) = v[i]
    BY <2>1, <2>2, FS_Product
  <2>4. IsFiniteSet(B) /\ Cardinality(B) \in Nat
    BY <1>1
  <2>5. A \cap B = {} /\ Heap(v, s) = A \cup B
    BY <2>1 DEF Heap
  <2> HIDE DEF A, B
  <2>6. Cardinality(A \cup B) = Cardinality(A) + Cardinality(B) - Cardinality({})
    BY <2>3, <2>4, <2>5, FS_Union
  <2> QED
    BY <2>1, <2>3, <2>4, <2>5, <2>6, FS_EmptySet DEF B
<1>3. Heap(v, {}) = {}
  BY DEF Heap
<1> QED
  BY <1>1, <1>2, <1>3

LEMMA TotalIsHeap ==
  ASSUME NEW n \in Nat, NEW D, IsFiniteSet(D), NEW v \in [D -> 0..n]
  PROVE  Total(v) = Cardinality(Heap(v, D)) /\ Total(v) \in Nat
<1> DEFINE h == [s \in SUBSET D |-> Cardinality(Heap(v, s))]
<1>1. SumsUp(h, v, D)
  <2> SUFFICES ASSUME NEW s \in SUBSET D
               PROVE  h[s] = IF s = {} THEN 0 ELSE v[CHOOSE x \in s : TRUE] + h[s \ {CHOOSE x \in s : TRUE}]
    BY DEF SumsUp
  <2> DEFINE c == CHOOSE x \in s : TRUE
  <2>1. s # {} => c \in s
    OBVIOUS
  <2> HIDE DEF c
  <2>2. s # {} => Cardinality(Heap(v, s)) = v[c] + Cardinality(Heap(v, s \ {c}))
    BY <2>1, HeapFacts
  <2>3. Cardinality(Heap(v, {})) = 0
    BY HeapFacts, FS_EmptySet
  <2>4. h[s] = IF s = {} THEN 0 ELSE v[c] + h[s \ {c}]
    BY <2>2, <2>3
  <2> QED
    BY <2>4 DEF c
<1>2. h[D] = Cardinality(Heap(v, D)) /\ Cardinality(Heap(v, D)) \in Nat
  BY HeapFacts
<1> HIDE DEF h
<1>3. Total(v) = h[D]
  BY <1>1, TotalIs
<1> QED
  BY <1>2, <1>3

LEMMA TotalOfNone == \A v : DOMAIN v = {} => Total(v) = 0
<1> SUFFICES ASSUME NEW v, DOMAIN v = {}
             PROVE  Total(v) = 0
  OBVIOUS
<1> DEFINE h == [s \in SUBSET {} |-> 0]
<1>1. SumsUp(h, v, {}) /\ h[{}] = 0
  BY DEF SumsUp
<1> HIDE DEF h
<1> QED
  BY <1>1, TotalIs, FS_EmptySet

-----------------------------------------------------------------------------
(* The groups of a list.                                                   *)

LEMMA OutrankingFacts ==
  ASSUME NEW D, IsFiniteSet(D), NEW name, name = [c \in D |-> name[c]], Range(name) \subseteq ToSet(Alphabet)
  PROVE  /\ IsFiniteSet(Range(name))
         /\ \A n \in Range(name) : /\ IsFiniteSet(Outranking(name, n)) /\ Outranking(name, n) \subseteq Range(name) \ {n}
                                   /\ Cardinality(Outranking(name, n)) \in 0..(Cardinality(Range(name)) - 1)
         /\ \A m, n \in Range(name) : m # n => Cardinality(Outranking(name, m)) # Cardinality(Outranking(name, n))
<1> DEFINE R == Range(name)
<1>1. IsFiniteSet(R)
  <2>1. name \in [D -> R] /\ \A n \in R : \E c \in D : name[c] = n
    BY DEF Range
  <2>2. name \in Surjection(D, R)
    BY <2>1 DEF Surjection
  <2> QED
    BY <2>2, FS_Surjection
<1>2. \A n \in R : Count(name, n) \in Nat
  <2> SUFFICES ASSUME NEW n \in R
               PROVE  Count(name, n) \in Nat
    OBVIOUS
  <2>1. IsFiniteSet({c \in D : name[c] = n})
    BY FS_Subset
  <2> QED
    BY <2>1, FS_CardinalityType DEF Count
<1>3. \A n \in R : Place(n) \in Nat /\ Alphabet[Place(n)] = n
  <2>1. DOMAIN Alphabet \subseteq Nat
    BY ReportAssumption
  <2>2. \A n \in R : \E i \in DOMAIN Alphabet : Alphabet[i] = n
    BY DEF ToSet
  <2> QED
    BY <2>1, <2>2 DEF Place
<1> DEFINE Before(m, n) == Count(name, m) > Count(name, n) \/ (Count(name, m) = Count(name, n) /\ Place(m) < Place(n))
<1>4. \A n \in R : Outranking(name, n) = {m \in R : Before(m, n)}
  BY DEF Outranking
<1>5. \A m, n \in R : m = n \/ Before(m, n) \/ Before(n, m)
  BY <1>2, <1>3
<1>6. \A n \in R : ~ Before(n, n)
  BY <1>2, <1>3
<1>7. \A l, m, n \in R : Before(l, m) /\ Before(m, n) => Before(l, n)
  BY <1>2, <1>3
<1> HIDE DEF R, Before
<1>8. \A n \in R : /\ Outranking(name, n) \subseteq R \ {n}
                   /\ IsFiniteSet(Outranking(name, n)) /\ Cardinality(Outranking(name, n)) \in Nat
  <2> SUFFICES ASSUME NEW n \in R
               PROVE  /\ Outranking(name, n) \subseteq R \ {n}
                      /\ IsFiniteSet(Outranking(name, n)) /\ Cardinality(Outranking(name, n)) \in Nat
    OBVIOUS
  <2>1. Outranking(name, n) \subseteq R \ {n}
    BY <1>4, <1>6
  <2>2. IsFiniteSet(Outranking(name, n))
    BY <1>1, <2>1, FS_Subset
  <2> QED
    BY <2>1, <2>2, FS_CardinalityType
<1>9. ASSUME NEW n \in R
      PROVE  Cardinality(Outranking(name, n)) \in 0..(Cardinality(R) - 1)
  <2>1. IsFiniteSet(R \ {n}) /\ Cardinality(R \ {n}) = Cardinality(R) - 1
    BY <1>1, FS_RemoveElement
  <2>2. Cardinality(Outranking(name, n)) <= Cardinality(R \ {n})
    BY <1>8, <2>1, FS_Subset
  <2>3. Cardinality(R) \in Nat
    BY <1>1, FS_CardinalityType
  <2> QED
    BY <1>8, <2>1, <2>2, <2>3
<1>10. ASSUME NEW m \in R, NEW n \in R, Before(m, n)
       PROVE  Cardinality(Outranking(name, m)) < Cardinality(Outranking(name, n))
  <2>1. Outranking(name, m) \cup {m} \subseteq Outranking(name, n)
    BY <1>4, <1>7, <1>10
  <2>2. m \notin Outranking(name, m)
    BY <1>8
  <2>3. Cardinality(Outranking(name, m) \cup {m}) = Cardinality(Outranking(name, m)) + 1
    BY <1>8, <2>2, FS_AddElement
  <2>4. Cardinality(Outranking(name, m) \cup {m}) <= Cardinality(Outranking(name, n))
    BY <1>8, <2>1, FS_Subset
  <2> QED
    BY <1>8, <2>3, <2>4
<1>11. \A m, n \in R : m # n => Cardinality(Outranking(name, m)) # Cardinality(Outranking(name, n))
  BY <1>5, <1>8, <1>10
<1> QED
  BY <1>1, <1>8, <1>9, <1>11 DEF R

\* A list of groups has a place for each of the names, and one name at each place.
LEMMA RankedFacts ==
  ASSUME NEW D, IsFiniteSet(D), NEW name, name = [c \in D |-> name[c]], Range(name) \subseteq ToSet(Alphabet)
  PROVE  /\ \A n \in Range(name) : \E i \in 1..Cardinality(Range(name)) : n = Ranked(name, i)
         /\ \A i \in 1..Cardinality(Range(name)) :
              Ranked(name, i) \in Range(name) /\ Cardinality(Outranking(name, Ranked(name, i))) = i - 1
<1> DEFINE R == Range(name)
           k == Cardinality(R)
           rank == [n \in R |-> Cardinality(Outranking(name, n))]
<1>1. /\ IsFiniteSet(R) /\ k \in Nat
      /\ \A n \in R : rank[n] \in 0..(k - 1)
      /\ \A m, n \in R : m # n => rank[m] # rank[n]
  BY OutrankingFacts, FS_CardinalityType
<1>2. \A i \in 1..k : Ranked(name, i) = CHOOSE n \in R : rank[n] = i - 1
  BY DEF Ranked
<1>3. rank \in [R -> 0..(k - 1)]
  BY <1>1
<1>r. \A n \in R : rank[n] = Cardinality(Outranking(name, n))
  OBVIOUS
<1> HIDE DEF rank
<1>4. rank \in Injection(R, 0..(k - 1))
  BY <1>1, <1>3 DEF Injection, IsInjective
<1>5. IsFiniteSet(0..(k - 1)) /\ Cardinality(0..(k - 1)) = k
  <2>1. Cardinality(0..(k - 1)) = (IF 0 > k - 1 THEN 0 ELSE k - 1 - 0 + 1) /\ IsFiniteSet(0..(k - 1))
    <3>1. 0 \in Int /\ k - 1 \in Int
      BY <1>1
    <3> QED
      BY <3>1, FS_Interval, Zenon
  <2> HIDE DEF k
  <2>2. (IF 0 > k - 1 THEN 0 ELSE k - 1 - 0 + 1) = k
    BY <1>1
  <2> QED
    BY <2>1, <2>2
<1>6. rank \in Surjection(R, 0..(k - 1))
  BY <1>4, <1>5, FS_Injection
<1>7. \A i \in 1..k : \E n \in R : rank[n] = i - 1
  <2> SUFFICES ASSUME NEW i \in 1..k
               PROVE  \E n \in R : rank[n] = i - 1
    OBVIOUS
  <2>1. i - 1 \in 0..(k - 1)
    BY <1>1
  <2> QED
    BY <1>6, <2>1 DEF Surjection
<1>8. \A i \in 1..k : Ranked(name, i) \in R /\ rank[Ranked(name, i)] = i - 1
  BY <1>2, <1>7
<1>9. \A n \in R : rank[n] + 1 \in 1..k /\ n = Ranked(name, rank[n] + 1)
  <2> SUFFICES ASSUME NEW n \in R
               PROVE  rank[n] + 1 \in 1..k /\ n = Ranked(name, rank[n] + 1)
    OBVIOUS
  <2> DEFINE i == rank[n] + 1
  <2>1. i \in 1..k /\ i - 1 = rank[n]
    BY <1>1
  <2> HIDE DEF i
  <2>2. rank[Ranked(name, i)] = rank[n] /\ Ranked(name, i) \in R
    BY <1>8, <2>1
  <2>3. n = Ranked(name, i)
    BY <1>1, <2>2
  <2> QED
    BY <2>1, <2>3 DEF i
<1> QED
  BY <1>8, <1>9, <1>r

\* A list that has not been cut off counts each row once; it is empty if there is none.
LEMMA TopFacts ==
  ASSUME NEW D, IsFiniteSet(D), NEW name, name = [c \in D |-> name[c]], Range(name) \subseteq ToSet(Alphabet)
  PROVE  /\ Len(Top(name)) < 5 =>
              Total([i \in DOMAIN Top(name) |-> Top(name)[i].count]) = Cardinality(D)
         /\ Top(name) = <<>> <=> D = {}
<1> DEFINE R == Range(name)
           k == Cardinality(R)
           n == IF k < 5 THEN k ELSE 5
<1>1. IsFiniteSet(R) /\ k \in Nat
  BY OutrankingFacts, FS_CardinalityType
<1>2. DOMAIN name = D /\ R = {name[c] : c \in D}
  BY DEF Range
<1>3. Top(name) = [i \in 1..n |-> [name |-> Ranked(name, i), count |-> Count(name, Ranked(name, i))]]
  BY DEF Top
<1>4. /\ \A m \in R : \E i \in 1..k : m = Ranked(name, i)
      /\ \A i \in 1..k : Ranked(name, i) \in R /\ Cardinality(Outranking(name, Ranked(name, i))) = i - 1
  BY RankedFacts
<1> HIDE DEF k
<1>5. n \in Nat /\ Len(Top(name)) = n /\ DOMAIN Top(name) = 1..n
  BY <1>1, <1>3
<1>6. Top(name) = <<>> <=> D = {}
  <2>1. k = 0 <=> R = {}
    BY <1>1, FS_EmptySet DEF k
  <2>2. R = {} <=> D = {}
    BY <1>2
  <2>3. Top(name) = <<>> <=> n = 0
    BY <1>3, <1>5
  <2> HIDE DEF R
  <2> QED
    BY <1>1, <2>1, <2>2, <2>3
<1>7. ASSUME Len(Top(name)) < 5
      PROVE  Total([i \in DOMAIN Top(name) |-> Top(name)[i].count]) = Cardinality(D)
  <2>1. n = k
    BY <1>1, <1>5, <1>7
  <2> DEFINE v == [i \in 1..k |-> Count(name, Ranked(name, i))]
             With(s) == {c \in D : \E i \in s : name[c] = Ranked(name, i)}
             h == [s \in SUBSET (1..k) |-> Cardinality(With(s))]
  <2>2. [i \in DOMAIN Top(name) |-> Top(name)[i].count] = v
    BY <1>3, <1>5, <2>1
  <2>3. ASSUME NEW s \in SUBSET (1..k), NEW i \in s
        PROVE  Cardinality(With(s)) = v[i] + Cardinality(With(s \ {i}))
    <3> DEFINE A == {c \in D : name[c] = Ranked(name, i)}
               B == With(s \ {i})
    <3>1. A \cap B = {}
      <4> SUFFICES ASSUME NEW c \in D, name[c] = Ranked(name, i), NEW j \in s \ {i}, name[c] = Ranked(name, j)
                   PROVE  FALSE
        OBVIOUS
      <4>1. i - 1 = j - 1 /\ i \in 1..k /\ j \in 1..k
        BY <1>4
      <4> QED
        BY <1>1, <4>1
    <3>2. With(s) = A \cup B
      OBVIOUS
    <3>3. A \in SUBSET D /\ B \in SUBSET D
      OBVIOUS
    <3> HIDE DEF A, B, With
    <3>4. IsFiniteSet(A) /\ IsFiniteSet(B) /\ Cardinality(A) \in Nat /\ Cardinality(B) \in Nat
      BY <3>3, FS_Subset, FS_CardinalityType
    <3>5. Cardinality(A \cup B) = Cardinality(A) + Cardinality(B) - Cardinality({})
      BY <3>1, <3>4, FS_Union
    <3>6. v[i] = Cardinality(A)
      BY <1>2 DEF Count, A
    <3>7. With(s \ {i}) = B
      BY DEF B
    <3> HIDE DEF v
    <3> QED
      BY <3>2, <3>4, <3>5, <3>6, <3>7, FS_EmptySet
  <2>4. With({}) = {} /\ Cardinality({}) = 0
    BY FS_EmptySet
  <2>5. SumsUp(h, v, 1..k)
    <3> SUFFICES ASSUME NEW s \in SUBSET (1..k)
                 PROVE  h[s] = IF s = {} THEN 0 ELSE v[CHOOSE x \in s : TRUE] + h[s \ {CHOOSE x \in s : TRUE}]
      BY DEF SumsUp
    <3> DEFINE c == CHOOSE x \in s : TRUE
    <3>1. s # {} => c \in s
      OBVIOUS
    <3> HIDE DEF c, With, v
    <3>2. h[s] = IF s = {} THEN 0 ELSE v[c] + h[s \ {c}]
      BY <2>3, <2>4, <3>1
    <3> QED
      BY <3>2 DEF c
  <2>6. h[1..k] = Cardinality(D)
    <3>1. With(1..k) = D
      BY <1>2, <1>4
    <3> QED
      BY <3>1
  <2>7. IsFiniteSet(1..k)
    BY <1>1, FS_Interval
  <2>8. DOMAIN v = 1..k
    OBVIOUS
  <2> HIDE DEF h, v
  <2>9. Total(v) = h[1..k]
    BY <2>5, <2>7, <2>8, TotalIs
  <2> QED
    BY <2>2, <2>6, <2>9
<1> QED
  BY <1>6, <1>7

\* A report on tables that are what they should be.
LEMMA ReportAgrees ==
  ASSUME \A c \in Call : call[c] = "stored" => row[c] \in Row,
         NEW w
  PROVE  Agree(ReportData(w))
<1> DEFINE D == Failures(w)
           name == [c \in D |-> TypeName(c)]
           m == Metrics(w)
           groups == TopFailureTypes(w)
<1>1. D \subseteq Call /\ \A c \in D : row[c] \in Row /\ row[c].table = "agent_failure"
  BY DEF Failures, From
<1>2. IsFiniteSet(D)
  BY <1>1, StoreAssumption, FS_Subset
<1>3. Range(name) \subseteq ToSet(Alphabet)
  <2> SUFFICES ASSUME NEW c \in D
               PROVE  TypeName(c) \in ToSet(Alphabet)
    BY DEF Range
  <2>1. row[c].failure_type \in ToSet(Alphabet) \cup {None}
    BY <1>1, ReportAssumption
  <2> QED
    BY <2>1, ReportAssumption DEF TypeName, Coalesce
<1>4. groups = Top(name)
  BY DEF TopFailureTypes
<1>5. m.failure_count = Cardinality(D)
  BY DEF Metrics
<1>6. /\ ReportData(w).metrics = m /\ ReportData(w).lists.top_failure_types = groups
      /\ ReportData(w).signals = Signals(m, groups)
  BY DEF ReportData, Lists
<1>7. "failures" \in Signals(m, groups) <=> groups # <<>>
  BY DEF Signals
<1> HIDE DEF m, groups
<1>8. name = [c \in D |-> name[c]]
  OBVIOUS
<1> HIDE DEF name, D
<1>9. /\ Len(Top(name)) < 5 =>
              Total([i \in DOMAIN Top(name) |-> Top(name)[i].count]) = Cardinality(D)
      /\ Top(name) = <<>> <=> D = {}
  BY <1>2, <1>3, <1>8, TopFacts
<1> QED
  BY <1>4, <1>5, <1>6, <1>7, <1>9 DEF Agree

-----------------------------------------------------------------------------
(* The tables.                                                             *)

\* A row is known from when it is stamped, until it is refused or abandoned.
StoreOK ==
  /\ call \in [Call -> {"none", "stamped", "stored", "failed"}]
  /\ row  \in [Call -> Row \cup {None}]
  /\ at   \in [Call -> 0..MaxTime]
  /\ \A c \in Call : call[c] \in {"stamped", "stored"} => row[c] \in Row

LEMMA StoreKept ==
  ASSUME StoreOK, now \in 0..MaxTime, Record \/ Abandon
  PROVE  now' = now /\ StoreOK'
<1> USE DEF StoreOK
<1>1. CASE Abandon
  BY <1>1, StoreAssumption DEF Abandon
<1>2. ASSUME NEW c \in Call, Stamp(c) \/ Commit(c) \/ Refuse(c)
      PROVE  now' = now /\ StoreOK'
  BY <1>2, StoreAssumption DEF Stamp, Commit, Refuse
<1> QED
  BY <1>1, <1>2 DEF Record

-----------------------------------------------------------------------------
(* Windows and rates of a snapshot.                                        *)

\* A factor does not change an order.
LEMMA ProductOrder ==
  ASSUME NEW d \in Nat \ {0}
  PROVE  \A a, b \in Int : d * a < d * b => a < b
<1> SUFFICES ASSUME NEW a \in Int, NEW b \in Int, b <= a PROVE d * b <= d * a
  OBVIOUS
<1>1. PICK k \in Nat : a = b + k
  <2>1. a - b \in Nat
    OBVIOUS
  <2> QED BY <2>1
<1>2. d * a = d * b + d * k /\ d * k >= 0
  BY <1>1
<1> QED BY <1>2

\* Integer division is monotone.
LEMMA DivMonotone ==
  ASSUME NEW a \in Int, NEW b \in Int, a <= b, NEW d \in Nat \ {0}
  PROVE  a \div d \in Int /\ b \div d \in Int /\ a \div d <= b \div d
<1> DEFINE p == a \div d
           q == b \div d
<1>1. p \in Int /\ q \in Int
  OBVIOUS
<1>2. d * p <= a
  BY Z3
<1>3. b < d * q + d
  BY Z3
<1>4. SUFFICES ASSUME q < p PROVE FALSE
  BY <1>1
<1> HIDE DEF p, q
<1>5. PICK k \in Nat : p = q + 1 + k
  <2>1. p - q - 1 \in Nat
    BY <1>1, <1>4
  <2> QED BY <2>1, <1>1
<1>6. d * p = d * q + d + d * k /\ d * k >= 0 /\ d * q \in Int
  BY <1>5, <1>1
<1> QED BY <1>1, <1>2, <1>3, <1>5, <1>6

\* A multiple of the divisor can be divided apart.
LEMMA DivShift ==
  ASSUME NEW a \in Int, NEW d \in Nat \ {0}, NEW k \in Nat
  PROVE  (a + d * k) \div d = (a \div d) + k
<1> DEFINE p == a \div d
           m == d * k
           q == (a + m) \div d
<1>1. p \in Int /\ m \in Int /\ q \in Int
  OBVIOUS
<1>2. d * p <= a /\ a < d * p + d
  BY Z3
<1>3. d * q <= a + m /\ a + m < d * q + d
  BY <1>1, Z3
<1> HIDE DEF p, q
<1>4. d * (p + k) = d * p + m /\ d * (p + k) \in Int
  BY <1>1
<1> HIDE DEF m
<1> DEFINE x == p + k
<1>5. x \in Int /\ d * x <= a + m /\ a + m < d * x + d
  BY <1>1, <1>2, <1>4
<1> HIDE DEF x
<1>6. d * q < d * (x + 1) /\ d * x < d * (q + 1)
  BY <1>1, <1>3, <1>5
<1>7. q < x + 1 /\ x < q + 1
  BY <1>1, <1>5, <1>6, ProductOrder
<1> QED BY <1>1, <1>5, <1>7 DEF p, q, m, x

\* What the columns keep of a time does not change the order of times.
LEMMA KeptMonotone ==
  ASSUME NEW s \in Int, NEW t \in Int, s <= t
  PROVE  Kept(s) \in Int /\ Kept(t) \in Int /\ Kept(s) <= Kept(t)
<1> DEFINE p == (2 * s + Milli) \div (2 * Milli)
           q == (2 * t + Milli) \div (2 * Milli)
<1>1. Milli \in Nat \ {0} /\ 2 * Milli \in Nat \ {0}
  BY StoreAssumption
<1>2. p \in Int /\ q \in Int /\ p <= q
  BY <1>1, DivMonotone
<1> HIDE DEF p, q
<1>3. PICK k \in Nat : q = p + k
  <2>1. q - p \in Nat
    BY <1>2
  <2> QED BY <2>1, <1>2
<1>4. Milli * q = Milli * p + Milli * k /\ Milli * k >= 0 /\ Milli * p \in Int
  BY <1>1, <1>2, <1>3
<1> QED BY <1>4, <1>1 DEF Kept, p, q

\* What a time is off by, the columns are off by no more, up to their precision.
LEMMA KeptWithin ==
  ASSUME drift \in Nat, NEW s \in Int
  PROVE  Kept(s) \in Int /\ Overlap \in Nat /\ Kept(s + drift) <= Kept(s) + Overlap
<1> DEFINE q == (drift + Milli - 1) \div Milli
           p == (2 * s + Milli) \div (2 * Milli)
<1>1. Milli \in Nat \ {0} /\ 2 * Milli \in Nat \ {0} /\ drift \in Nat
  BY StoreAssumption
<1>2. q \in Nat /\ drift <= Milli * q
  <2>1. q \in Int /\ drift + Milli - 1 < Milli * q + Milli
    BY <1>1, Z3
  <2>2. q >= 0
    BY <1>1, Z3
  <2> QED BY <1>1, <2>1, <2>2
<1>3. p \in Int
  BY <1>1
<1>4. (2 * (s + Milli * q) + Milli) \div (2 * Milli) = p + q
  <2> DEFINE a == 2 * s + Milli
             d == 2 * Milli
  <2>1. a \in Int /\ d \in Nat \ {0} /\ 2 * (s + Milli * q) + Milli = a + d * q
    <3> HIDE DEF p, q
    <3> QED BY <1>1, <1>2, SMTT(30)
  <2>2. p = a \div d
    OBVIOUS
  <2> HIDE DEF a, d, q, p
  <2>3. (a + d * q) \div d = (a \div d) + q
    BY <1>2, <2>1, DivShift
  <2> QED BY <2>1, <2>2, <2>3 DEF d
<1> HIDE DEF p, q
<1>5. Milli * (p + q) = Milli * p + Milli * q
  BY <1>1, <1>2, <1>3
<1>6. s + drift <= s + Milli * q /\ s + Milli * q \in Int
  BY <1>1, <1>2
<1>7. Kept(s + drift) \in Int /\ Kept(s + Milli * q) \in Int /\ Kept(s + drift) <= Kept(s + Milli * q)
  BY <1>1, <1>6, KeptMonotone
<1>8. Kept(s) = Milli * p /\ Kept(s + Milli * q) = Milli * (p + q) /\ Overlap = Milli * q
  BY <1>4 DEF Kept, p, q, Overlap
<1> QED BY <1>1, <1>2, <1>3, <1>5, <1>7, <1>8

-----------------------------------------------------------------------------
\* A part divided by the whole is at most one.
LEMMA RateBounded ==
  ASSUME NEW n \in Nat, NEW d \in Nat, n <= d
  PROVE  Rate(n, d) \in Fraction
<1>1. CASE d = 0
  BY <1>1 DEF Rate, Fraction
<1>2. CASE d # 0
  <2> DEFINE q == (20000 * n + d) \div (2 * d)
  <2>1. 2 * d \in Nat \ {0} /\ 20000 * n + d \in Int
    BY <1>2
  <2>2. q \in Nat
    BY <2>1, <1>2, Z3
  <2>3. (2 * d) * q <= 20000 * n + d
    BY <2>1, Z3
  <2>r. Rate(n, d) = q
    BY <1>2 DEF Rate
  <2> HIDE DEF q
  <2>4. SUFFICES ASSUME q >= 10001 PROVE FALSE
    BY <2>2, <2>r, SMTT(40) DEF Fraction
  <2>5. PICK k \in Nat : q = 10001 + k
    <3>1. q - 10001 \in Nat
      BY <2>2, <2>4
    <3> QED BY <3>1, <2>2
  <2>6. (2 * d) * q = 20002 * d + 2 * (d * k) /\ d * k >= 0 /\ d * k \in Int
    BY <2>5
  <2> QED BY <2>3, <2>6, <1>2
<1> QED BY <1>1, <1>2

LEMMA RatedBounded ==
  ASSUME NEW S, IsFiniteSet(S), NEW T, T \subseteq S
  PROVE  Rated(T, S) \in Fraction
<1>1. IsFiniteSet(T) /\ Cardinality(T) <= Cardinality(S)
  BY FS_Subset
<1>2. Cardinality(S) \in Nat /\ Cardinality(T) \in Nat
  BY <1>1, FS_CardinalityType
<1>3. Rate(Cardinality(T), Cardinality(S)) \in Fraction
  BY <1>1, <1>2, RateBounded
<1> QED BY <1>3 DEF Rated

LEMMA FromFinite ==
  ASSUME NEW table, NEW w
  PROVE  IsFiniteSet(From(table, w))
<1>1. From(table, w) \subseteq Call
  BY DEF From
<1> QED BY <1>1, StoreAssumption, FS_Subset

\* What is measured are fractions, and requests are counted, whatever the tables hold.
LEMMA MeasuredFractions ==
  ASSUME NEW w
  PROVE  \A f \in Fractions : Measured(w)[f] \in Fraction
<1>1. SuccessRate(w) \in Fraction
  <2>1. IsFiniteSet(Traces(w)) /\ {c \in Traces(w) : row[c].status = "success"} \subseteq Traces(w)
    BY FromFinite DEF Traces
  <2>2. Rated({c \in Traces(w) : row[c].status = "success"}, Traces(w)) \in Fraction
    BY <2>1, RatedBounded, Zenon
  <2> QED BY <2>2 DEF SuccessRate
<1>2. ASSUME NEW types, NEW more, types \subseteq more
      PROVE  Rated(Typed(Events(w), types), Typed(Events(w), more)) \in Fraction
  <2>1. Typed(Events(w), types) \subseteq Typed(Events(w), more) /\ Typed(Events(w), more) \subseteq Events(w)
    BY <1>2 DEF Typed
  <2>2. IsFiniteSet(Events(w))
    BY FromFinite DEF Events
  <2>3. IsFiniteSet(Typed(Events(w), more))
    BY <2>1, <2>2, FS_Subset
  <2> QED BY <2>1, <2>3, RatedBounded, Zenon
<1>3. ToolHitRate(w) \in Fraction /\ SqlSuccessRate(w) \in Fraction
  <2>1. /\ {"TOOL_EXECUTE_SUCCESS"} \subseteq {"TOOL_EXECUTE_SUCCESS", "TOOL_EXECUTE_FAIL"}
        /\ {"SQL_EXECUTE_SUCCESS"} \subseteq {"SQL_EXECUTE_SUCCESS", "SQL_EXECUTE_FAIL"}
    OBVIOUS
  <2> QED BY <1>2, <2>1, Zenon DEF ToolHitRate, SqlSuccessRate
<1>4. ReplanRate(w) \in Fraction
  <2> DEFINE Ids == {row[c].trace_id : c \in Events(w)}
             Again == {row[c].trace_id : c \in Typed(Events(w), {"REPLAN_TRIGGER"})}
  <2>1. Again \subseteq Ids
    BY DEF Typed
  <2>2. IsFiniteSet(Ids)
    <3>1. IsFiniteSet(Events(w))
      BY FromFinite DEF Events
    <3> DEFINE id == [c \in Events(w) |-> row[c].trace_id]
    <3>2. id \in Surjection(Events(w), Ids)
      BY DEF Surjection
    <3> QED BY <3>1, <3>2, FS_Surjection
  <2> HIDE DEF Ids, Again
  <2>3. Rated(Again, Ids) \in Fraction
    BY <2>1, <2>2, RatedBounded
  <2> QED BY <2>3, Zenon DEF ReplanRate, Ids, Again
<1> QED BY <1>1, <1>3, <1>4 DEF Measured, Fractions

-----------------------------------------------------------------------------
\* The columns of the window are times.
RowsOK ==
  /\ \E S : snapshots \in Seq(S)
  /\ \A i \in DOMAIN snapshots : snapshots[i].window_start \in Int /\ snapshots[i].window_end \in Int

\* The past ends before what the thread will do begins, up to the drift: stored
\* windows before the window in hand, before the window of the end of the wait,
\* before now.
NotAfter(t) == \A i \in DOMAIN snapshots : snapshots[i].window_end <= Kept(t)

Ahead ==
  /\ NotAfter(now)
  /\ thread = "waiting" => due >= Interval /\ NotAfter(due - Interval)
  /\ thread = "woken" => due - drift <= now /\ NotAfter(due - Interval)
  /\ thread \in {"reading", "inserting"} =>
       window.end <= now /\ window.end = window.start + Interval /\ NotAfter(window.start + drift)

Inv == TypeOK /\ StoreOK /\ now >= Interval /\ RowsOK /\ Ahead /\ WindowsFollow /\ ThreadSurvives

LEMMA InitInv == Init => Inv
<1> SUFFICES ASSUME Init PROVE Inv
  OBVIOUS
<1>1. snapshots = <<>> /\ DOMAIN snapshots = {}
  BY DEF Init
<1>2. snapshots \in Seq({})
  BY <1>1
<1>3. TypeOK
  <2>1. ToSet(snapshots) = {}
    BY <1>1 DEF ToSet
  <2> QED BY <2>1, StoreAssumption, SnapshotAssumption DEF Init, StoreInit, TypeOK
<1>4. StoreOK
  BY StoreAssumption DEF Init, StoreInit, StoreOK
<1> QED BY <1>1, <1>2, <1>3, <1>4, SnapshotAssumption
        DEF Init, Inv, RowsOK, Ahead, NotAfter, WindowsFollow, ThreadSurvives

\* An insertion keeps what is known of the rows.
LEMMA InsertRow ==
  ASSUME Inv, thread = "inserting", NEW r,
         r = [metrics |-> metrics, window_start |-> Kept(window.start), window_end |-> Kept(window.end)],
         snapshots' = Append(snapshots, r), drift' = drift
  PROVE  /\ RowsOK' /\ WindowsFollow'
         /\ \A s \in ToSet(snapshots') : \A f \in Fractions : s.metrics[f] \in Fraction
         /\ \A i \in DOMAIN snapshots' : snapshots'[i].window_end <= Kept(window.end)
<1>1. PICK S : snapshots \in Seq(S)
  BY DEF Inv, RowsOK
<1>d. drift \in Nat /\ 2 * drift <= Interval
  BY StoreAssumption, SnapshotAssumption DEF Inv, TypeOK
<1> DEFINE first == Kept(window.start + drift)
<1>2. /\ window.start \in Int /\ window.end \in Int /\ window.start + drift \in Int
      /\ window.start <= window.end /\ window.start + drift <= window.end
  BY <1>d, StoreAssumption, SnapshotAssumption DEF Inv, TypeOK, Ahead
<1>3. /\ Kept(window.start) \in Int /\ Kept(window.end) \in Int /\ first \in Int /\ Overlap \in Nat
      /\ first <= Kept(window.end) /\ first <= Kept(window.start) + Overlap
  BY <1>d, <1>2, KeptMonotone, KeptWithin
<1>4. /\ r.window_start = Kept(window.start) /\ r.window_end = Kept(window.end)
      /\ \A f \in Fractions : r.metrics[f] \in Fraction
  <2>1. \A f \in Fractions : metrics[f] \in Fraction
    BY DEF Inv, TypeOK
  <2> QED BY <2>1
<1>5. /\ snapshots' \in Seq(S \cup {r})
      /\ Len(snapshots') = Len(snapshots) + 1
      /\ \A i \in 1..Len(snapshots) : snapshots'[i] = snapshots[i]
      /\ snapshots'[Len(snapshots) + 1] = r
      /\ DOMAIN snapshots = 1..Len(snapshots) /\ DOMAIN snapshots' = 1..(Len(snapshots) + 1)
      /\ Len(snapshots) \in Nat
  BY <1>1
<1>6. \A i \in DOMAIN snapshots : snapshots[i].window_end <= first
  BY DEF Inv, Ahead, NotAfter
<1> HIDE DEF first
<1>7. RowsOK'
  BY <1>3, <1>4, <1>5 DEF Inv, RowsOK
<1>8. WindowsFollow'
  <2>1. \A i \in 1..Len(snapshots) : snapshots[i].window_end <= r.window_start + Overlap
    BY <1>3, <1>4, <1>5, <1>6 DEF Inv, RowsOK
  <2> QED BY <1>4, <1>5, <2>1 DEF Inv, WindowsFollow, Overlap
<1>9. \A s \in ToSet(snapshots') : \A f \in Fractions : s.metrics[f] \in Fraction
  <2>1. \A s \in ToSet(snapshots) : \A f \in Fractions : s.metrics[f] \in Fraction
    BY DEF Inv, TypeOK
  <2>2. ToSet(snapshots') = ToSet(snapshots) \cup {r}
    BY <1>5 DEF ToSet
  <2> QED BY <1>4, <2>1, <2>2
<1>10. \A i \in DOMAIN snapshots' : snapshots'[i].window_end <= Kept(window.end)
  BY <1>3, <1>4, <1>5, <1>6 DEF Inv, RowsOK
<1> QED BY <1>7, <1>8, <1>9, <1>10

\* Later times are not before what is stored either.
LEMMA LaterNotAfter ==
  ASSUME Inv, NEW s \in Int, NEW t \in Int, s <= t, NotAfter(s)
  PROVE  NotAfter(t)
<1>1. Kept(s) \in Int /\ Kept(t) \in Int /\ Kept(s) <= Kept(t)
  BY KeptMonotone
<1> QED BY <1>1 DEF Inv, RowsOK, NotAfter

LEMMA NextInv == Inv /\ [Next]_vars => Inv'
<1> SUFFICES ASSUME Inv, [Next]_vars PROVE Inv'
  OBVIOUS
<1> USE SnapshotAssumption DEF Inv
<1>d. drift' = drift
  BY DEF Next, Work, Tick, Collect, Start, Wake, Begin, Read, Insert, Fail, End, Stop, Exit, Crash, scheduler, vars
<1> USE <1>d
<1>t. now \in Int /\ due \in Int /\ Interval \in Int /\ drift \in Nat /\ 2 * drift <= Interval
  BY StoreAssumption DEF TypeOK
\* As long as no row is inserted, the rows keep what is known of them.
<1>r. ASSUME snapshots' = snapshots
      PROVE  /\ RowsOK' /\ WindowsFollow'
             /\ \A s \in ToSet(snapshots') : \A f \in Fractions : s.metrics[f] \in Fraction
  BY <1>r DEF RowsOK, WindowsFollow, Overlap, TypeOK, ToSet
\* The tables are touched by the collector alone.
<1>s. StoreOK'
  <2>1. Record \/ Abandon \/ UNCHANGED store
    BY DEF Next, Work, Tick, Collect, Start, Wake, Begin, Read, Insert, Fail, End, Stop, Exit, Crash, vars
  <2>2. CASE UNCHANGED store
    BY <2>2 DEF store, StoreOK
  <2> QED BY <2>1, <2>2, StoreKept DEF TypeOK
<1>1. CASE Tick
  <2>1. now' \in Int /\ now <= now' /\ now' \in 0..MaxTime
    BY <1>1, StoreAssumption DEF Tick, TypeOK
  <2>2. NotAfter(now)' 
    <3>1. NotAfter(now')
      BY <2>1, <1>t, LaterNotAfter DEF Ahead
    <3> QED BY <3>1, <1>1 DEF NotAfter, Tick, scheduler, Kept
  <2>3. Ahead'
    BY <1>1, <2>1, <2>2, <1>t DEF Ahead, NotAfter, Tick, scheduler, TypeOK, Kept
  <2>4. TypeOK'
    BY <1>1, <2>1 DEF TypeOK, Tick, store, scheduler
  <2> QED BY <1>s, <1>1, <1>r, <2>1, <2>3, <2>4, <1>t DEF Tick, scheduler, ThreadSurvives
<1>2. CASE Collect
  <2>1. Record
    BY <1>2 DEF Collect
  <2>2. TypeOK'
    BY <1>2, <2>1, StoreKept DEF TypeOK, Collect, scheduler, StoreOK
  <2>3. Ahead'
    BY <1>2, <2>1, StoreKept DEF TypeOK, Ahead, NotAfter, Collect, scheduler, Kept
  <2> QED BY <1>s, <1>2, <1>r, <2>1, <2>2, <2>3, StoreKept DEF Collect, scheduler, ThreadSurvives, TypeOK
\* An action that begins a wait.
<1>w. ASSUME Wait(now + Interval), now' = now, snapshots' = snapshots
      PROVE  Ahead' /\ due' \in Nat
  BY <1>w, <1>t DEF Wait, Ahead, NotAfter, TypeOK, Kept
\* An action after which the thread neither waits nor works.
<1>q. ASSUME thread' \in {"none", "ended"}, now' = now, snapshots' = snapshots
      PROVE  Ahead'
  BY <1>q DEF Ahead, NotAfter, Kept
\* An action that leaves the thread alone.
<1>u. ASSUME UNCHANGED <<now, thread, due, window, metrics, snapshots>>
      PROVE  Ahead'
  BY <1>u DEF Ahead, NotAfter, Kept
<1>3. CASE Start
  <2>1. starts' \in 0..MaxStarts
    BY <1>3 DEF Start, TypeOK
  <2>2. Ahead' /\ due' \in Nat
    BY <1>3, <1>w, <1>u DEF Start, TypeOK
  <2> QED BY <1>s, <1>3, <1>r, <2>1, <2>2 DEF Start, Wait, store, TypeOK, ThreadSurvives
<1>4. CASE Wake
  <2>1. Ahead'
    BY <1>4 DEF Wake, Ahead, NotAfter, Kept
  <2> QED BY <1>s, <1>4, <1>r, <2>1 DEF Wake, store, TypeOK, ThreadSurvives
<1>13. CASE Begin
  <2>1. window' = [start |-> now - Interval, end |-> now]
    BY <1>13 DEF Begin, WindowUntil
  <2>2. due - Interval <= now - Interval + drift /\ NotAfter(due - Interval)
    BY <1>13, <1>t DEF Begin, Ahead
  <2>3. NotAfter(now - Interval + drift)
    BY <1>t, <2>2, LaterNotAfter
  <2>4. /\ thread' = "reading" /\ window'.end = now /\ window'.start = now - Interval
        /\ now' = now /\ snapshots' = snapshots
    BY <1>13, <2>1 DEF Begin
  <2>5. now = now - Interval + Interval
    BY <1>t
  <2>6. NotAfter(window.start + drift)'
    BY <2>3, <2>4 DEF NotAfter, Kept
  <2>7. Ahead'
    BY <1>t, <2>4, <2>5, <2>6 DEF Ahead, NotAfter, Kept
  <2> QED BY <1>s, <1>13, <1>r, <1>t, <2>1, <2>7 DEF Begin, store, TypeOK, ThreadSurvives
<1>5. CASE Read
  <2>1. \A f \in Fractions : metrics'[f] \in Fraction
    BY <1>5, MeasuredFractions DEF Read
  <2>2. Ahead'
    BY <1>5 DEF Read, Ahead, NotAfter, Kept
  <2>3. UNCHANGED <<now, call, row, at, app, due, window, snapshots, starts>> /\ thread' = "inserting"
    BY <1>5 DEF Read, store
  <2>4. window \in [start : Int, end : Int]
    BY <1>5 DEF Read, TypeOK
  <2>5. TypeOK'
    BY <1>r, <2>1, <2>3, <2>4 DEF TypeOK
  <2> QED BY <1>s, <1>r, <2>2, <2>3, <2>5 DEF ThreadSurvives
<1>6. CASE Insert
  <2>1. PICK r : /\ r = [metrics |-> metrics, window_start |-> Kept(window.start), window_end |-> Kept(window.end)]
                 /\ snapshots' = Append(snapshots, r)
    BY <1>6 DEF Insert
  <2>2. /\ RowsOK' /\ WindowsFollow'
        /\ \A s \in ToSet(snapshots') : \A f \in Fractions : s.metrics[f] \in Fraction
        /\ \A i \in DOMAIN snapshots' : snapshots'[i].window_end <= Kept(window.end)
    BY <1>6, <2>1, InsertRow DEF Insert
  <2>3. window.end \in Int /\ window.end <= now
    BY <1>6 DEF Insert, TypeOK, Ahead
  <2>4. Kept(window.end) \in Int /\ Kept(now) \in Int /\ Kept(window.end) <= Kept(now)
    BY <1>t, <2>3, KeptMonotone
  <2>5. \A i \in DOMAIN snapshots' : snapshots'[i].window_end <= Kept(now)
    BY <2>2, <2>4 DEF RowsOK
  <2>6. now' = now /\ thread' = "waiting" /\ due' = now + Interval /\ due' - Interval = now /\ due' \in Nat
    BY <1>6, <1>t DEF Insert, Wait, TypeOK
  <2>7. Ahead'
    BY <2>5, <2>6, <1>t DEF Ahead, NotAfter, Kept
  <2> QED BY <1>s, <1>6, <2>2, <2>6, <2>7 DEF Insert, Wait, store, TypeOK, ThreadSurvives
<1>7. CASE Fail
  <2>1. Ahead' /\ due' \in Nat
    BY <1>7, <1>w DEF Fail
  <2> QED BY <1>s, <1>7, <1>r, <2>1 DEF Fail, Wait, store, TypeOK, ThreadSurvives
<1>8. CASE End
  BY <1>s, <1>8, <1>r, <1>q DEF End, store, TypeOK, ThreadSurvives
<1>9. CASE Stop
  BY <1>s, <1>9, <1>r, <1>u DEF Stop, store, scheduler, TypeOK, ThreadSurvives
<1>10. CASE Exit
  BY <1>s, <1>10, <1>r, <1>q DEF Exit, Gone, store, TypeOK, ThreadSurvives
<1>11. CASE Crash
  <2>1. now' = now /\ snapshots' = snapshots /\ thread' = "none"
    BY <1>11 DEF Crash, Gone, Abandon
  <2>2. TypeOK'
    BY <1>11, <1>r, <2>1, StoreKept DEF Crash, Gone, TypeOK, StoreOK
  <2> QED BY <1>s, <1>11, <1>r, <1>q, <2>1, <2>2 DEF ThreadSurvives
<1>12. CASE UNCHANGED vars
  BY <1>s, <1>12, <1>r, <1>u DEF vars, store, scheduler, TypeOK, ThreadSurvives
<1> QED BY <1>1, <1>2, <1>3, <1>4, <1>5, <1>6, <1>7, <1>8, <1>9, <1>10, <1>11, <1>12, <1>13 DEF Next, Work

-----------------------------------------------------------------------------
(* No request is counted twice.                                            *)

\* The requests of the rows, and the traces before a time.
Requests(rows) == Total([i \in DOMAIN rows |-> rows[i].metrics.total_requests])

Early(calls, rows, times, t) ==
  {c \in Call : calls[c] = "stored" /\ rows[c].table = "agent_trace" /\ Kept(times[c]) < t}

\* What the snapshots may count if the last window ends at t: what lies before
\* it, and what lies before the end of the last but one once more, if waits may
\* end early.
Allowed(calls, rows, times, d, t) ==
  Cardinality(Early(calls, rows, times, t))
    + (IF d = 0 THEN 0 ELSE Cardinality(Early(calls, rows, times, t - Interval + d)))

CountedBefore(t) == Requests(snapshots) <= Allowed(call, row, at, drift, t)

Counting ==
  /\ \A i \in DOMAIN snapshots : snapshots[i].metrics.total_requests \in 0..Cardinality(Call)
  /\ CountedBefore(now)
  /\ thread \in {"waiting", "woken"} => CountedBefore(due - Interval)
  /\ thread \in {"reading", "inserting"} => CountedBefore(window.start + drift)
  /\ thread = "inserting" => metrics.total_requests \in 0..Cardinality(Traces(window))

LEMMA CallsCounted == Cardinality(Call) \in Nat
BY StoreAssumption, FS_CardinalityType

LEMMA RequestsAppended ==
  ASSUME NEW n \in Nat, NEW S, NEW rows \in Seq(S), \A i \in DOMAIN rows : rows[i].metrics.total_requests \in 0..n,
         NEW r, r.metrics.total_requests \in 0..n
  PROVE  /\ Requests(rows) \in Nat
         /\ Requests(Append(rows, r)) = Requests(rows) + r.metrics.total_requests
<1> DEFINE k == Len(rows)
           more == Append(rows, r)
           v == [i \in DOMAIN rows |-> rows[i].metrics.total_requests]
           u == [i \in DOMAIN more |-> more[i].metrics.total_requests]
<1>1. k \in Nat /\ DOMAIN rows = 1..k
  OBVIOUS
<1>2. /\ DOMAIN more = 1..(k + 1) /\ more[k + 1] = r
      /\ \A i \in 1..k : more[i] = rows[i]
  <2>1. rows \in Seq(S \cup {r})
    OBVIOUS
  <2> QED BY <2>1
<1> HIDE DEF more, k
<1>3. 1..(k + 1) = (1..k) \cup {k + 1} /\ k + 1 \notin 1..k
  BY <1>1
<1>4. v \in [1..k -> 0..n] /\ u \in [1..(k + 1) -> 0..n] /\ u[k + 1] = r.metrics.total_requests
  BY <1>1, <1>2, <1>3
<1>5. \A i \in 1..k : u[i] = v[i]
  BY <1>1, <1>2, <1>3
<1>6. IsFiniteSet(1..k)
  BY <1>1, FS_Interval
<1>7. Requests(rows) = Total(v) /\ Requests(more) = Total(u)
  BY DEF Requests
<1> HIDE DEF u, v
<1>8. Total(v) \in Nat
  BY <1>4, <1>6, TotalIsHeap
<1>9. Total(u) = u[k + 1] + Total(v)
  <2> DEFINE D == 1..k
             E == 1..(k + 1)
             i == k + 1
  <2>1. /\ IsFiniteSet(D) /\ E = D \cup {i} /\ i \notin D
        /\ v \in [D -> 0..n] /\ u \in [E -> 0..n] /\ \A d \in D : u[d] = v[d]
    BY <1>3, <1>4, <1>5, <1>6
  <2> HIDE DEF D, E, i
  <2>2. IsFiniteSet(E) /\ i \in E /\ E \ {i} = D
    BY <2>1, FS_AddElement
  <2>3. Total(u) = Cardinality(Heap(u, E)) /\ Total(v) = Cardinality(Heap(v, D))
    BY <2>1, <2>2, TotalIsHeap
  <2>4. Cardinality(Heap(u, E)) = u[i] + Cardinality(Heap(u, E \ {i}))
    BY <2>1, <2>2, HeapFacts
  <2>5. Heap(u, D) = Heap(v, D)
    BY <2>1 DEF Heap
  <2> QED BY <2>2, <2>3, <2>4, <2>5 DEF i
<1> QED
  BY <1>4, <1>7, <1>8, <1>9 DEF more

\* What is stored stays, and later is more.
LEMMA EarlyGrows ==
  ASSUME NEW calls, NEW rows, NEW times \in [Call -> 0..MaxTime],
         NEW calls2, NEW rows2, NEW times2,
         \A c \in Call : calls[c] = "stored" => calls2[c] = "stored" /\ rows2[c] = rows[c] /\ times2[c] = times[c],
         NEW s \in Int, NEW t \in Int, s <= t
  PROVE  /\ Cardinality(Early(calls, rows, times, s)) \in Nat
         /\ Cardinality(Early(calls2, rows2, times2, t)) \in Nat
         /\ Cardinality(Early(calls, rows, times, s)) <= Cardinality(Early(calls2, rows2, times2, t))
<1>1. Early(calls, rows, times, s) \subseteq Early(calls2, rows2, times2, t)
  <2> SUFFICES ASSUME NEW c \in Early(calls, rows, times, s)
               PROVE  c \in Early(calls2, rows2, times2, t)
    OBVIOUS
  <2>1. c \in Call /\ calls[c] = "stored" /\ rows[c].table = "agent_trace" /\ Kept(times[c]) < s
    BY DEF Early
  <2>2. times[c] \in Int
    BY <2>1, StoreAssumption
  <2>3. Kept(times[c]) \in Int
    BY <2>2, KeptMonotone
  <2> QED BY <2>1, <2>3 DEF Early
<1>2. Early(calls2, rows2, times2, t) \in SUBSET Call
  BY DEF Early
<1> HIDE DEF Early
<1>3. IsFiniteSet(Early(calls2, rows2, times2, t))
  BY <1>2, StoreAssumption, FS_Subset
<1> QED BY <1>1, <1>3, FS_Subset, FS_CardinalityType

LEMMA AllowedGrows ==
  ASSUME NEW calls, NEW rows, NEW times \in [Call -> 0..MaxTime],
         NEW calls2, NEW rows2, NEW times2,
         \A c \in Call : calls[c] = "stored" => calls2[c] = "stored" /\ rows2[c] = rows[c] /\ times2[c] = times[c],
         NEW s \in Int, NEW t \in Int, s <= t, NEW d \in Nat
  PROVE  /\ Allowed(calls, rows, times, d, s) \in Nat
         /\ Allowed(calls2, rows2, times2, d, t) \in Nat
         /\ Allowed(calls, rows, times, d, s) <= Allowed(calls2, rows2, times2, d, t)
<1> DEFINE u == s - Interval + d
           v == t - Interval + d
<1>1. u \in Int /\ v \in Int /\ u <= v
  BY StoreAssumption, SnapshotAssumption
<1> HIDE DEF u, v
<1>2. /\ Cardinality(Early(calls, rows, times, s)) \in Nat
      /\ Cardinality(Early(calls2, rows2, times2, t)) \in Nat
      /\ Cardinality(Early(calls, rows, times, s)) <= Cardinality(Early(calls2, rows2, times2, t))
  BY EarlyGrows
<1>3. /\ Cardinality(Early(calls, rows, times, u)) \in Nat
      /\ Cardinality(Early(calls2, rows2, times2, v)) \in Nat
      /\ Cardinality(Early(calls, rows, times, u)) <= Cardinality(Early(calls2, rows2, times2, v))
  BY <1>1, EarlyGrows
<1> QED BY <1>2, <1>3 DEF Allowed, u, v

\* The traces before a window and those in it are the traces before its end.
LEMMA EarlyAndIn ==
  ASSUME StoreOK, NEW w \in [start : Int, end : Int], w.start <= w.end
  PROVE  /\ Cardinality(Traces(w)) \in 0..Cardinality(Call)
         /\ Cardinality(Early(call, row, at, w.start)) \in Nat
         /\ Cardinality(Early(call, row, at, w.end)) = Cardinality(Early(call, row, at, w.start)) + Cardinality(Traces(w))
<1> DEFINE A == Early(call, row, at, w.start)
           B == Traces(w)
           U == Early(call, row, at, w.end)
<1>1. \A c \in Call : Kept(at[c]) \in Int
  BY StoreAssumption, KeptMonotone DEF StoreOK
<1>2. A \cap B = {} /\ U = A \cup B
  BY <1>1 DEF Early, Traces, From
<1>3. A \in SUBSET Call /\ B \in SUBSET Call
  BY DEF Early, Traces, From
<1> HIDE DEF A, B, U
<1>4. /\ IsFiniteSet(A) /\ IsFiniteSet(B) /\ Cardinality(A) \in Nat /\ Cardinality(B) \in Nat
      /\ Cardinality(B) <= Cardinality(Call)
  BY <1>3, StoreAssumption, FS_Subset, FS_CardinalityType
<1>5. Cardinality(A \cup B) = Cardinality(A) + Cardinality(B) - Cardinality({})
  BY <1>2, <1>4, FS_Union
<1>6. Cardinality(U) = Cardinality(A) + Cardinality(B) /\ Cardinality(B) \in 0..Cardinality(Call)
  BY <1>2, <1>4, <1>5, CallsCounted, FS_EmptySet
<1> QED BY <1>4, <1>6 DEF A, B, U

LEMMA InitCounting == Init => Counting
<1> SUFFICES ASSUME Init PROVE Counting
  OBVIOUS
<1>1. snapshots = <<>> /\ DOMAIN snapshots = {} /\ thread = "none"
  BY DEF Init
<1>2. Requests(snapshots) = 0
  <2> DEFINE v == [i \in DOMAIN snapshots |-> snapshots[i].metrics.total_requests]
  <2>1. DOMAIN v = {}
    BY <1>1
  <2> HIDE DEF v
  <2>2. Total(v) = 0
    BY <2>1, TotalOfNone
  <2> QED BY <2>2 DEF v, Requests
<1>3. Allowed(call, row, at, drift, now) \in Nat
  <2>1. at \in [Call -> 0..MaxTime] /\ now \in Int
    BY StoreAssumption, SnapshotAssumption DEF Init, StoreInit
  <2>2. ASSUME NEW t \in Int
        PROVE  Cardinality(Early(call, row, at, t)) \in Nat
    <3>1. Early(call, row, at, t) \in SUBSET Call
      BY DEF Early
    <3> QED BY <3>1, StoreAssumption, FS_Subset, FS_CardinalityType
  <2>3. drift \in Nat /\ now - Interval + drift \in Int
    BY <2>1, StoreAssumption, SnapshotAssumption DEF Init
  <2> QED BY <2>1, <2>2, <2>3 DEF Allowed
<1> QED BY <1>1, <1>2, <1>3 DEF Counting, CountedBefore

LEMMA NextCounting ==
  ASSUME Inv, Counting, [Next]_vars
  PROVE  Counting'
<1>d. drift' = drift
  BY DEF Next, Work, Tick, Collect, Start, Wake, Begin, Read, Insert, Fail, End, Stop, Exit, Crash, scheduler, vars
<1> USE <1>d
<1>1. /\ TypeOK /\ StoreOK /\ RowsOK /\ Ahead /\ now \in Int /\ due \in Int
      /\ Interval \in Nat /\ drift \in Nat /\ 2 * drift <= Interval
      /\ at \in [Call -> 0..MaxTime] /\ Requests(snapshots) \in Nat
  <2>1. PICK S : snapshots \in Seq(S)
    BY DEF Inv, RowsOK
  <2>2. Requests(snapshots) \in Nat
    <3>1. [metrics |-> [total_requests |-> 0]].metrics.total_requests \in 0..Cardinality(Call)
      BY CallsCounted
    <3> QED BY <2>1, <3>1, CallsCounted, RequestsAppended DEF Counting
  <2> QED BY <2>2, StoreAssumption, SnapshotAssumption DEF Inv, TypeOK
\* What is stored stays.
<1>2. \A c \in Call : call[c] = "stored" => call'[c] = "stored" /\ row'[c] = row[c] /\ at'[c] = at[c]
  <2>1. CASE UNCHANGED store
    BY <2>1 DEF store
  <2>2. CASE Abandon
    BY <1>1, <2>2 DEF Abandon
  <2>3. CASE Record
    <3>1. PICK d \in Call : Stamp(d) \/ Commit(d) \/ Refuse(d)
      BY <2>3 DEF Record
    <3> QED BY <1>1, <3>1 DEF Stamp, Commit, Refuse, StoreOK
  <2>4. Record \/ Abandon \/ UNCHANGED store
    BY DEF Next, Work, Tick, Collect, Start, Wake, Begin, Read, Insert, Fail, End, Stop, Exit, Crash, vars
  <2> QED BY <2>1, <2>2, <2>3, <2>4
<1>3. \A s, t \in Int : s <= t =>
        /\ Allowed(call, row, at, drift, s) \in Nat
        /\ Allowed(call', row', at', drift', t) \in Nat
        /\ Allowed(call, row, at, drift, s) <= Allowed(call', row', at', drift', t)
  <2>1. \A s, t \in Int : s <= t =>
          /\ Allowed(call, row, at, drift, s) \in Nat
          /\ Allowed(call', row', at', drift, t) \in Nat
          /\ Allowed(call, row, at, drift, s) <= Allowed(call', row', at', drift, t)
    BY <1>1, <1>2, AllowedGrows
  <2> QED BY <1>d, <2>1
\* As long as no row is inserted, what lies before a time stays enough for it and for later ones.
<1>4. ASSUME snapshots' = snapshots
      PROVE  /\ \A i \in DOMAIN snapshots' : snapshots'[i].metrics.total_requests \in 0..Cardinality(Call)
             /\ \A s, t \in Int : s <= t /\ Requests(snapshots) <= Allowed(call, row, at, drift, s)
                  => Requests(snapshots') <= Allowed(call', row', at', drift', t)
  BY <1>1, <1>3, <1>4 DEF Counting
<1>5. ASSUME snapshots' = snapshots, now' = now
      PROVE  CountedBefore(now)'
  BY <1>1, <1>4, <1>5 DEF Counting, CountedBefore
\* An action that begins a wait.
<1>6. ASSUME Wait(now + Interval), now' = now, snapshots' = snapshots
      PROVE  Counting'
  <2>1. thread' = "waiting" /\ due' - Interval = now
    BY <1>1, <1>6 DEF Wait
  <2>2. CountedBefore(due - Interval)'
    BY <1>1, <1>4, <1>6, <2>1 DEF Counting, CountedBefore
  <2> QED BY <1>4, <1>5, <1>6, <2>1, <2>2 DEF Counting
\* An action after which the thread neither waits nor works.
<1>7. ASSUME thread' \in {"none", "ended"}, now' = now, snapshots' = snapshots
      PROVE  Counting'
  BY <1>4, <1>5, <1>7 DEF Counting
\* An action that leaves the thread alone, while time may pass.
<1>8. ASSUME UNCHANGED scheduler, now' \in Int, now <= now'
      PROVE  Counting'
  <2>1. snapshots' = snapshots /\ thread' = thread /\ due' = due /\ window' = window /\ metrics' = metrics
    BY <1>8 DEF scheduler
  <2>2. CountedBefore(now)'
    BY <1>1, <1>4, <1>8, <2>1 DEF Counting, CountedBefore
  <2>3. thread \in {"waiting", "woken"} => CountedBefore(due - Interval)'
    BY <1>1, <1>4, <2>1 DEF Counting, CountedBefore
  <2>4. thread \in {"reading", "inserting"} => window \in [start : Int, end : Int] /\ CountedBefore(window.start + drift)'
    <3> SUFFICES ASSUME thread \in {"reading", "inserting"}
                 PROVE  window \in [start : Int, end : Int] /\ CountedBefore(window.start + drift)'
      OBVIOUS
    <3> DEFINE next == window.start + drift
    <3>1. window \in [start : Int, end : Int] /\ next \in Int /\ next <= next
      BY <1>1 DEF TypeOK
    <3>2. Requests(snapshots) <= Allowed(call, row, at, drift, next)
      BY DEF Counting, CountedBefore
    <3> HIDE DEF next
    <3>3. Requests(snapshots') <= Allowed(call', row', at', drift', next)
      BY <1>4, <2>1, <3>1, <3>2
    <3> QED BY <2>1, <3>1, <3>3 DEF CountedBefore, next
  <2>5. thread = "inserting" => metrics'.total_requests \in 0..Cardinality(Traces(window)')
    <3> SUFFICES ASSUME thread = "inserting"
                 PROVE  metrics.total_requests \in 0..Cardinality(Traces(window)')
      BY <2>1
    <3>1. Traces(window) \subseteq Traces(window)'
      BY <1>2, <2>1 DEF Traces, From
    <3>2. Traces(window)' \in SUBSET Call /\ metrics.total_requests \in 0..Cardinality(Traces(window))
      BY DEF Traces, From, Counting
    <3> HIDE DEF Traces
    <3>3. IsFiniteSet(Traces(window)')
      BY <3>2, StoreAssumption, FS_Subset
    <3>4. /\ Cardinality(Traces(window)) <= Cardinality(Traces(window)')
          /\ Cardinality(Traces(window)) \in Nat /\ Cardinality(Traces(window)') \in Nat
      BY <3>1, <3>3, FS_Subset, FS_CardinalityType
    <3> QED BY <3>2, <3>4
  <2> QED BY <1>4, <2>1, <2>2, <2>3, <2>4, <2>5 DEF Counting
<1>9. CASE Tick
  BY <1>1, <1>8, <1>9 DEF Tick
<1>10. CASE Collect
  <2>1. now' = now
    BY <1>1, <1>10, StoreKept DEF Collect, TypeOK
  <2> QED BY <1>1, <1>8, <1>10, <2>1 DEF Collect
<1>11. CASE Start
  <2>1. now' = now /\ snapshots' = snapshots /\ (Wait(now + Interval) \/ UNCHANGED scheduler)
    BY <1>11 DEF Start, scheduler
  <2> QED BY <1>1, <1>6, <1>8, <2>1
<1>12. CASE Wake
  <2>1. /\ thread = "waiting" /\ thread' = "woken" /\ UNCHANGED <<now, due, window, snapshots>>
    BY <1>12 DEF Wake
  <2>2. CountedBefore(due - Interval)'
    BY <1>1, <1>4, <2>1 DEF Counting, CountedBefore
  <2> QED BY <1>4, <1>5, <2>1, <2>2 DEF Counting
<1>21. CASE Begin
  <2>1. /\ thread = "woken" /\ thread' = "reading"
        /\ window' = [start |-> now - Interval, end |-> now] /\ UNCHANGED <<now, snapshots>>
    BY <1>21 DEF Begin, WindowUntil
  <2>2. /\ window'.start + drift = now - Interval + drift /\ due - Interval <= now - Interval + drift
        /\ due - Interval \in Int /\ now - Interval + drift \in Int
    BY <1>1, <2>1 DEF Ahead
  <2>3. Requests(snapshots) <= Allowed(call, row, at, drift, due - Interval)
    BY <2>1 DEF Counting, CountedBefore
  <2>4. Requests(snapshots') <= Allowed(call', row', at', drift', now - Interval + drift)
    BY <1>4, <2>1, <2>2, <2>3
  <2>5. CountedBefore(window.start + drift)'
    BY <2>2, <2>4 DEF CountedBefore
  <2> QED BY <1>4, <1>5, <2>1, <2>5 DEF Counting
<1>13. CASE Read
  <2>1. /\ thread = "reading" /\ thread' = "inserting" /\ metrics' = Measured(window)
        /\ UNCHANGED <<now, call, row, at, window, snapshots>>
    BY <1>13 DEF Read, store
  <2>2. window \in [start : Int, end : Int] /\ window.start <= window.end
        /\ window.start + drift \in Int
    BY <1>1, <2>1 DEF TypeOK, Ahead
  <2>3. Measured(window).total_requests = Cardinality(Traces(window))
    BY DEF Measured
  <2>4. Cardinality(Traces(window)) \in Nat
    BY <1>1, <2>2, EarlyAndIn, CallsCounted
  <2>5. metrics'.total_requests \in 0..Cardinality(Traces(window)')
    <3>1. Traces(window)' = Traces(window)
      BY <2>1 DEF Traces, From
    <3> QED BY <2>1, <2>3, <2>4, <3>1
  <2>6. CountedBefore(window.start + drift)'
    <3>1. Requests(snapshots) <= Allowed(call, row, at, drift, window.start + drift)
      BY <2>1 DEF Counting, CountedBefore
    <3>2. Requests(snapshots') <= Allowed(call', row', at', drift', window.start + drift)
      BY <1>4, <2>1, <2>2, <3>1
    <3> QED BY <2>1, <3>2 DEF CountedBefore
  <2> QED BY <1>4, <1>5, <2>1, <2>5, <2>6 DEF Counting
<1>14. CASE Insert
  <2> DEFINE r == [metrics |-> metrics, window_start |-> Kept(window.start), window_end |-> Kept(window.end)]
  <2>1. /\ thread = "inserting" /\ snapshots' = Append(snapshots, r) /\ Wait(now + Interval)
        /\ UNCHANGED <<now, call, row, at>>
    BY <1>14 DEF Insert, store
  <2>2. window \in [start : Int, end : Int] /\ window.start <= window.end /\ window.end <= now
        /\ window.end = window.start + Interval
    BY <1>1, <2>1 DEF TypeOK, Ahead
  <2>3. r.metrics = metrics
    OBVIOUS
  <2> HIDE DEF r
  <2>4. /\ Cardinality(Traces(window)) \in 0..Cardinality(Call)
        /\ Cardinality(Early(call, row, at, window.start)) \in Nat
        /\ Cardinality(Early(call, row, at, window.end))
             = Cardinality(Early(call, row, at, window.start)) + Cardinality(Traces(window))
    BY <1>1, <2>2, EarlyAndIn
  <2>5. r.metrics.total_requests \in 0..Cardinality(Traces(window))
    BY <2>1, <2>3 DEF Counting
  <2>6. r.metrics.total_requests \in 0..Cardinality(Call)
    BY <2>4, <2>5, CallsCounted
  <2>7. PICK S : snapshots \in Seq(S)
    BY <1>1 DEF RowsOK
  <2>8. Requests(Append(snapshots, r)) = Requests(snapshots) + r.metrics.total_requests
    BY <2>6, <2>7, CallsCounted, RequestsAppended DEF Counting
  <2>9. Requests(snapshots) <= Allowed(call, row, at, drift, window.start + drift)
    BY <2>1 DEF Counting, CountedBefore
  <2>10. Requests(snapshots') <= Allowed(call, row, at, drift, window.end)
    <3> DEFINE early(t) == Cardinality(Early(call, row, at, t))
    <3>1. \A s, t \in Int : s <= t => early(s) \in Nat /\ early(t) \in Nat /\ early(s) <= early(t)
      BY <1>1, EarlyGrows
    <3> DEFINE start == window.start
               next  == window.start + drift
               last  == (window.start + drift) - Interval + drift
    <3>2. /\ start \in Int /\ next \in Int /\ last \in Int /\ last <= start /\ start <= next
          /\ window.end - Interval + drift = next /\ (drift = 0 => next = start)
      BY <1>1, <2>2
    <3>3. Requests(snapshots) <= early(next) + (IF drift = 0 THEN 0 ELSE early(last))
      BY <2>9 DEF Allowed
    <3>4. Allowed(call, row, at, drift, window.end) = early(window.end) + (IF drift = 0 THEN 0 ELSE early(next))
      BY <3>2 DEF Allowed
    <3>5. early(window.end) = early(start) + Cardinality(Traces(window)) /\ Cardinality(Traces(window)) \in Nat
      BY <2>4, CallsCounted
    <3>6. /\ early(start) \in Nat /\ early(next) \in Nat /\ early(last) \in Nat
          /\ early(last) <= early(start) /\ early(start) <= early(next)
      BY <3>1, <3>2
    <3>7. Requests(snapshots') = Requests(snapshots) + r.metrics.total_requests
      BY <2>1, <2>8
    <3> DEFINE n == Requests(snapshots)
               m == r.metrics.total_requests
               traces == Cardinality(Traces(window))
    <3>8. n \in Nat /\ m \in 0..traces
      BY <1>1, <2>5
    <3>9. CASE drift = 0
      <4>1. early(next) = early(start)
        BY <3>2, <3>9
      <4> HIDE DEF early, start, next, last, n, m, traces
      <4> QED BY <3>3, <3>4, <3>5, <3>6, <3>7, <3>8, <3>9, <4>1 DEF n, m, traces
    <3>10. CASE drift # 0
      <4> HIDE DEF early, start, next, last, n, m, traces
      <4> QED BY <3>3, <3>4, <3>5, <3>6, <3>7, <3>8, <3>10 DEF n, m, traces
    <3> QED BY <3>9, <3>10
  <2>11. Requests(snapshots') <= Allowed(call', row', at', drift', now)
    <3>1. Requests(snapshots') \in Nat
      BY <1>1, <2>1, <2>4, <2>5, <2>8
    <3>2. Allowed(call, row, at, drift, window.end) <= Allowed(call', row', at', drift', now)
          /\ Allowed(call', row', at', drift', now) \in Nat /\ Allowed(call, row, at, drift, window.end) \in Nat
      BY <1>1, <1>3, <2>2
    <3> QED BY <2>10, <3>1, <3>2
  <2>12. \A i \in DOMAIN snapshots' : snapshots'[i].metrics.total_requests \in 0..Cardinality(Call)
    <3>1. /\ DOMAIN snapshots' = 1..(Len(snapshots) + 1) /\ DOMAIN snapshots = 1..Len(snapshots) /\ Len(snapshots) \in Nat
          /\ snapshots'[Len(snapshots) + 1] = r
          /\ \A i \in 1..Len(snapshots) : snapshots'[i] = snapshots[i]
      <4>1. snapshots \in Seq(S \cup {r})
        BY <2>7
      <4> QED BY <2>1, <4>1
    <3> QED BY <2>6, <3>1 DEF Counting
  <2>13. thread' = "waiting" /\ due' - Interval = now /\ now' = now
    BY <1>1, <2>1 DEF Wait
  <2>14. CountedBefore(now)' /\ CountedBefore(due - Interval)'
    BY <2>11, <2>13 DEF CountedBefore
  <2> QED BY <2>12, <2>13, <2>14 DEF Counting
<1>15. CASE Fail
  BY <1>6, <1>15 DEF Fail
<1>16. CASE End
  BY <1>7, <1>16 DEF End
<1>17. CASE Stop
  BY <1>1, <1>8, <1>17 DEF Stop
<1>18. CASE Exit
  BY <1>7, <1>18 DEF Exit, Gone
<1>19. CASE Crash
  BY <1>7, <1>19 DEF Crash, Gone, Abandon
<1>20. CASE UNCHANGED vars
  BY <1>1, <1>8, <1>20 DEF vars
<1> QED
  BY <1>9, <1>10, <1>11, <1>12, <1>13, <1>14, <1>15, <1>16, <1>17, <1>18, <1>19, <1>20, <1>21 DEF Next, Work

-----------------------------------------------------------------------------
\* In every reachable state the windows lie behind the one to come, and no more
\* requests are counted than there are traces behind it (_run, create_snapshot).
THEOREM Invariance == Spec => [](Inv /\ Counting)
<1>1. Init => Inv /\ Counting
  BY InitInv, InitCounting
<1>2. Inv /\ Counting /\ [Next]_vars => Inv' /\ Counting'
  BY NextInv, NextCounting
<1> QED BY <1>1, <1>2, PTL DEF Spec

\* Every variable keeps its type; the rates of a snapshot that compare a part
\* with the whole never exceed one (MetricsSnapshotService.create_snapshot).
THEOREM TypeCorrect == Spec => []TypeOK
BY Invariance, PTL DEF Inv

\* Windows of stored snapshots overlap no further than a wait may end early, and
\* not at all if none does, however late a turn is and whatever fails or
\* restarts in between (MetricsSnapshotScheduler._run).
THEOREM NoOverlap == Spec => []WindowsFollow
BY Invariance, PTL DEF Inv

\* No request is in two snapshots unless a wait ended early, and none in three,
\* also at the very end of a window and when the thread or the application
\* starts again (MetricsSnapshotService.create_snapshot).
THEOREM NoneCountedTwice == Spec => []CountedOnce
<1>1. Inv /\ Counting => CountedOnce
  <2> SUFFICES ASSUME Inv, Counting PROVE CountedOnce
    OBVIOUS
  <2> DEFINE stored == {c \in Call : call[c] = "stored" /\ row[c].table = "agent_trace"}
             early(t) == Cardinality(Early(call, row, at, t))
             second == now - Interval + drift
  <2>1. Requests(snapshots) <= Allowed(call, row, at, drift, now)
    BY DEF Counting, CountedBefore
  <2>2. \A t : Early(call, row, at, t) \subseteq stored /\ stored \in SUBSET Call
    BY DEF Early
  <2> HIDE DEF stored
  <2>3. IsFiniteSet(stored) /\ Cardinality(stored) \in Nat
    BY <2>2, StoreAssumption, FS_Subset, FS_CardinalityType
  <2>4. \A t : early(t) <= Cardinality(stored) /\ early(t) \in Nat
    BY <2>2, <2>3, FS_Subset, FS_CardinalityType
  <2>5. PICK S : snapshots \in Seq(S)
    BY DEF Inv, RowsOK
  <2>6. Requests(snapshots) \in Nat
    <3>1. [metrics |-> [total_requests |-> 0]].metrics.total_requests \in 0..Cardinality(Call)
      BY CallsCounted
    <3> QED BY <2>5, <3>1, CallsCounted, RequestsAppended DEF Counting
  <2>7. Requests(snapshots) <= Cardinality(stored) * (IF drift = 0 THEN 1 ELSE 2)
    <3>1. Allowed(call, row, at, drift, now) = early(now) + (IF drift = 0 THEN 0 ELSE early(second))
      BY DEF Allowed
    <3>2. /\ early(now) <= Cardinality(stored) /\ early(now) \in Nat
          /\ early(second) <= Cardinality(stored) /\ early(second) \in Nat
      BY <2>4
    <3> HIDE DEF early, second
    <3> QED BY <2>1, <2>3, <2>6, <3>1, <3>2
  <2> QED BY <2>7 DEF stored, Requests, CountedOnce
<1> QED BY <1>1, Invariance, PTL

\* Only a stopped application has a thread that has ended.
THEOREM Survival == Spec => []ThreadSurvives
BY Invariance, PTL DEF Inv

-----------------------------------------------------------------------------
(* Days and times of the clock.                                            *)

LEMMA DayFacts == Day \in Nat \ {0} /\ ReportTime \in 0..(Day - 1) /\ Drift \in 0..ReportTime
                  /\ Lag \in Nat \ {0} /\ ReportTime + Lag < Day /\ Day <= MaxTime /\ MaxTime \in Nat
  BY ReportAssumption, StoreAssumption

\* The day of a time is the one it is in.
LEMMA DayOf ==
  ASSUME NEW t \in Int
  PROVE  /\ t \div Day \in Int /\ (t \div Day) * Day <= t /\ t < (t \div Day) * Day + Day
<1> DEFINE q == t \div Day
<1>1. q \in Int
  BY DayFacts
<1>2. Day * q <= t /\ t < Day * q + Day
  BY DayFacts, Z3
<1>3. q * Day = Day * q
  BY <1>1, DayFacts
<1> QED
  BY <1>1, <1>2, <1>3

LEMMA DaysApart ==
  ASSUME NEW j \in Int, NEW k \in Int, j < k
  PROVE  j * Day + Day <= k * Day /\ j * Day \in Int /\ k * Day \in Int
<1>1. PICK i \in Nat : k = j + 1 + i
  <2>1. k - j - 1 \in Nat
    OBVIOUS
  <2> QED
    BY <2>1
<1>2. k * Day = j * Day + Day + i * Day /\ i * Day >= 0 /\ i * Day \in Int /\ j * Day \in Int
  BY <1>1, DayFacts
<1> QED
  BY <1>2, DayFacts

LEMMA DayIs ==
  ASSUME NEW t \in Int, NEW k \in Int, k * Day <= t, t < k * Day + Day
  PROVE  t \div Day = k
<1> DEFINE q == t \div Day
<1>1. q \in Int /\ q * Day <= t /\ t < q * Day + Day /\ k * Day \in Int /\ q * Day \in Int /\ Day \in Int
  BY DayOf, DayFacts
<1> HIDE DEF q
<1>2. ~ (q < k)
  BY <1>1, DaysApart
<1>3. ~ (k < q)
  BY <1>1, DaysApart
<1> QED
  BY <1>1, <1>2, <1>3 DEF q

\* A batch is due once a day, on that day.
LEMMA ReportAtFacts ==
  ASSUME NEW k \in Int
  PROVE  /\ ReportAt(k) \in Int /\ k * Day \in Int /\ ReportAt(k) = k * Day + ReportTime
         /\ ReportAt(k) \div Day = k /\ ReportAt(k + 1) = ReportAt(k) + Day
<1>1. k * Day \in Int /\ (k + 1) * Day = k * Day + Day
  BY DayFacts
<1>2. ReportAt(k) \in Int /\ k * Day <= ReportAt(k) /\ ReportAt(k) < k * Day + Day
  BY <1>1, DayFacts DEF ReportAt
<1>3. ReportAt(k) \div Day = k
  BY <1>2, DayIs
<1> QED
  BY <1>1, <1>2, <1>3, DayFacts DEF ReportAt

LEMMA ReportsApart ==
  ASSUME NEW j \in Int, NEW k \in Int
  PROVE  j < k <=> ReportAt(j) < ReportAt(k)
<1>1. ReportAt(j) = j * Day + ReportTime /\ ReportAt(k) = k * Day + ReportTime
      /\ j * Day \in Int /\ k * Day \in Int /\ ReportTime \in Int /\ Day \in Int /\ Day > 0
  BY ReportAtFacts, DayFacts
<1>2. j < k => ReportAt(j) < ReportAt(k)
  BY <1>1, DaysApart
<1>3. k < j => ReportAt(k) < ReportAt(j)
  BY <1>1, DaysApart
<1>4. j = k => ReportAt(j) = ReportAt(k)
  OBVIOUS
<1>5. j < k \/ k < j \/ j = k
  OBVIOUS
<1> QED
  BY <1>1, <1>2, <1>3, <1>4, <1>5

\* A wait ends when the next batch is due, within a day.
LEMMA NextRunFacts ==
  ASSUME NEW t \in Int
  PROVE  \E k \in Int : /\ NextRun(t) = ReportAt(k) /\ t < ReportAt(k) /\ ReportAt(k) <= t + Day
                        /\ t >= 0 => k \in Nat
<1> DEFINE q == t \div Day
<1>1. q \in Int /\ q * Day <= t /\ t < q * Day + Day
  BY DayOf
<1>2. ReportAt(q) = q * Day + ReportTime /\ ReportAt(q + 1) = ReportAt(q) + Day /\ q * Day \in Int
  BY <1>1, ReportAtFacts
<1>3. t >= 0 => q \in Nat
  <2>1. ASSUME t >= 0, q < 0
        PROVE  FALSE
    <3>1. q * Day + Day <= 0 * Day
      BY <1>1, <2>1, DaysApart
    <3> HIDE DEF q
    <3> QED
      BY <1>1, <1>2, <2>1, <3>1, DayFacts
  <2> QED
    BY <1>1, <2>1
<1>4. NextRun(t) = IF t >= ReportAt(q) THEN ReportAt(q + 1) ELSE ReportAt(q)
  BY DEF NextRun
<1> HIDE DEF q
<1>5. CASE t >= ReportAt(q)
  <2>1. NextRun(t) = ReportAt(q + 1) /\ t < ReportAt(q + 1) /\ ReportAt(q + 1) <= t + Day
        /\ q + 1 \in Int /\ (t >= 0 => q + 1 \in Nat)
    BY <1>1, <1>2, <1>3, <1>4, <1>5, DayFacts
  <2> QED
    BY <2>1
<1>6. CASE ~ (t >= ReportAt(q))
  <2>1. NextRun(t) = ReportAt(q) /\ t < ReportAt(q) /\ ReportAt(q) <= t + Day
    BY <1>1, <1>2, <1>4, <1>6, DayFacts
  <2> QED
    BY <1>1, <1>3, <2>1
<1> QED
  BY <1>5, <1>6

-----------------------------------------------------------------------------
(* The inductive invariant.                                                *)

IsJob(j) ==
  /\ j = [type |-> j.type, date |-> j.date, data |-> j.data]
  /\ j = Idle \/ (j.type \in {"daily", "failure", "health"} /\ j.date \in Dates)

\* All days that are due between the start, or the last restart, and a time.
Covered(started, until, days) ==
  \A d \in Nat : started < ReportAt(d) /\ ReportAt(d) < until => d \in days

DueDay == reportDue \div Day

Scheduled ==
  /\ reporter # "none" =>
       /\ reportDue = ReportAt(DueDay) /\ DueDay \in Nat
       /\ Local <= reportDue + Lag
       /\ Covered(since, reportDue, batches)
  /\ reporter = "working" =>
       /\ reportDue - Drift <= Local
       /\ DueDay \in batches
       /\ job["scheduler"].date = DueDay

ReportInv ==
  /\ now \in Day..MaxTime /\ StoreOK
  /\ offset \in Offsets
  /\ reporter \in {"none", "waiting", "working"} /\ reportDue \in Nat /\ since \in Nat
  /\ batches \subseteq Dates
  /\ job = [g \in Generator |-> job[g]] /\ \A g \in Generator : IsJob(job[g])
  /\ Busy("scheduler") <=> reporter = "working"
  /\ asked \subseteq Request /\ DOMAIN files = Paths
  /\ Scheduled

LEMMA TypesAre == Types[1] = "daily" /\ ToSet(Types) = {"daily", "failure", "health"}
<1>1. DOMAIN Types = 1..3
  BY DEF Types
<1>2. Types[1] = "daily" /\ Types[2] = "failure" /\ Types[3] = "health"
  BY DEF Types
<1>3. \A i \in 1..3 : i = 1 \/ i = 2 \/ i = 3
  OBVIOUS
<1> QED
  BY <1>1, <1>2, <1>3 DEF ToSet

\* The local time is one of the days there can be reports of.
LEMMA LocalFacts ==
  ASSUME NEW t \in Day..MaxTime, NEW o \in Offsets
  PROVE  t + o \in Nat /\ (t + o) \div Day \in Dates /\ (t + o) \div Day \in Nat
<1>1. o \in Int /\ 1 - Day <= o /\ o <= Day - 1 /\ t \in Int /\ Day <= t /\ t <= MaxTime
  BY ReportAssumption, DayFacts
<1> DEFINE u == t + o
           q == u \div Day
           z == (MaxTime + Day) \div Day
<1>2. u \in Nat /\ u <= MaxTime + Day /\ MaxTime + Day \in Int /\ u >= 1
  BY <1>1, DayFacts
<1>3. /\ q \in Int /\ q * Day <= u /\ u < q * Day + Day
      /\ z \in Int /\ z * Day <= MaxTime + Day /\ MaxTime + Day < z * Day + Day
  BY <1>2, DayOf
<1> HIDE DEF q, z
<1>4. q * Day \in Int /\ z * Day \in Int /\ 0 * Day = 0
  BY <1>3, DayFacts
<1>5. ~ (q < 0)
  <2>1. q < 0 => q * Day + Day <= 0 * Day
    BY <1>3, DaysApart
  <2> QED
    BY <1>2, <1>3, <1>4, <2>1, DayFacts
<1>6. ~ (z < q)
  <2>1. z < q => z * Day + Day <= q * Day
    BY <1>3, DaysApart
  <2> QED
    BY <1>2, <1>3, <1>4, <2>1, DayFacts
<1>7. q \in 0..(z + 1) /\ q \in Nat
  BY <1>3, <1>5, <1>6
<1>8. q = u \div Day
  BY DEF q
<1> HIDE DEF u
<1> QED
  BY <1>2, <1>7, <1>8 DEF Dates, z, u

\* Begin a wait: the day that it is for, and what is covered until then.
LEMMA WaitFacts ==
  ASSUME NEW t \in Nat, NEW s, NEW days, NEW u, u = NextRun(t),
         s = t \/ \E ends \in Nat : /\ ends = ReportAt(ends \div Day) /\ ends \div Day \in Nat
                                   /\ t <= ends + Lag /\ Covered(s, ends, days)
                                   /\ ends \div Day \in days,
         s \in Nat
  PROVE  /\ u \in Nat /\ u \div Day \in Nat /\ u = ReportAt(u \div Day) /\ t <= u + Lag
         /\ Covered(s, u, days)
<1>1. PICK k \in Int : u = ReportAt(k) /\ t < ReportAt(k) /\ ReportAt(k) <= t + Day /\ k \in Nat
  BY NextRunFacts
<1>2. ReportAt(k) \in Int /\ u \div Day = k /\ u \in Nat
  BY <1>1, ReportAtFacts
<1>3. Covered(s, u, days)
  <2> SUFFICES ASSUME NEW d \in Nat, s < ReportAt(d), ReportAt(d) < u
               PROVE  d \in days
    BY DEF Covered
  <2>1. d < k /\ ReportAt(d) \in Int /\ ReportAt(d) + Day = ReportAt(d + 1)
    BY <1>1, <1>2, ReportsApart, ReportAtFacts
  <2>2. ReportAt(d) <= t
    <3>1. ~ (k < d + 1)
      BY <2>1
    <3>2. ReportAt(d + 1) <= ReportAt(k)
      <4>1. d + 1 = k \/ d + 1 < k
        BY <2>1
      <4>2. d + 1 < k => ReportAt(d + 1) < ReportAt(k)
        BY ReportsApart
      <4> QED
        BY <1>2, <2>1, <4>1, <4>2, DayFacts
    <3> QED
      BY <1>1, <1>2, <2>1, <3>2, DayFacts
  <2>3. CASE s = t
    BY <2>1, <2>2, <2>3
  <2>4. CASE \E ends \in Nat : /\ ends = ReportAt(ends \div Day) /\ ends \div Day \in Nat
                              /\ t <= ends + Lag /\ Covered(s, ends, days)
                              /\ ends \div Day \in days
    <3>1. PICK ends \in Nat : /\ ends = ReportAt(ends \div Day) /\ ends \div Day \in Nat
                             /\ t <= ends + Lag /\ Covered(s, ends, days)
                             /\ ends \div Day \in days
      BY <2>4
    <3> DEFINE e == ends \div Day
    <3>2. e \in Nat /\ ends = ReportAt(e) /\ e \in days
      BY <3>1
    <3> HIDE DEF e
    <3>3. CASE d < e
      <4>1. ReportAt(d) < ends
        BY <3>2, <3>3, ReportsApart
      <4> QED
        BY <3>1, <4>1 DEF Covered
    <3>4. CASE d = e
      BY <3>2, <3>4
    <3>5. CASE e < d
      <4>1. ReportAt(e + 1) <= ReportAt(d)
        <5>1. e + 1 = d \/ e + 1 < d
          BY <3>2, <3>5
        <5>2. e + 1 < d => ReportAt(e + 1) < ReportAt(d)
          BY <3>2, ReportsApart
        <5>3. ReportAt(e + 1) \in Int
          BY <3>2, ReportAtFacts
        <5> QED
          BY <2>1, <5>1, <5>2, <5>3
      <4>2. ReportAt(e + 1) = ends + Day
        BY <3>2, ReportAtFacts
      <4> QED
        BY <2>1, <2>2, <3>1, <4>1, <4>2, DayFacts
    <3> QED
      BY <3>2, <3>3, <3>4, <3>5
  <2> QED
    BY <2>3, <2>4
<1> QED
  BY <1>1, <1>2, <1>3, DayFacts

\* From a wake-up that is early, to the end of a batch, it is one and the same day.
LEMMA WorkDay ==
  ASSUME NEW t \in Int, NEW ends \in Nat, ends = ReportAt(ends \div Day),
         ends - Drift <= t, t <= ends + Lag
  PROVE  t \div Day = ends \div Day
<1> DEFINE e == ends \div Day
<1>1. e \in Int
  BY DayOf
<1>2. ends = e * Day + ReportTime /\ e * Day \in Int
  BY <1>1, ReportAtFacts
<1> HIDE DEF e
<1>3. e * Day <= t /\ t < e * Day + Day
  BY <1>2, DayFacts
<1> QED
  BY <1>1, <1>3, DayIs DEF e

LEMMA ReportInitially ==
  ASSUME ReportInit
  PROVE  ReportInv
<1>1. now \in Day..MaxTime /\ StoreOK
  BY DayFacts DEF ReportInit, StoreInit, StoreOK
<1>2. /\ offset \in Offsets /\ reporter = "none" /\ reportDue = 0 /\ since = 0 /\ batches = {}
      /\ job = [g \in Generator |-> Idle] /\ asked = {} /\ DOMAIN files = Paths
  BY DEF ReportInit
<1>3. IsJob(Idle)
  BY DEF IsJob, Idle
<1>4. "scheduler" \in Generator
  BY DEF Generator
<1>5. Scheduled
  BY <1>2 DEF Scheduled
<1> QED
  BY <1>1, <1>2, <1>3, <1>4, <1>5 DEF ReportInv, Busy

\* A report that has been begun at a time of the clock.
LEMMA BegunFacts ==
  ASSUME ReportInv, NEW type \in {"daily", "failure", "health"}
  PROVE  IsJob(Begun(type)) /\ Begun(type) # Idle /\ Begun(type).date = Local \div Day
<1>1. Today \in Dates /\ Today = Local \div Day
  BY LocalFacts DEF ReportInv, Today, Local
<1>2. /\ Begun(type) = [type |-> type, date |-> Today, data |-> None]
      /\ Begun(type).type = type /\ Begun(type).date = Today /\ Begun(type).data = None
  BY DEF Begun
<1>3. Idle.type = "none"
  BY DEF Idle
<1> QED
  BY <1>1, <1>2, <1>3 DEF IsJob

LEMMA ReportStepwise ==
  ASSUME ReportInv, [ReportNext]_reportVars
  PROVE  ReportInv'
<1>1. /\ now \in Day..MaxTime /\ StoreOK /\ now \in Nat /\ now \in 0..MaxTime
      /\ offset \in Offsets /\ offset \in Int
      /\ reporter \in {"none", "waiting", "working"} /\ reportDue \in Nat /\ since \in Nat
      /\ batches \subseteq Dates
      /\ job = [g \in Generator |-> job[g]] /\ (\A g \in Generator : IsJob(job[g]))
      /\ (Busy("scheduler") <=> reporter = "working")
      /\ asked \subseteq Request /\ DOMAIN files = Paths
      /\ Scheduled
  BY DayFacts, ReportAssumption DEF ReportInv
<1>2. Local \in Nat /\ Local \div Day \in Dates /\ Local \div Day \in Nat
  BY <1>1, LocalFacts DEF Local
<1>3. "scheduler" \in Generator /\ Request \subseteq Generator /\ "scheduler" \notin Request
  BY ReportAssumption DEF Generator
<1>4. IsJob(Idle)
  BY DEF IsJob, Idle
\* An action that leaves the time and the thread alone.
<1>5. ASSUME UNCHANGED <<now, offset, reporter, reportDue, since, batches>>,
             job'["scheduler"].date = job["scheduler"].date
      PROVE  Scheduled'
  BY <1>1, <1>5 DEF Scheduled, Local, DueDay, Covered
\* The thread waits again, after its start or after a batch.
<1>6. ASSUME ReportWait, UNCHANGED <<now, offset, batches>>,
             since' = Local \/ (reporter = "working" /\ since' = since)
      PROVE  Scheduled' /\ reportDue' \in Nat
  <2>1. reportDue' = NextRun(Local) /\ reporter' = "waiting" /\ Local' = Local
    BY <1>6 DEF ReportWait, Local
  <2>2. since' \in Nat
    BY <1>1, <1>2, <1>6
  <2>3. \/ since' = Local
        \/ \E ends \in Nat : /\ ends = ReportAt(ends \div Day) /\ ends \div Day \in Nat
                            /\ Local <= ends + Lag /\ Covered(since', ends, batches)
                            /\ ends \div Day \in batches
    BY <1>1, <1>6 DEF Scheduled, DueDay
  <2>4. /\ reportDue' \in Nat /\ reportDue' \div Day \in Nat
        /\ reportDue' = ReportAt(reportDue' \div Day) /\ Local <= reportDue' + Lag
        /\ Covered(since', reportDue', batches)
    BY <1>2, <2>1, <2>2, <2>3, WaitFacts
  <2>5. Covered(since, reportDue, batches)'
    BY <1>6, <2>4 DEF Covered
  <2> QED
    BY <2>1, <2>4, <2>5 DEF Scheduled, DueDay
\* A generator goes on to a report or to none.
<1>7. ASSUME NEW g \in Generator, NEW j, IsJob(j), job' = [job EXCEPT ![g] = j]
      PROVE  /\ job' = [h \in Generator |-> job'[h]] /\ \A h \in Generator : IsJob(job'[h])
             /\ job'[g] = j /\ \A h \in Generator \ {g} : job'[h] = job[h]
  BY <1>1, <1>7
<1>8. CASE UNCHANGED reportVars
  <2>1. StoreOK'
    BY <1>1, <1>8 DEF reportVars, store, StoreOK
  <2>2. UNCHANGED <<now, offset, reporter, reportDue, since, batches, job, asked, files>>
    BY <1>8 DEF reportVars
  <2> QED
    BY <1>1, <1>5, <2>1, <2>2 DEF ReportInv, Busy
<1>9. CASE ReportTick
  <2>1. StoreOK' /\ now' = now + 1 /\ now' \in Day..MaxTime
    BY <1>1, <1>9, DayFacts DEF ReportTick, store, StoreOK
  <2>2. UNCHANGED <<offset, reporter, reportDue, since, batches, job, asked, files>>
    BY <1>9 DEF ReportTick
  <2>3. Local' = Local + 1 /\ (reporter # "none" => Local < reportDue + Lag)
    BY <1>1, <1>9 DEF ReportTick, Local
  <2>4. Scheduled'
    BY <1>1, <1>2, <2>2, <2>3, DayFacts DEF Scheduled, DueDay, Covered
  <2> QED
    BY <1>1, <2>1, <2>2, <2>4 DEF ReportInv, Busy
<1>10. CASE ReportCollect
  <2>1. StoreOK' /\ now' = now
    BY <1>1, <1>10, StoreKept DEF ReportCollect
  <2>2. UNCHANGED <<offset, reporter, reportDue, since, batches, job, asked, files>>
    BY <1>10 DEF ReportCollect
  <2> QED
    BY <1>1, <1>5, <2>1, <2>2 DEF ReportInv, Busy
<1>11. CASE ReportStart
  <2>1. UNCHANGED <<now, store, offset, batches, job, asked, files>> /\ ReportWait /\ since' = Local
    BY <1>11 DEF ReportStart
  <2>2. Scheduled' /\ reportDue' \in Nat
    BY <1>6, <2>1
  <2>3. StoreOK'
    BY <1>1, <2>1 DEF store, StoreOK
  <2>4. ~ Busy("scheduler") /\ reporter' = "waiting"
    BY <1>3, <1>11 DEF ReportStart, ReportWait
  <2> QED
    BY <1>1, <1>2, <2>1, <2>2, <2>3, <2>4 DEF ReportInv, Busy
<1>12. CASE ReportStop
  <2>1. StoreOK' /\ now' = now
    BY <1>1, <1>12, StoreKept DEF ReportStop
  <2>2. /\ UNCHANGED <<offset, reportDue, since, batches, asked, files>> /\ reporter' = "none"
        /\ job' = [g \in Generator |-> Idle]
    BY <1>12 DEF ReportStop
  <2>3. Scheduled'
    BY <2>2 DEF Scheduled
  <2> QED
    BY <1>1, <1>3, <1>4, <2>1, <2>2, <2>3 DEF ReportInv, Busy
<1>13. CASE ReportWake
  <2> DEFINE j == Begun("daily")
  <2>1. /\ UNCHANGED <<now, store, offset, reportDue, since, asked, files>>
        /\ reporter = "waiting" /\ reporter' = "working" /\ reportDue - Drift <= Local
        /\ batches' = batches \cup {Today} /\ job' = [job EXCEPT !["scheduler"] = j]
    BY <1>13, TypesAre DEF ReportWake
  <2>2. IsJob(j) /\ j # Idle /\ j.date = Local \div Day
    BY BegunFacts
  <2> HIDE DEF j
  <2>3. /\ job' = [h \in Generator |-> job'[h]] /\ \A h \in Generator : IsJob(job'[h])
        /\ job'["scheduler"] = j
    BY <1>3, <1>7, <2>1, <2>2
  <2>4. Local \div Day = DueDay /\ Today = Local \div Day
    BY <1>1, <1>2, <2>1, WorkDay DEF Scheduled, DueDay, Today
  <2>5. Scheduled'
    <3>1. Local' = Local /\ DueDay' = DueDay
      BY <2>1 DEF Local, DueDay
    <3>2. Covered(since, reportDue, batches)'
      BY <1>1, <2>1 DEF Scheduled, Covered
    <3> QED
      BY <1>1, <2>1, <2>2, <2>3, <2>4, <3>1, <3>2 DEF Scheduled
  <2>6. StoreOK'
    BY <1>1, <2>1 DEF store, StoreOK
  <2>7. batches' \subseteq Dates
    BY <1>1, <1>2, <2>1, <2>4
  <2> QED
    BY <1>1, <2>1, <2>2, <2>3, <2>5, <2>6, <2>7 DEF ReportInv, Busy
<1>14. ASSUME NEW r \in Request, Ask(r)
       PROVE  ReportInv'
  <2>1. PICK type \in {"daily", "failure", "health"} : job' = [job EXCEPT ![r] = Begun(type)]
    BY <1>14, TypesAre DEF Ask
  <2>2. /\ UNCHANGED <<now, store, offset, reporter, reportDue, since, batches, files>>
        /\ asked' = asked \cup {r}
    BY <1>14 DEF Ask
  <2> DEFINE j == Begun(type)
  <2>3. IsJob(j)
    BY BegunFacts
  <2> HIDE DEF j
  <2>4. /\ job' = [h \in Generator |-> job'[h]] /\ \A h \in Generator : IsJob(job'[h])
        /\ job'["scheduler"] = job["scheduler"]
    BY <1>3, <1>7, <2>1, <2>3 DEF j
  <2>5. Scheduled'
    BY <1>5, <2>2, <2>4
  <2>6. StoreOK'
    BY <1>1, <2>2 DEF store, StoreOK
  <2> QED
    BY <1>1, <2>2, <2>4, <2>5, <2>6 DEF ReportInv, Busy
<1>15. ASSUME NEW g \in Generator, Fetch(g)
       PROVE  ReportInv'
  <2> DEFINE d == ReportData(Window(job[g].date))
             j == [type |-> job[g].type, date |-> job[g].date, data |-> d]
  <2>1. /\ Busy(g) /\ job' = [job EXCEPT ![g] = [job[g] EXCEPT !.data = d]]
        /\ UNCHANGED <<now, store, offset, reporter, reportDue, since, batches, asked, files>>
    BY <1>1, <1>15 DEF Fetch
  <2> HIDE DEF d
  <2>2. /\ job[g] = [type |-> job[g].type, date |-> job[g].date, data |-> job[g].data]
        /\ job[g].type \in {"daily", "failure", "health"} /\ job[g].date \in Dates
    BY <1>1, <2>1 DEF IsJob, Busy
  <2>3. [job[g] EXCEPT !.data = d] = j
    BY <2>2
  <2>4. j.type = job[g].type /\ j.date = job[g].date /\ j.data = d /\ j # Idle
    BY <2>2 DEF Idle
  <2>5. IsJob(j)
    BY <2>2, <2>4 DEF IsJob
  <2> HIDE DEF j
  <2>6. /\ job' = [h \in Generator |-> job'[h]] /\ \A h \in Generator : IsJob(job'[h])
        /\ job'[g] = j /\ \A h \in Generator \ {g} : job'[h] = job[h]
    BY <1>7, <2>1, <2>3, <2>5
  <2>7. job'["scheduler"].date = job["scheduler"].date /\ (Busy("scheduler")' <=> Busy("scheduler"))
    BY <1>3, <2>1, <2>4, <2>6 DEF Busy
  <2>8. Scheduled'
    BY <1>5, <2>1, <2>7
  <2>9. StoreOK'
    BY <1>1, <2>1 DEF store, StoreOK
  <2> QED
    BY <1>1, <2>1, <2>6, <2>7, <2>8, <2>9 DEF ReportInv
\* The end of a report.
<1>16. ASSUME NEW g \in Generator, Busy(g), job' = [job EXCEPT ![g] = Idle],
              IF g = "scheduler" THEN ReportWait ELSE UNCHANGED <<reporter, reportDue>>,
              UNCHANGED <<now, store, offset, since, batches, asked>>, DOMAIN files' = Paths
       PROVE  ReportInv'
  <2>1. /\ job' = [h \in Generator |-> job'[h]] /\ \A h \in Generator : IsJob(job'[h])
        /\ job'[g] = Idle /\ \A h \in Generator \ {g} : job'[h] = job[h]
    BY <1>4, <1>7, <1>16
  <2>2. StoreOK'
    BY <1>1, <1>16 DEF store, StoreOK
  <2>3. CASE g = "scheduler"
    <3>1. reporter = "working" /\ reporter' = "waiting" /\ ReportWait /\ ~ Busy("scheduler")'
      BY <1>1, <1>16, <2>1, <2>3 DEF ReportWait, Busy
    <3>2. Scheduled' /\ reportDue' \in Nat
      BY <1>6, <1>16, <3>1
    <3> QED
      BY <1>1, <1>16, <2>1, <2>2, <3>1, <3>2 DEF ReportInv
  <2>4. CASE g # "scheduler"
    <3>1. job'["scheduler"] = job["scheduler"]
      BY <1>3, <2>1, <2>4
    <3>2. Scheduled'
      BY <1>5, <1>16, <2>4, <3>1
    <3> QED
      BY <1>1, <1>16, <2>1, <2>2, <2>4, <3>1, <3>2 DEF ReportInv, Busy
  <2> QED
    BY <2>3, <2>4
<1>17. ASSUME NEW g \in Generator, Write(g)
       PROVE  ReportInv'
  <2>1. /\ Busy(g) /\ UNCHANGED <<now, store, offset, since, batches, asked>> /\ Proceed(g)
        /\ DOMAIN files' = Paths
    BY <1>1, <1>17 DEF Write
  <2> DEFINE rest == {i \in DOMAIN Types : i > 1 /\ Types[i - 1] = job[g].type}
  <2>2. CASE /\ g = "scheduler" /\ rest # {}
             /\ \E i \in rest : job' = [job EXCEPT ![g] = Begun(Types[i])]
             /\ UNCHANGED <<reporter, reportDue>>
    <3>1. PICK i \in rest : job' = [job EXCEPT ![g] = Begun(Types[i])]
      BY <2>2
    <3>2. Types[i] \in {"daily", "failure", "health"}
      BY TypesAre DEF ToSet
    <3> DEFINE j == Begun(Types[i])
    <3>3. IsJob(j) /\ j # Idle /\ j.date = Local \div Day
      BY <3>2, BegunFacts
    <3> HIDE DEF j
    <3>4. /\ job' = [h \in Generator |-> job'[h]] /\ \A h \in Generator : IsJob(job'[h])
          /\ job'["scheduler"] = j
      BY <1>3, <1>7, <2>2, <3>1, <3>3 DEF j
    <3>5. reporter = "working" /\ Busy("scheduler")'
      BY <1>1, <2>1, <2>2, <3>3, <3>4 DEF Busy
    <3>6. Local \div Day = DueDay
      BY <1>1, <1>2, <3>5, WorkDay DEF Scheduled, DueDay
    <3>7. Local' = Local /\ DueDay' = DueDay /\ reporter' = "working"
      BY <2>1, <2>2, <3>5 DEF Local, DueDay
    <3>8. Covered(since, reportDue, batches)'
      BY <1>1, <2>1, <2>2, <3>5 DEF Scheduled, Covered
    <3>9. Scheduled'
      BY <1>1, <2>1, <2>2, <3>3, <3>4, <3>5, <3>6, <3>7, <3>8 DEF Scheduled
    <3>10. StoreOK'
      BY <1>1, <2>1 DEF store, StoreOK
    <3> QED
      BY <1>1, <2>1, <2>2, <3>4, <3>5, <3>7, <3>9, <3>10 DEF ReportInv
  <2>3. CASE g = "scheduler" /\ job' = [job EXCEPT ![g] = Idle] /\ ReportWait
    BY <1>16, <2>1, <2>3
  <2>4. CASE g # "scheduler" /\ job' = [job EXCEPT ![g] = Idle] /\ UNCHANGED <<reporter, reportDue>>
    BY <1>16, <2>1, <2>4
  <2> QED
    BY <2>1, <2>2, <2>3, <2>4 DEF Proceed
<1>18. ASSUME NEW g \in Generator, ReportFail(g)
       PROVE  ReportInv'
  BY <1>1, <1>16, <1>18 DEF ReportFail
<1> QED
  BY <1>8, <1>9, <1>10, <1>11, <1>12, <1>13, <1>14, <1>15, <1>17, <1>18 DEF ReportNext

\* In every reachable state the reporter is on a due time of a day, on that day if
\* it is working, and all due times before have had their batches (_run).
THEOREM ReportInvariance == ReportSpec => []ReportInv
<1>1. ReportInit => ReportInv
  BY ReportInitially
<1>2. ReportInv /\ [ReportNext]_reportVars => ReportInv'
  BY ReportStepwise
<1> QED
  BY <1>1, <1>2, PTL DEF ReportSpec

\* Every variable stays in its type, and the thread works on a report just while
\* it is in a batch, whichever reports fail (DailyReportScheduler._run).
THEOREM ReportsTypeCorrect == ReportSpec => []ReportTypeOK
<1>1. ReportInv => ReportTypeOK
  <2> SUFFICES ASSUME ReportInv
               PROVE  ReportTypeOK
    OBVIOUS
  <2>1. now \in 0..MaxTime
    BY DayFacts DEF ReportInv
  <2>2. \A g \in Generator : Busy(g) => job[g].type \in ToSet(Types) /\ job[g].date \in Dates
    BY TypesAre DEF ReportInv, IsJob, Busy
  <2> QED
    BY <2>1, <2>2 DEF ReportInv, ReportTypeOK, StoreOK
<1> QED
  BY <1>1, ReportInvariance, PTL

\* All reports of a batch bear the date of the day they are due, however early
\* the wait ends and however long the batch takes within the day.
THEOREM BatchesOnTheirDay == ReportSpec => []BatchOnItsDay
<1>1. ReportInv => BatchOnItsDay
  BY DEF ReportInv, Scheduled, DueDay, BatchOnItsDay
<1> QED
  BY <1>1, ReportInvariance, PTL

\* What has been queried, and what has been written, is a report whose sections agree.
Agreeing ==
  /\ \A g \in Generator : job[g].data # None => Agree(job[g].data)
  /\ \A p \in Paths : files[p] # None => Agree(files[p])

\* Agree is about a report alone: one that agrees when it is queried still does when it is written.
LEMMA AgreeingStepwise ==
  ASSUME ReportInv, Agreeing, [ReportNext]_reportVars
  PROVE  Agreeing'
<1>1. /\ job = [g \in Generator |-> job[g]] /\ DOMAIN files = Paths
      /\ \A g \in Generator : IsJob(job[g])
  BY DEF ReportInv
<1>2. \A g \in Generator : job[g].data # None => Agree(job[g].data)
  BY DEF Agreeing
<1>3. \A p \in Paths : files[p] # None => Agree(files[p])
  BY DEF Agreeing
<1>4. Idle.data = None /\ \A type : Begun(type).data = None
  BY DEF Idle, Begun
<1>5. \A w : Agree(ReportData(w))
  BY ReportAgrees DEF ReportInv, StoreOK
\* No data is added to those of the reports under way.
<1>6. ASSUME \A g \in Generator : job'[g].data = None \/ job'[g] = job[g] \/ Agree(job'[g].data),
             \A p \in Paths : files'[p] = files[p] \/ Agree(files'[p])
      PROVE  Agreeing'
  BY <1>2, <1>3, <1>6 DEF Agreeing
\* One generator goes on to a report without data, or to none.
<1>7. ASSUME NEW g \in Generator, NEW j, j.data = None, job' = [job EXCEPT ![g] = j]
      PROVE  \A h \in Generator : job'[h].data = None \/ job'[h] = job[h]
  BY <1>1, <1>7
<1>8. CASE UNCHANGED <<job, files>>
  BY <1>6, <1>8
<1>9. "scheduler" \in Generator /\ Request \subseteq Generator
  BY DEF Generator
<1>10. CASE ReportStop
  BY <1>4, <1>6, <1>10 DEF ReportStop
<1>11. CASE ReportWake
  <2>1. job' = [job EXCEPT !["scheduler"] = Begun(Types[1])] /\ files' = files
    BY <1>11 DEF ReportWake
  <2> QED
    BY <1>4, <1>6, <1>7, <1>9, <2>1
<1>12. ASSUME NEW r \in Request, Ask(r)
       PROVE  Agreeing'
  <2>1. PICK type \in ToSet(Types) : job' = [job EXCEPT ![r] = Begun(type)]
    BY <1>12 DEF Ask
  <2>2. files' = files
    BY <1>12 DEF Ask
  <2> QED
    BY <1>4, <1>6, <1>7, <1>9, <2>1, <2>2
<1>13. ASSUME NEW g \in Generator, Fetch(g)
       PROVE  Agreeing'
  <2> DEFINE d == ReportData(Window(job[g].date))
  <2>1. job' = [job EXCEPT ![g].data = d] /\ files' = files
    BY <1>13 DEF Fetch
  <2>2. Agree(d)
    BY <1>5
  <2> HIDE DEF d
  <2>3. job[g] = [type |-> job[g].type, date |-> job[g].date, data |-> job[g].data]
    BY <1>1 DEF IsJob
  <2>4. job'[g].data = d /\ \A h \in Generator \ {g} : job'[h] = job[h]
    BY <1>1, <2>1, <2>3
  <2> QED
    BY <1>6, <2>1, <2>2, <2>4
<1>14. ASSUME NEW g \in Generator, Write(g)
       PROVE  Agreeing'
  <2>1. job[g].data # None /\ files' = [files EXCEPT ![Path(job[g].type, job[g].date)] = job[g].data] /\ Proceed(g)
    BY <1>14 DEF Write
  <2>2. \A p \in Paths : files'[p] = files[p] \/ Agree(files'[p])
    BY <1>1, <1>2, <2>1
  <2>3. \E j : j.data = None /\ job' = [job EXCEPT ![g] = j]
    BY <1>4, <2>1 DEF Proceed
  <2> QED
    BY <1>6, <1>7, <2>2, <2>3
<1>15. ASSUME NEW g \in Generator, ReportFail(g)
       PROVE  Agreeing'
  <2>1. job' = [job EXCEPT ![g] = Idle] /\ files' = files
    BY <1>15 DEF ReportFail
  <2> QED
    BY <1>4, <1>6, <1>7, <2>1
<1> QED
  BY <1>8, <1>10, <1>11, <1>12, <1>13, <1>14, <1>15
     DEF ReportNext, reportVars, ReportTick, ReportCollect, ReportStart

\* The sections of a report agree, however many rows arrive between its queries
\* and of whatever kinds they are (fetch_report_data).
THEOREM SectionsAgreeAlways == ReportSpec => []SectionsAgree
<1>1. ReportInit => Agreeing
  BY DEF ReportInit, Idle, Agreeing
<1>2. ReportInv /\ Agreeing /\ [ReportNext]_reportVars => Agreeing'
  BY AgreeingStepwise
<1>3. Agreeing => SectionsAgree
  BY DEF Agreeing, SectionsAgree
<1> QED
  BY <1>1, <1>2, <1>3, ReportInvariance, PTL DEF ReportSpec

\* No day passes without a batch while the thread runs, whatever fails in it.
THEOREM EveryDayHasItsBatch == ReportSpec => []NoDaySkipped
<1>1. ReportInv => NoDaySkipped
  <2> SUFFICES ASSUME ReportInv, reporter # "none", NEW d \in Dates, since < ReportAt(d),
                      ReportAt(d) + Lag < Local
               PROVE  d \in batches
    BY DEF NoDaySkipped
  <2>1. Local <= reportDue + Lag /\ Covered(since, reportDue, batches) /\ reportDue \in Nat
    BY DEF ReportInv, Scheduled
  <2>2. d \in Nat /\ ReportAt(d) \in Int /\ Local \in Nat
    BY ReportAtFacts, LocalFacts DEF Dates, ReportInv, Local
  <2>3. ReportAt(d) < reportDue
    BY <2>1, <2>2, DayFacts
  <2> QED
    BY <2>1, <2>2, <2>3 DEF Covered
<1> QED
  BY <1>1, ReportInvariance, PTL
=============================================================================
