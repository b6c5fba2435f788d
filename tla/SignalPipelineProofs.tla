------------------------ MODULE SignalPipelineProofs ------------------------
(***************************************************************************)
(* What SignalPipeline finds, proved for traces of any length and with any *)
(* samples, any threshold, merge window, spacing and length of the route.  *)
(*                                                                         *)
(* The first part is about medians: a sorted bucket has a value at every   *)
(* position, and a value that more than half of the bucket has is its      *)
(* median.  The second is the invariant of the loops: merging keeps peaks  *)
(* that are apart and covers those it drops, and locating turns a single   *)
(* peak into a single event or rejects it.                                 *)
(***************************************************************************)
EXTENDS SignalPipeline, FiniteSetTheorems, WellFoundedInduction, TLAPS

Peaks == {p \in Indexes \ {0} : Magnitude(p) >= threshold}

\* p is kept, or a neighbour is at least as strong.
Covered(p) ==
    \/ p \in merged
    \/ \E q \in Indexes \ {0, p} : /\ Apart(p, q) <= mergeWindow
                                   /\ Magnitude(q) >= Magnitude(p)

Spaced == \A p, q \in merged : p # q => Apart(p, q) > mergeWindow

Typed == /\ raw \in [Indexes -> Int]
         /\ window \in Windows
         /\ filtered \in [Indexes -> Int]
         /\ pc \in {"denoise", "peaks", "merge", "locate", "done"}
         /\ pc # "denoise" => filtered = MovingMedian(raw, window)

Waiting == pc \in {"denoise", "peaks", "merge"} => events = <<>> /\ rejected = 0

Starting == pc \in {"denoise", "peaks"} => current = NoPeak /\ merged = {}

Merging ==
    pc = "merge" =>
        /\ todo \subseteq Peaks
        /\ merged \subseteq Peaks
        /\ Spaced
        /\ \/ current = NoPeak /\ merged = {}
           \/ /\ current \in Peaks
              /\ \A p \in todo : current < p
              /\ \A p \in merged : current - p > mergeWindow
        /\ \A p \in Peaks \ todo : p = current \/ Covered(p)

Merged ==
    pc \in {"locate", "done"} =>
        /\ merged \subseteq Peaks
        /\ Spaced
        /\ \A p \in Peaks : Covered(p)

\* A single peak is one event or is rejected.
FoundAlone(p) ==
    \/ /\ pc = "locate" /\ todo = {p}
       /\ events = <<>> /\ rejected = 0
    \/ /\ todo = {}
       /\ IF SampleDistance(p) <= routeLength THEN events = <<EventAt(p)>>
                                              ELSE events = <<>> /\ rejected = 1

Locating == pc \in {"locate", "done"} => \A p \in Indexes : merged = {p} => FoundAlone(p)

Sound == Typed /\ Waiting /\ Starting /\ Merging /\ Merged /\ Locating

-----------------------------------------------------------------------------
(* Least elements. *)

LEMMA LeastNatural ==
    ASSUME NEW T, T \subseteq Nat, T # {}
    PROVE  \E m \in T : \A n \in T : m <= n
<1>1. PICK m \in T : \A n \in T : ~ (<<n, m>> \in OpToRel(<, Nat))
  BY NatLessThanWellFounded, WFMin
<1>2. ASSUME NEW n \in T PROVE m <= n
  <2>1. n \in Nat /\ m \in Nat
    OBVIOUS
  <2>2. n < m => <<n, m>> \in OpToRel(<, Nat)
    BY <2>1, Zenon DEF OpToRel
  <2>3. ~ (n < m)
    BY <1>1, <2>2, Zenon
  <2> QED BY <2>1, <2>3
<1> QED BY <1>2

\* What the CHOOSE of First picks.
LEMMA FirstIs ==
    ASSUME NEW S, S \subseteq Nat, S # {}
    PROVE  First(S) \in S /\ \A j \in S : First(S) <= j
  BY LeastNatural DEF First

\* Of finitely many values one is least: the one with fewest below it.
LEMMA LeastValue ==
    ASSUME NEW S, IsFiniteSet(S), S # {}, NEW f, \A j \in S : f[j] \in Int
    PROVE  \E i \in S : \A j \in S : f[i] <= f[j]
<1> DEFINE Below(i) == {j \in S : f[j] < f[i]}
           N == {Cardinality(Below(i)) : i \in S}
<1>1. ASSUME NEW i \in S
      PROVE  IsFiniteSet(Below(i)) /\ Cardinality(Below(i)) \in Nat
  <2>1. Below(i) \in SUBSET S
    OBVIOUS
  <2> HIDE DEF Below
  <2> QED BY <2>1, FS_Subset, FS_CardinalityType
<1>2. N \subseteq Nat /\ N # {}
  BY <1>1
<1>3. PICK i \in S : \A j \in S : Cardinality(Below(i)) <= Cardinality(Below(j))
  <2>1. PICK m \in N : \A n \in N : m <= n
    <3> HIDE DEF N
    <3> QED BY <1>2, LeastNatural
  <2> QED BY <2>1
<1>4. ASSUME NEW j \in S, f[j] < f[i] PROVE FALSE
  <2>1. Below(j) \in SUBSET Below(i) /\ j \in Below(i) /\ j \notin Below(j)
    BY <1>4
  <2>2. Cardinality(Below(j)) <= Cardinality(Below(i))
        /\ (Cardinality(Below(i)) = Cardinality(Below(j)) => Below(i) = Below(j))
    <3>1. IsFiniteSet(Below(i))
      BY <1>1
    <3> HIDE DEF Below
    <3> QED BY <2>1, <3>1, FS_Subset
  <2>3. Cardinality(Below(i)) <= Cardinality(Below(j))
    BY <1>3
  <2>4. Cardinality(Below(i)) \in Nat /\ Cardinality(Below(j)) \in Nat
    BY <1>1
  <2> HIDE DEF Below
  <2> QED BY <2>1, <2>2, <2>3, <2>4
<1> QED BY <1>4

LEMMA GreatestValue ==
    ASSUME NEW S, IsFiniteSet(S), S # {}, NEW f, \A j \in S : f[j] \in Int
    PROVE  \E i \in S : \A j \in S : f[j] <= f[i]
<1> DEFINE g == [j \in S |-> 0 - f[j]]
<1>1. \A j \in S : g[j] \in Int
  OBVIOUS
<1>2. PICK i \in S : \A j \in S : g[i] <= g[j]
  <2> HIDE DEF g
  <2> QED BY <1>1, LeastValue
<1> QED BY <1>2

-----------------------------------------------------------------------------
(* Medians. *)

Smaller(f, B, v) == {j \in B : f[j] < v}

UpTo(f, B, v) == {j \in B : f[j] <= v}

\* v stands at position k of the sorted bucket.
StandsAt(f, B, k, v) == /\ Cardinality(Smaller(f, B, v)) <= k
                        /\ k < Cardinality(UpTo(f, B, v))

LEMMA PartsFinite ==
    ASSUME NEW B, IsFiniteSet(B), NEW f, NEW v
    PROVE  /\ IsFiniteSet(Smaller(f, B, v)) /\ Cardinality(Smaller(f, B, v)) \in Nat
           /\ IsFiniteSet(UpTo(f, B, v)) /\ Cardinality(UpTo(f, B, v)) \in Nat
<1>1. Smaller(f, B, v) \in SUBSET B /\ UpTo(f, B, v) \in SUBSET B
  BY DEF Smaller, UpTo
<1> QED BY <1>1, FS_Subset, FS_CardinalityType

\* Some value stands at every position.
LEMMA SomeStands ==
    ASSUME NEW B, IsFiniteSet(B), NEW f, \A j \in B : f[j] \in Int,
           NEW k \in Nat, k < Cardinality(B)
    PROVE  \E i \in B : StandsAt(f, B, k, f[i])
<1> DEFINE A == {i \in B : k < Cardinality(UpTo(f, B, f[i]))}
<1>1. Cardinality(B) \in Nat /\ B # {}
  BY FS_CardinalityType, FS_EmptySet
<1>2. A # {} /\ IsFiniteSet(A) /\ A \subseteq B
  <2>1. PICK i \in B : \A j \in B : f[j] <= f[i]
    BY <1>1, GreatestValue
  <2>2. UpTo(f, B, f[i]) = B
    BY <2>1 DEF UpTo
  <2>3. A \in SUBSET B /\ i \in A
    BY <2>2
  <2> HIDE DEF A
  <2> QED BY <2>3, FS_Subset
<1>3. PICK i \in A : \A j \in A : f[i] <= f[j]
  <2> HIDE DEF A
  <2> QED BY <1>2, LeastValue
<1>4. Cardinality(Smaller(f, B, f[i])) <= k
  <2>1. CASE Smaller(f, B, f[i]) = {}
    BY <2>1, FS_EmptySet
  <2>2. CASE Smaller(f, B, f[i]) # {}
    <3> DEFINE L == Smaller(f, B, f[i])
    <3>1. IsFiniteSet(L) /\ \A j \in L : f[j] \in Int
      BY PartsFinite DEF Smaller
    <3>2. PICK j \in L : \A x \in L : f[x] <= f[j]
      <4> HIDE DEF L
      <4> QED BY <2>2, <3>1, GreatestValue DEF L
    <3>3. j \in B /\ f[j] < f[i] /\ f[i] \in Int /\ f[j] \in Int
      BY DEF Smaller
    <3>4. UpTo(f, B, f[j]) = L
      BY <3>2, <3>3 DEF UpTo, Smaller
    <3>5. j \notin A
      BY <1>3, <3>3
    <3>6. ~ (k < Cardinality(UpTo(f, B, f[j])))
      BY <3>3, <3>5
    <3>7. Cardinality(UpTo(f, B, f[j])) \in Nat
      BY PartsFinite
    <3> QED BY <3>4, <3>6, <3>7
  <2> QED BY <2>1, <2>2
<1> QED BY <1>4 DEF StandsAt

\* No two values stand at the same position.
LEMMA OneStands ==
    ASSUME NEW B, IsFiniteSet(B), NEW f, \A j \in B : f[j] \in Int, NEW k \in Nat,
           NEW v \in Int, NEW w \in Int, StandsAt(f, B, k, v), StandsAt(f, B, k, w)
    PROVE  v = w
<1>1. ASSUME NEW x \in Int, NEW y \in Int, x < y,
             StandsAt(f, B, k, x), StandsAt(f, B, k, y)
      PROVE  FALSE
  <2>1. UpTo(f, B, x) \in SUBSET Smaller(f, B, y)
    BY <1>1 DEF UpTo, Smaller
  <2>2. IsFiniteSet(Smaller(f, B, y))
    BY PartsFinite
  <2>3. Cardinality(UpTo(f, B, x)) <= Cardinality(Smaller(f, B, y))
    BY <2>1, <2>2, FS_Subset
  <2>4. Cardinality(UpTo(f, B, x)) \in Nat /\ Cardinality(Smaller(f, B, y)) \in Nat
    BY PartsFinite
  <2> QED BY <1>1, <2>3, <2>4 DEF StandsAt
<1> QED BY <1>1

LEMMA SortedIs ==
    ASSUME NEW B, IsFiniteSet(B), NEW f, \A j \in B : f[j] \in Int,
           NEW k \in Nat, k < Cardinality(B)
    PROVE  Sorted(f, B, k) \in Int /\ StandsAt(f, B, k, Sorted(f, B, k))
<1> DEFINE V == {f[j] : j \in B}
<1>1. \E v \in V : StandsAt(f, B, k, v)
  BY SomeStands
<1>2. Sorted(f, B, k) = CHOOSE v \in V : StandsAt(f, B, k, v)
  BY DEF Sorted, StandsAt, Smaller, UpTo
<1>3. Sorted(f, B, k) \in V /\ StandsAt(f, B, k, Sorted(f, B, k))
  BY <1>1, <1>2
<1> QED BY <1>3

\* The median of any bucket is a whole number.
LEMMA MedianTyped ==
    ASSUME NEW B, IsFiniteSet(B), B # {}, NEW f, \A j \in B : f[j] \in Int
    PROVE  MedianOf(f, B) \in Int
<1> DEFINE n == Cardinality(B)
<1>1. n \in Nat /\ n # 0
  BY FS_CardinalityType, FS_EmptySet
<1> HIDE DEF n
<1>2. n \div 2 \in Nat /\ n \div 2 < n
  BY <1>1
<1>3. Sorted(f, B, n \div 2) \in Int
  BY <1>2, SortedIs DEF n
<1>4. CASE n % 2 = 0
  <2>1. n \div 2 - 1 \in Nat /\ n \div 2 - 1 < n
    BY <1>1, <1>4
  <2>2. Sorted(f, B, n \div 2 - 1) \in Int
    BY <2>1, SortedIs DEF n
  <2> QED BY <1>3, <1>4, <2>2 DEF MedianOf, n
<1>5. CASE n % 2 # 0
  BY <1>3, <1>5 DEF MedianOf, n
<1> QED BY <1>4, <1>5

\* A value that more than half of a bucket has is its median.
LEMMA MajorityIsMedian ==
    ASSUME NEW B, IsFiniteSet(B), NEW f, \A j \in B : f[j] \in Int,
           NEW v \in Int, NEW E, E \subseteq B, \A j \in E : f[j] = v,
           2 * Cardinality(E) > Cardinality(B)
    PROVE  MedianOf(f, B) = v
<1> DEFINE n == Cardinality(B)
           e == Cardinality(E)
           s == Cardinality(Smaller(f, B, v))
           u == Cardinality(UpTo(f, B, v))
<1>1. IsFiniteSet(E) /\ n \in Nat /\ e \in Nat /\ 2 * e > n /\ s \in Nat /\ u \in Nat
  BY FS_Subset, FS_CardinalityType, PartsFinite
<1>2. s + e <= u
  <2>1. /\ Smaller(f, B, v) \cup E \in SUBSET UpTo(f, B, v)
        /\ Smaller(f, B, v) \cap E = {}
    BY DEF Smaller, UpTo
  <2>2. /\ IsFiniteSet(Smaller(f, B, v) \cup E)
        /\ Cardinality(Smaller(f, B, v) \cup E) = s + e - Cardinality({})
    BY <1>1, <2>1, PartsFinite, FS_Union
  <2>3. Cardinality(Smaller(f, B, v) \cup E) <= u
    BY <2>1, PartsFinite, FS_Subset
  <2> QED BY <1>1, <2>2, <2>3, FS_EmptySet
<1>3. u <= n /\ e <= u
  BY <1>1, <1>2, FS_Subset DEF UpTo
<1> HIDE DEF n, e, s, u
<1>4. ASSUME NEW k \in Nat, s <= k, k < u PROVE Sorted(f, B, k) = v
  <2>1. StandsAt(f, B, k, v) /\ k < Cardinality(B)
    BY <1>1, <1>3, <1>4 DEF StandsAt, s, u, n
  <2>2. Sorted(f, B, k) \in Int /\ StandsAt(f, B, k, Sorted(f, B, k))
    BY <2>1, SortedIs
  <2> QED BY <2>1, <2>2, OneStands
<1>5. CASE n % 2 = 0
  <2>1. /\ n \div 2 \in Nat /\ s <= n \div 2 /\ n \div 2 < u
        /\ n \div 2 - 1 \in Nat /\ s <= n \div 2 - 1 /\ n \div 2 - 1 < u
    BY <1>1, <1>2, <1>3, <1>5
  <2>2. Sorted(f, B, n \div 2) = v /\ Sorted(f, B, n \div 2 - 1) = v
    BY <2>1, <1>4
  <2>3. MedianOf(f, B) = (v + v) \div 2
    BY <1>5, <2>2 DEF MedianOf, n
  <2> QED BY <2>3
<1>6. CASE n % 2 # 0
  <2>1. n \div 2 \in Nat /\ s <= n \div 2 /\ n \div 2 < u
    BY <1>1, <1>2, <1>3, <1>6
  <2>2. Sorted(f, B, n \div 2) = v
    BY <2>1, <1>4
  <2> QED BY <1>6, <2>2 DEF MedianOf, n
<1> QED BY <1>5, <1>6

-----------------------------------------------------------------------------
(* Buckets. *)

LEMMA Sizes == /\ Size \in Nat /\ Size >= 16
               /\ threshold \in Nat /\ threshold >= 1
               /\ mergeWindow \in Nat /\ mergeWindow >= 1
               /\ Indexes \subseteq Nat /\ NoPeak \notin Nat
               /\ \A w \in Windows : w \in Nat /\ Half(w) \in Nat
  BY SizeAssumption, InputAssumption DEF Indexes, Half

LEMMA BucketFinite ==
    ASSUME NEW w \in Windows, NEW i \in Indexes
    PROVE  /\ IsFiniteSet(Bucket(i, w))
           /\ Bucket(i, w) \subseteq Indexes
           /\ i \in Bucket(i, w)
<1>1. Bucket(i, w) \in SUBSET (0 .. Size - 1)
  BY DEF Bucket, Indexes
<1>2. IsFiniteSet(0 .. Size - 1)
  BY Sizes, FS_Interval
<1>3. i \in Bucket(i, w)
  BY Sizes DEF Bucket
<1> QED BY <1>1, <1>2, <1>3, FS_Subset DEF Indexes

LEMMA MovingMedianTyped ==
    ASSUME NEW w \in Windows, NEW f \in [Indexes -> Int]
    PROVE  MovingMedian(f, w) \in [Indexes -> Int]
<1>1. ASSUME NEW i \in Indexes PROVE MedianOf(f, Bucket(i, w)) \in Int
  BY BucketFinite, MedianTyped
<1> QED BY <1>1 DEF MovingMedian

\* A single sample off a flat trace is gone after denoising.
LEMMA SpikeRemoved ==
    ASSUME NEW w \in Windows, NEW f \in [Indexes -> Int], NEW k \in Indexes,
           NEW v \in Int, \A i \in Indexes \ {k} : f[i] = v,
           w >= 4 \/ (w >= 2 /\ k \in 2 .. Size - 3), NEW i \in Indexes
    PROVE  MovingMedian(f, w)[i] = v
<1> DEFINE B == Bucket(i, w)
           E == B \ {k}
           h == Half(w)
<1>1. IsFiniteSet(B) /\ B \subseteq Indexes /\ i \in B
  BY BucketFinite
<1>2. IsFiniteSet(E) /\ Cardinality(B) \in Nat /\ Cardinality(B) >= 1
      /\ Cardinality(E) = IF k \in B THEN Cardinality(B) - 1 ELSE Cardinality(B)
  <2>1. Cardinality(B) \in Nat /\ Cardinality(B) # 0
    BY <1>1, FS_CardinalityType, FS_EmptySet
  <2> HIDE DEF B
  <2> QED BY <1>1, <2>1, FS_RemoveElement
<1>3. ASSUME k \in B PROVE Cardinality(B) >= 3
  <2>1. PICK a \in Nat : a .. a + 2 \in SUBSET B
    <3>1. h \in Nat /\ h >= 1 /\ (w >= 4 => h >= 2) /\ i \in 0 .. Size - 1
      BY Sizes DEF Half, Indexes
    <3>2. i = 0 => h >= 2
      <4> SUFFICES ASSUME i = 0, ~ (w >= 4) PROVE h >= 2
        BY <3>1
      <4>1. k \in 2 .. Size - 3 /\ k <= h
        BY <1>3, Sizes, <3>1 DEF Bucket, Indexes
      <4> QED BY <3>1, <4>1, Sizes
    <3>3. i = Size - 1 => h >= 2
      <4> SUFFICES ASSUME i = Size - 1, ~ (w >= 4) PROVE h >= 2
        BY <3>1
      <4>1. k \in 2 .. Size - 3 /\ i - h <= k
        BY <1>3, Sizes, <3>1 DEF Bucket, Indexes
      <4> QED BY <3>1, <4>1, Sizes
    <3>4. \A j : j \in B <=> j \in 0 .. Size - 1 /\ i - h <= j /\ j <= i + h
      BY DEF Bucket, Indexes
    <3> HIDE DEF B, h
    <3>5. CASE i = 0
      <4>1. 0 .. 0 + 2 \in SUBSET B
        BY <3>1, <3>2, <3>4, <3>5, Sizes
      <4> QED BY <4>1
    <3>6. CASE i = Size - 1
      <4>1. i - 2 \in Nat /\ (i - 2) .. (i - 2) + 2 \in SUBSET B
        BY <3>1, <3>3, <3>4, <3>6, Sizes
      <4> QED BY <4>1
    <3>7. CASE i # 0 /\ i # Size - 1
      <4>1. i - 1 \in Nat /\ (i - 1) .. (i - 1) + 2 \in SUBSET B
        BY <3>1, <3>4, <3>7, Sizes
      <4> QED BY <4>1
    <3> QED BY <3>5, <3>6, <3>7
  <2>2. Cardinality(a .. a + 2) = 3
    BY FS_Interval
  <2>3. Cardinality(a .. a + 2) <= Cardinality(B)
    BY <1>1, <2>1, FS_Subset
  <2> QED BY <2>2, <2>3
<1>4. 2 * Cardinality(E) > Cardinality(B)
  <2> HIDE DEF B, E
  <2> QED BY <1>2, <1>3
<1>5. \A j \in E : f[j] = v
  BY <1>1
<1>6. MedianOf(f, B) = v
  <2>1. E \subseteq B /\ \A j \in B : f[j] \in Int
    BY <1>1
  <2> HIDE DEF B, E
  <2> QED BY <1>1, <1>4, <1>5, <2>1, MajorityIsMedian
<1> QED BY <1>6 DEF MovingMedian

\* Denoising changes nothing in a trace that is a single step, unless that is
\* nearer to an end than half the window.
LEMMA StepKept ==
    ASSUME NEW w \in Windows, NEW f \in [Indexes -> Int],
           NEW k \in Half(w) + 1 .. Size - Half(w) - 1,
           NEW a \in Int, NEW b \in Int,
           \A i \in 0 .. k - 1 : f[i] = a, \A i \in k .. Size - 1 : f[i] = b,
           NEW i \in Indexes
    PROVE  MovingMedian(f, w)[i] = f[i]
<1> DEFINE h == Half(w)
           lo == IF i >= h THEN i - h ELSE 0
           hi == IF i + h < Size THEN i + h ELSE Size - 1
           E == IF i < k THEN lo .. (IF hi < k THEN hi ELSE k - 1)
                         ELSE (IF lo < k THEN k ELSE lo) .. hi
<1>1. h \in Nat /\ Size \in Nat /\ i \in 0 .. Size - 1 /\ k \in h + 1 .. Size - h - 1
  BY Sizes DEF Indexes
<1>2. Bucket(i, w) = lo .. hi
  <2>1. \A j : j \in Bucket(i, w) <=> j \in 0 .. Size - 1 /\ i - h <= j /\ j <= i + h
    BY DEF Bucket, Indexes
  <2> HIDE DEF h
  <2>2. \A j : j \in lo .. hi <=> j \in 0 .. Size - 1 /\ i - h <= j /\ j <= i + h
    BY <1>1
  <2> QED BY <2>1, <2>2
<1> HIDE DEF h
<1>3. lo \in Nat /\ hi \in Nat /\ lo <= i /\ i <= hi /\ hi < Size
  BY <1>1
<1>4. IsFiniteSet(lo .. hi) /\ Cardinality(lo .. hi) = hi - lo + 1
  <2> HIDE DEF lo, hi
  <2>1. lo \in Int /\ hi \in Int /\ ~ (lo > hi)
    BY <1>1, <1>3
  <2> QED BY <2>1, FS_Interval
<1>5. E \subseteq lo .. hi /\ 2 * Cardinality(E) > hi - lo + 1 /\ \A j \in E : f[j] = f[i]
  <2>1. CASE i < k /\ hi < k
    <3>1. E = lo .. hi
      BY <2>1
    <3>2. \A j \in lo .. hi : f[j] = f[i]
      BY <1>1, <1>3, <2>1
    <3> HIDE DEF E, lo, hi
    <3>3. 2 * Cardinality(lo .. hi) > hi - lo + 1
      BY <1>1, <1>3, <1>4
    <3> QED BY <3>1, <3>2, <3>3
  <2>2. CASE i < k /\ ~ (hi < k)
    <3>1. E = lo .. k - 1
      BY <2>2
    <3>2. 2 * (k - lo) > hi - lo + 1
      BY <1>1, <2>2
    <3> HIDE DEF E, lo, hi
    <3>3. Cardinality(lo .. k - 1) = k - lo
      BY <1>1, <1>3, <2>2, FS_Interval
    <3>4. \A j \in lo .. k - 1 : f[j] = f[i]
      BY <1>1, <1>3, <2>2
    <3> QED BY <1>1, <1>3, <2>2, <3>1, <3>2, <3>3, <3>4
  <2>3. CASE ~ (i < k) /\ lo < k
    <3>1. E = k .. hi
      BY <2>3
    <3>2. 2 * (hi - k + 1) > hi - lo + 1
      BY <1>1, <2>3
    <3> HIDE DEF E, lo, hi
    <3>3. Cardinality(k .. hi) = hi - k + 1
      BY <1>1, <1>3, <2>3, FS_Interval
    <3>4. \A j \in k .. hi : f[j] = f[i]
      BY <1>1, <1>3, <2>3
    <3> QED BY <1>1, <1>3, <2>3, <3>1, <3>2, <3>3, <3>4
  <2>4. CASE ~ (i < k) /\ ~ (lo < k)
    <3>1. E = lo .. hi
      BY <2>4
    <3>2. \A j \in lo .. hi : f[j] = f[i]
      BY <1>1, <1>3, <2>4
    <3> HIDE DEF E, lo, hi
    <3>3. 2 * Cardinality(lo .. hi) > hi - lo + 1
      BY <1>1, <1>3, <1>4
    <3> QED BY <3>1, <3>2, <3>3
  <2> QED BY <2>1, <2>2, <2>3, <2>4
<1> HIDE DEF E, lo, hi
<1>6. \A j \in lo .. hi : f[j] \in Int
  BY <1>1, <1>3 DEF Indexes
<1>7. f[i] \in Int
  OBVIOUS
<1>8. MedianOf(f, lo .. hi) = f[i]
  <2> DEFINE B == lo .. hi
  <2>1. 2 * Cardinality(E) > Cardinality(B)
    BY <1>4, <1>5
  <2>2. IsFiniteSet(B) /\ E \subseteq B /\ \A j \in B : f[j] \in Int
    BY <1>4, <1>5, <1>6
  <2> HIDE DEF B
  <2>3. MedianOf(f, B) = f[i]
    BY <1>5, <1>7, <2>1, <2>2, MajorityIsMedian
  <2> QED BY <2>3 DEF B
<1> QED BY <1>2, <1>8 DEF MovingMedian

-----------------------------------------------------------------------------
(* The inductive invariant. *)

LEMMA MagnitudeTyped ==
    ASSUME Typed, NEW p \in Indexes \ {0}
    PROVE  Magnitude(p) \in Int
<1>1. p - 1 \in Indexes /\ p \in Indexes
  BY Sizes DEF Indexes
<1>2. filtered[p] \in Int /\ filtered[p - 1] \in Int
  BY <1>1 DEF Typed
<1> QED BY <1>2 DEF Magnitude

LEMMA TracesTyped == Traces \subseteq [Indexes -> Int]
<1> SUFFICES ASSUME NEW s \in Stretches, NEW f \in [s[1] .. s[2] -> Levels],
                    NEW i \in Indexes
             PROVE  f[IF i < s[1] THEN s[1] ELSE IF i > s[2] THEN s[2] ELSE i] \in Int
  BY DEF Traces
<1>1. /\ s[1] \in Nat /\ s[2] \in Nat /\ s[1] <= s[2]
      /\ \A v \in Levels : v \in Int
  BY InputAssumption
<1>2. (IF i < s[1] THEN s[1] ELSE IF i > s[2] THEN s[2] ELSE i) \in s[1] .. s[2]
  BY <1>1, Sizes
<1> QED BY <1>1, <1>2

LEMMA SoundInit == Init => Sound
<1> SUFFICES ASSUME Init PROVE Sound
  OBVIOUS
<1>1. Typed
  BY TracesTyped DEF Init, Typed
<1> QED BY <1>1 DEF Init, Sound, Waiting, Starting, Merging, Merged, Locating

LEMMA SoundDenoise == ASSUME Sound, Denoise PROVE Sound'
<1>1. Typed'
  BY MovingMedianTyped DEF Sound, Typed, Denoise
<1> QED
  BY <1>1 DEF Sound, Denoise, Waiting, Starting, Merging, Merged, Locating

LEMMA SoundDerivativePeaks == ASSUME Sound, DerivativePeaks PROVE Sound'
<1>1. Typed'
  BY DEF Sound, Typed, DerivativePeaks
<1>2. Peaks' = Peaks /\ todo' = Peaks
  BY DEF DerivativePeaks, Peaks, Magnitude
<1>3. current' = NoPeak /\ merged' = {} /\ pc' = "merge"
  BY DEF Sound, Starting, DerivativePeaks
<1>4. Merging'
  BY <1>2, <1>3 DEF Merging, Spaced
<1>5. Waiting'
  BY DEF Sound, Waiting, DerivativePeaks
<1> QED BY <1>1, <1>3, <1>4, <1>5 DEF Sound, Starting, Merged, Locating

\* A neighbour that is at least as strong stays one while more peaks are kept.
LEMMA CoveredKept ==
    ASSUME UNCHANGED filtered, merged \subseteq merged', NEW p, Covered(p)
    PROVE  Covered(p)'
<1>1. \A q : Magnitude(q)' = Magnitude(q)
  BY DEF Magnitude
<1> QED BY <1>1 DEF Covered

LEMMA SoundMergePeaks == ASSUME Sound, MergePeaks PROVE Sound'
<1> DEFINE p == First(todo)
<1>1. /\ pc = "merge" /\ pc' = "merge"
      /\ todo' = todo \ {p}
      /\ UNCHANGED <<raw, window, filtered, events, rejected>>
      /\ \/ /\ Joins(p)
            /\ current' = IF Stronger(p) THEN p ELSE current
            /\ merged' = merged
         \/ /\ ~ Joins(p)
            /\ merged' = Finished
            /\ current' = p
      /\ todo # {}
  BY DEF MergePeaks
<1>2. Typed' /\ Waiting' /\ Starting' /\ Merged' /\ Locating'
  BY <1>1 DEF Sound, Typed, Waiting, Starting, Merged, Locating
<1>3. Peaks' = Peaks /\ \A q : Magnitude(q)' = Magnitude(q)
  BY <1>1 DEF Peaks, Magnitude
<1>4. /\ todo \subseteq Peaks /\ merged \subseteq Peaks /\ Spaced
      /\ \/ current = NoPeak /\ merged = {}
         \/ /\ current \in Peaks
            /\ \A q \in todo : current < q
            /\ \A q \in merged : current - q > mergeWindow
      /\ \A q \in Peaks \ todo : q = current \/ Covered(q)
  BY <1>1 DEF Sound, Merging
<1>5. Peaks \subseteq Indexes \ {0} /\ Peaks \subseteq Nat /\ NoPeak \notin Peaks
  BY Sizes DEF Peaks
<1>6. p \in todo /\ \A q \in todo : p <= q
  BY <1>1, <1>4, <1>5, FirstIs
<1>7. ASSUME NEW q \in todo' PROVE p < q
  <2>1. q \in Nat /\ p \in Nat /\ p <= q /\ p # q
    BY <1>1, <1>4, <1>5, <1>6
  <2> HIDE DEF p
  <2> QED BY <2>1
<1> HIDE DEF p
<1>8. p \in Peaks /\ p \in Nat /\ p \in Indexes \ {0} /\ mergeWindow \in Nat
  BY <1>4, <1>5, <1>6, Sizes
<1>9. CASE Joins(p)
  <2>1. /\ current \in Peaks /\ current \in Nat /\ current < p
        /\ p - current <= mergeWindow
        /\ merged' = merged
        /\ current' = IF Stronger(p) THEN p ELSE current
    BY <1>1, <1>4, <1>5, <1>6, <1>9 DEF Joins
  <2>2. Spaced'
    BY <1>4, <2>1 DEF Spaced
  <2>3. current' \in Peaks /\ current' \in {p, current}
    BY <1>8, <2>1
  <2>4. ASSUME NEW q \in todo' PROVE current' < q
    <3>1. p < q /\ q \in Nat
      BY <1>1, <1>4, <1>5, <1>7
    <3> QED BY <1>8, <2>1, <2>3, <3>1
  <2>5. ASSUME NEW q \in merged' PROVE current' - q > mergeWindow
    <3>1. current - q > mergeWindow /\ q \in Nat
      BY <1>4, <1>5, <2>1
    <3> QED BY <1>8, <2>1, <2>3, <3>1
  <2>6. ASSUME NEW q \in Peaks \ todo' PROVE q = current' \/ Covered(q)'
    <3>1. Magnitude(p) \in Int /\ Magnitude(current) \in Int
      BY <1>5, <1>8, <2>1, MagnitudeTyped DEF Sound
    <3>2. Apart(p, current) <= mergeWindow /\ Apart(current, p) <= mergeWindow
          /\ p # current /\ current \in Indexes \ {0}
      BY <1>5, <1>8, <2>1 DEF Apart
    <3>3. CASE q # p /\ q # current
      <4>1. Covered(q)
        BY <1>1, <1>4, <3>3
      <4> QED BY <1>1, <2>1, <4>1, CoveredKept
    <3>4. CASE Stronger(p) /\ q = current
      <4>1. Magnitude(p) >= Magnitude(current)
        BY <3>1, <3>4 DEF Stronger
      <4> QED BY <1>3, <1>8, <3>2, <3>4, <4>1 DEF Covered
    <3>5. CASE ~ Stronger(p) /\ q = p
      <4>1. Magnitude(current) >= Magnitude(p)
        BY <3>1, <3>5 DEF Stronger
      <4> QED BY <1>3, <1>8, <3>2, <3>5, <4>1 DEF Covered
    <3> QED BY <2>1, <3>3, <3>4, <3>5
  <2>7. Merging'
    BY <1>1, <1>3, <1>4, <2>1, <2>2, <2>3, <2>4, <2>5, <2>6 DEF Merging
  <2> QED BY <1>2, <2>7 DEF Sound
<1>10. CASE ~ Joins(p)
  <2>1. current' = p /\ merged' = Finished
    BY <1>1, <1>10
  <2>2. merged' \subseteq Peaks /\ merged \subseteq merged'
    BY <1>4, <2>1 DEF Finished
  <2>3. ASSUME NEW q \in merged' PROVE p - q > mergeWindow /\ q \in Nat
    <3>1. current # NoPeak /\ current \in Peaks /\ current \in Nat
      BY <1>4, <1>5, <2>1 DEF Finished
    <3>2. p - current > mergeWindow
      BY <1>8, <1>10, <3>1 DEF Joins
    <3>3. CASE q = current
      BY <3>1, <3>2, <3>3
    <3>4. CASE q \in merged
      <4>1. current - q > mergeWindow /\ q \in Nat
        BY <1>4, <1>5, <3>1, <3>4
      <4> QED BY <1>8, <3>1, <3>2, <4>1
    <3> QED BY <2>1, <3>1, <3>3, <3>4 DEF Finished
  <2>4. Spaced'
    <3> SUFFICES ASSUME NEW x \in merged', NEW y \in merged', x # y
                 PROVE  Apart(x, y) > mergeWindow
      BY DEF Spaced
    <3>1. x \in Nat /\ y \in Nat /\ (x \in merged \/ x = current) /\ (y \in merged \/ y = current)
      BY <2>1, <2>3 DEF Finished
    <3>2. CASE x \in merged /\ y \in merged
      BY <1>4, <3>2 DEF Spaced
    <3>3. CASE x = current /\ y \in merged
      <4>1. x - y > mergeWindow
        BY <1>4, <3>3
      <4> QED BY <1>8, <3>1, <4>1 DEF Apart
    <3>4. CASE x \in merged /\ y = current
      <4>1. y - x > mergeWindow
        BY <1>4, <3>4
      <4> QED BY <1>8, <3>1, <4>1 DEF Apart
    <3> QED BY <3>1, <3>2, <3>3, <3>4
  <2>5. ASSUME NEW q \in Peaks \ todo' PROVE q = p \/ Covered(q)'
    <3>1. CASE q \in todo
      BY <1>1, <3>1
    <3>2. CASE q = current
      <4>1. q \in merged'
        BY <1>5, <2>1, <3>2 DEF Finished
      <4> QED BY <4>1 DEF Covered
    <3>3. CASE q \notin todo /\ q # current
      <4>1. Covered(q)
        BY <1>4, <3>3
      <4> QED BY <1>1, <2>2, <4>1, CoveredKept
    <3> QED BY <3>1, <3>2, <3>3
  <2>6. Merging'
    <3>1. todo' \subseteq Peaks'
      BY <1>1, <1>3, <1>4
    <3> QED BY <1>3, <1>7, <1>8, <2>1, <2>2, <2>3, <2>4, <2>5, <3>1 DEF Merging
  <2> QED BY <1>2, <2>6 DEF Sound
<1> QED BY <1>9, <1>10

LEMMA SoundMergeLast == ASSUME Sound, MergeLast PROVE Sound'
<1>1. /\ pc = "merge" /\ pc' = "locate" /\ todo = {}
      /\ merged' = Finished /\ todo' = Finished /\ current' = NoPeak
      /\ UNCHANGED <<raw, window, filtered, events, rejected>>
  BY DEF MergeLast
<1>2. Typed' /\ Waiting' /\ Starting' /\ Merging'
  BY <1>1 DEF Sound, Typed, Waiting, Starting, Merging
<1>3. Peaks' = Peaks
  BY <1>1 DEF Peaks, Magnitude
<1>4. /\ merged \subseteq Peaks /\ Spaced
      /\ \/ current = NoPeak /\ merged = {}
         \/ /\ current \in Peaks
            /\ \A q \in merged : current - q > mergeWindow
      /\ \A q \in Peaks : q = current \/ Covered(q)
  BY <1>1 DEF Sound, Merging
<1>5. Peaks \subseteq Nat /\ NoPeak \notin Peaks
  BY Sizes DEF Peaks
<1>6. merged' \subseteq Peaks /\ merged \subseteq merged'
  BY <1>1, <1>4 DEF Finished
<1>7. Spaced'
  <2> SUFFICES ASSUME NEW x \in merged', NEW y \in merged', x # y
               PROVE  Apart(x, y) > mergeWindow
    BY DEF Spaced
  <2>1. x \in Nat /\ y \in Nat /\ (x \in merged \/ x = current) /\ (y \in merged \/ y = current)
    BY <1>1, <1>5, <1>6 DEF Finished
  <2>2. CASE x \in merged /\ y \in merged
    BY <1>4, <2>2 DEF Spaced
  <2>3. CASE x = current /\ y \in merged
    <3>1. x - y > mergeWindow
      BY <1>4, <2>3
    <3> QED BY <2>1, <3>1, Sizes DEF Apart
  <2>4. CASE x \in merged /\ y = current
    <3>1. y - x > mergeWindow
      BY <1>4, <2>4
    <3> QED BY <2>1, <3>1, Sizes DEF Apart
  <2> QED BY <2>1, <2>2, <2>3, <2>4
<1>8. ASSUME NEW q \in Peaks PROVE Covered(q)'
  <2>1. CASE q = current
    <3>1. q \in merged'
      BY <1>1, <1>5, <2>1 DEF Finished
    <3> QED BY <3>1 DEF Covered
  <2>2. CASE q # current
    BY <1>1, <1>4, <1>6, <2>2, CoveredKept
  <2> QED BY <2>1, <2>2
<1>9. Merged'
  BY <1>3, <1>6, <1>7, <1>8 DEF Merged
<1>10. Locating'
  BY <1>1 DEF Sound, Waiting, Locating, FoundAlone
<1> QED BY <1>2, <1>9, <1>10 DEF Sound

LEMMA SoundLocate == ASSUME Sound, Locate PROVE Sound'
<1>1. pc = "locate" /\ pc' \in {"locate", "done"}
      /\ UNCHANGED <<raw, window, filtered, current, merged>>
  BY DEF Locate
<1>2. Typed' /\ Waiting' /\ Starting' /\ Merging'
  BY <1>1 DEF Sound, Typed, Waiting, Starting, Merging
<1>3. Merged'
  <2>1. Peaks' = Peaks
    BY <1>1 DEF Peaks, Magnitude
  <2>2. merged \subseteq Peaks /\ Spaced /\ \A p \in Peaks : Covered(p)
    BY <1>1 DEF Sound, Merged
  <2>3. \A p \in Peaks : Covered(p)'
    BY <1>1, <2>2, CoveredKept
  <2> QED BY <1>1, <2>1, <2>2, <2>3 DEF Merged, Spaced
<1>4. Locating'
  <2> SUFFICES ASSUME NEW p \in Indexes, merged = {p} PROVE FoundAlone(p)'
    BY <1>1 DEF Locating
  <2>1. FoundAlone(p)
    BY <1>1 DEF Sound, Locating
  <2>2. EventAt(p)' = EventAt(p)
    BY <1>1 DEF EventAt, ClassifyPeak, Magnitude, Rises
  <2>3. CASE todo = {}
    <3>1. UNCHANGED <<todo, events, rejected>>
      BY <2>3 DEF Locate
    <3> QED BY <2>1, <2>2, <2>3, <3>1 DEF FoundAlone
  <2>4. CASE todo # {}
    <3>1. todo = {p} /\ events = <<>> /\ rejected = 0
      BY <2>1, <2>4 DEF FoundAlone
    <3>2. First(todo) = p
      BY <3>1 DEF First
    <3>3. todo' = {}
      BY <3>1, <3>2, <2>4 DEF Locate
    <3>4. IF SampleDistance(p) <= routeLength
          THEN events' = Append(<<>>, EventAt(p))
          ELSE events' = <<>> /\ rejected' = 1
      BY <3>1, <3>2, <2>4 DEF Locate, ValidRouteDistance
    <3>5. Append(<<>>, EventAt(p)) = <<EventAt(p)>>
      OBVIOUS
    <3> QED BY <2>2, <3>3, <3>4, <3>5 DEF FoundAlone
  <2> QED BY <2>3, <2>4
<1> QED BY <1>2, <1>3, <1>4 DEF Sound

LEMMA SoundStep == Sound /\ [Next]_vars => Sound'
<1> SUFFICES ASSUME Sound, [Next]_vars PROVE Sound'
  OBVIOUS
<1>1. CASE UNCHANGED vars
  <2>1. /\ Peaks' = Peaks
        /\ \A p : Covered(p)' <=> Covered(p)
        /\ \A p : EventAt(p)' = EventAt(p)
    BY <1>1 DEF vars, Peaks, Covered, EventAt, ClassifyPeak, Magnitude, Rises
  <2> QED
    BY <1>1, <2>1
    DEF vars, Sound, Typed, Waiting, Starting, Merging, Merged, Spaced, Locating, FoundAlone
<1>2. CASE Next
  BY <1>2, SoundDenoise, SoundDerivativePeaks, SoundMergePeaks, SoundMergeLast,
     SoundLocate DEF Next
<1> QED BY <1>1, <1>2

LEMMA AlwaysSound == Spec => []Sound
  BY SoundInit, SoundStep, PTL DEF Spec

-----------------------------------------------------------------------------
(* The theorems. *)

\* MergePeaks keeps peaks that are further apart than its window and drops
\* none that has no neighbour within the window at least as strong.
THEOREM PeaksAreMergedWell == Spec => []MergedWell
<1>1. Sound => MergedWell
  BY DEF Sound, Merged, MergedWell, Spaced, Covered, Peaks
<1> QED BY <1>1, AlwaysSound, PTL

\* With one place where the filtered samples change, and by the threshold, one
\* peak is left.
LEMMA SinglePeak ==
    ASSUME Sound, pc = "done", NEW k \in Indexes \ {0}, Peaks = {k}
    PROVE  merged = {k}
<1>1. merged \subseteq {k} /\ Covered(k)
  BY DEF Sound, Merged
<1>2. ASSUME NEW q \in Indexes \ {0, k}, Magnitude(q) >= Magnitude(k) PROVE FALSE
  <2>1. Magnitude(q) \in Int /\ Magnitude(k) \in Int /\ Magnitude(k) >= threshold
    BY MagnitudeTyped DEF Sound, Peaks
  <2>2. Magnitude(q) >= threshold
    BY <1>2, <2>1, Sizes
  <2> QED BY <2>2 DEF Peaks
<1> QED BY <1>1, <1>2 DEF Covered

\* A step that exceeds the threshold, further from the ends than half the window,
\* is found where it is, alone, and with its full height, whatever the window
\* of the median.
THEOREM StepsAreFound == Spec => []StepsFound
<1>1. Sound => StepsFound
  <2> SUFFICES ASSUME Sound, pc = "done",
                      NEW k \in Half(window) + 1 .. Size - Half(window) - 1, StepAt(k)
               PROVE  IF SampleDistance(k) <= routeLength
                      THEN /\ Len(events) = 1
                           /\ events[1].index = k
                           /\ raw[k] < raw[0] => events[1].loss = raw[0] - raw[k]
                      ELSE events = <<>> /\ rejected = 1
    BY DEF StepsFound
  <2> DEFINE a == raw[0]
             b == raw[Size - 1]
  <2>1. /\ window \in Windows /\ raw \in [Indexes -> Int] /\ Half(window) \in Nat
        /\ filtered = MovingMedian(raw, window)
    BY Sizes DEF Sound, Typed
  <2>2. k \in 1 .. Size - 1 /\ 0 \in Indexes /\ Size - 1 \in Indexes /\ k \in Indexes \ {0}
    BY <2>1, Sizes DEF Indexes
  <2>3. /\ a \in Int /\ b \in Int
        /\ \A i \in 0 .. k - 1 : raw[i] = a
        /\ \A i \in k .. Size - 1 : raw[i] = b
        /\ Apart(a, b) > threshold
    BY <2>1, <2>2 DEF StepAt
  <2> HIDE DEF a, b
  <2>4. ASSUME NEW i \in Indexes PROVE filtered[i] = raw[i]
    BY <2>1, <2>3, StepKept
  <2>5. ASSUME NEW p \in Indexes \ {0}
        PROVE  /\ filtered[p - 1] = IF p - 1 < k THEN a ELSE b
               /\ filtered[p] = IF p < k THEN a ELSE b
    <3>1. p - 1 \in Indexes /\ p \in 1 .. Size - 1
      BY Sizes DEF Indexes
    <3> QED BY <2>2, <2>3, <2>4, <3>1, Sizes
  <2>6. Peaks = {k}
    <3>1. ASSUME NEW p \in Indexes \ {0}, p # k PROVE Magnitude(p) = 0
      <4>1. p - 1 < k <=> p < k
        BY <2>2, <3>1, Sizes DEF Indexes
      <4> QED BY <2>3, <2>5, <3>1, <4>1 DEF Magnitude
    <3>2. Magnitude(k) >= threshold
      <4>1. filtered[k - 1] = a /\ filtered[k] = b
        BY <2>2, <2>5
      <4> QED BY <2>3, <4>1, Sizes DEF Magnitude, Apart
    <3>3. ~ (0 >= threshold)
      BY Sizes
    <3> QED BY <2>2, <3>1, <3>2, <3>3 DEF Peaks
  <2>7. merged = {k}
    BY <2>2, <2>6, SinglePeak
  <2>8. IF SampleDistance(k) <= routeLength THEN events = <<EventAt(k)>>
                                            ELSE events = <<>> /\ rejected = 1
    BY <2>2, <2>7 DEF Sound, Locating, FoundAlone
  <2>9. /\ EventAt(k).index = k
        /\ raw[k] < raw[0] => EventAt(k).loss = raw[0] - raw[k]
    <3>1. filtered[k - 1] = raw[0] /\ filtered[k] = raw[k]
      BY <2>2, <2>4, <2>5 DEF a
    <3>2. raw[0] \in Int /\ raw[k] \in Int
      BY <2>1, <2>2
    <3>3. /\ EventAt(k).index = k
          /\ EventAt(k).loss = IF Rises(k) THEN 0 ELSE Magnitude(k)
      BY DEF EventAt
    <3>4. raw[k] < raw[0] => ~ Rises(k) /\ Magnitude(k) = raw[0] - raw[k]
      BY <3>1, <3>2 DEF Rises, Magnitude
    <3> QED BY <3>3, <3>4
  <2> QED BY <2>8, <2>9
<1> QED BY <1>1, AlwaysSound, PTL

\* A single sample off a flat trace yields no peak, at whatever place a window
\* of four or more looks, and away from the ends with a window of two or three.
THEOREM SpikesAreIgnored == Spec => []SpikesIgnored
<1>1. Sound => SpikesIgnored
  <2> SUFFICES ASSUME Sound, pc = "done", NEW k \in Indexes, SpikeAt(k),
                      window >= 4 \/ (window >= 2 /\ k \in 2 .. Size - 3)
               PROVE  merged = {}
    BY DEF SpikesIgnored
  <2> DEFINE v == raw[IF k = 0 THEN 1 ELSE 0]
  <2>1. /\ window \in Windows /\ raw \in [Indexes -> Int]
        /\ filtered = MovingMedian(raw, window)
    BY DEF Sound, Typed
  <2>2. v \in Int /\ \A i \in Indexes \ {k} : raw[i] = v
    <3>1. 0 \in Indexes /\ 1 \in Indexes
      BY Sizes DEF Indexes
    <3> QED BY <2>1, <3>1 DEF SpikeAt
  <2> HIDE DEF v
  <2>3. ASSUME NEW i \in Indexes PROVE filtered[i] = v
    BY <2>1, <2>2, SpikeRemoved
  <2>4. ASSUME NEW p \in Indexes \ {0} PROVE Magnitude(p) = 0
    <3>1. p - 1 \in Indexes
      BY Sizes DEF Indexes
    <3> QED BY <2>2, <2>3, <3>1 DEF Magnitude
  <2>5. Peaks = {}
    <3>1. ~ (0 >= threshold)
      BY Sizes
    <3> QED BY <2>4, <3>1 DEF Peaks
  <2> QED BY <2>5 DEF Sound, Merged
<1> QED BY <1>1, AlwaysSound, PTL
=============================================================================
