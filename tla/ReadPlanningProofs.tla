-------------------------- MODULE ReadPlanningProofs --------------------------
(***************************************************************************)
(* How a read is divided, for all arguments, tables and schedules: the     *)
(* intervals of a range split are disjoint and complete (RangePlan), the   *)
(* groups of a partition split exact and balanced (PartitionGroups), and   *)
(* whatever other clients insert and delete while the tasks run, no row is *)
(* read twice and no row that stays is lost (SplitRead).                   *)
(***************************************************************************)
EXTENDS RangePlan, PartitionGroups, SplitRead, FiniteSetTheorems, WellFoundedInduction,
        TLAPS
-----------------------------------------------------------------------------
(* Natural numbers, recursive functions, finite sets and sequences *)

\* Every non-empty set of natural numbers has a least element.
LEMMA LeastNat ==
    ASSUME NEW T, T \subseteq Nat, T # {}
    PROVE  \E x \in T : \A y \in T : x <= y
<1>1. PICK x \in T : \A y \in T : <<y, x>> \notin OpToRel(<, Nat)
  BY NatLessThanWellFounded, WFMin
<1>2. \A y \in T : ~(y < x)
  BY <1>1 DEF OpToRel
<1> QED BY <1>2

\* Induction, for the set of the numbers that have a property.
LEMMA InductNat ==
    ASSUME NEW S, 0 \in S, \A n \in Nat : n \in S => n + 1 \in S
    PROVE  \A n \in Nat : n \in S
<1> SUFFICES ASSUME Nat \ S # {} PROVE FALSE
  OBVIOUS
<1>1. PICK x \in Nat \ S : \A y \in Nat \ S : x <= y
  BY LeastNat
<1>2. x # 0 /\ x - 1 \in Nat /\ ~(x <= x - 1)
  BY <1>1
<1>3. x - 1 \in S
  BY <1>1, <1>2
<1>4. (x - 1) + 1 \in S
  BY <1>2, <1>3
<1> QED BY <1>1, <1>4

\* The functions on 0..N that are defined by recursion: by their first value
\* and by how each of the others follows from the one before.
Recursions(N, S, zero, op) ==
    {f \in [0..N -> S] : f[0] = zero /\ \A i \in 1..N : f[i] = op[i][f[i - 1]]}

LEMMA RecursiveFunction ==
    ASSUME NEW N \in Nat, NEW S, NEW zero \in S, NEW op \in [1..N -> [S -> S]]
    PROVE  Recursions(N, S, zero, op) # {}
<1> DEFINE Upto(m, f) == f[0] = zero /\ \A i \in 1..m : f[i] = op[i][f[i - 1]]
           Good == {m \in Nat : m <= N => \E f \in [0..m -> S] : Upto(m, f)}
<1>1. 0 \in Good
  <2> DEFINE f == [i \in 0..0 |-> zero]
  <2>1. f \in [0..0 -> S] /\ Upto(0, f)
    OBVIOUS
  <2> QED BY <2>1
<1>2. ASSUME NEW m \in Nat, m \in Good PROVE m + 1 \in Good
  <2> SUFFICES ASSUME m + 1 <= N PROVE \E g \in [0..(m + 1) -> S] : Upto(m + 1, g)
    OBVIOUS
  <2>1. PICK f \in [0..m -> S] : Upto(m, f)
    BY <1>2
  <2> DEFINE g == [i \in 0..(m + 1) |-> IF i <= m THEN f[i] ELSE op[m + 1][f[m]]]
  <2>2. op[m + 1][f[m]] \in S
    BY <2>1
  <2>3. g \in [0..(m + 1) -> S]
    BY <2>1, <2>2
  <2>4. g[0] = zero
    BY <2>1
  <2>5. ASSUME NEW i \in 1..(m + 1) PROVE g[i] = op[i][g[i - 1]]
    <3>1. CASE i <= m
      BY <2>1, <3>1
    <3>2. CASE i = m + 1
      BY <2>1, <3>2
    <3> QED BY <3>1, <3>2
  <2> QED BY <2>3, <2>4, <2>5
<1> HIDE DEF Good
<1>3. N \in Good
  BY <1>1, <1>2, InductNat
<1> QED BY <1>3 DEF Good, Recursions

LEMMA RecursionStep ==
    ASSUME NEW N \in Nat, NEW S, NEW zero, NEW op, NEW f \in Recursions(N, S, zero, op)
    PROVE  /\ f \in [0..N -> S] /\ f[0] = zero
           /\ \A i \in 1..N : f[i - 1] \in S /\ f[i] = op[i][f[i - 1]]
BY DEF Recursions

\* Among finitely many integers there are a smallest and a largest.
LEMMA Extremes ==
    ASSUME NEW S, IsFiniteSet(S), S \subseteq Int, S # {}
    PROVE  /\ Min(S) \in S /\ \A v \in S : Min(S) <= v
           /\ Max(S) \in S /\ \A v \in S : v <= Max(S)
<1> DEFINE Sized(n) == {T \in SUBSET S : Cardinality(T) = n /\ T # {}}
           Good == {n \in Nat : \A T \in Sized(n) :
                      \E x, z \in T : \A y \in T : x <= y /\ y <= z}
<1>1. 0 \in Good
  <2>1. Sized(0) = {}
    BY FS_Subset, FS_EmptySet
  <2> QED BY <2>1
<1>2. ASSUME NEW n \in Nat, n \in Good PROVE n + 1 \in Good
  <2> SUFFICES ASSUME NEW T \in SUBSET S, Cardinality(T) = n + 1, T # {}
               PROVE  \E x, z \in T : \A y \in T : x <= y /\ y <= z
    OBVIOUS
  <2>1. PICK a \in T : TRUE
    OBVIOUS
  <2> DEFINE U == T \ {a}
  <2>2. IsFiniteSet(T)
    BY FS_Subset
  <2>3. Cardinality(U) = n /\ U \in SUBSET S
    <3>1. Cardinality(U) = Cardinality(T) - 1
      BY <2>2, FS_RemoveElement
    <3> QED BY <3>1
  <2>4. CASE U = {}
    <3>1. T = {a} /\ a \in Int
      BY <2>4
    <3> QED BY <3>1
  <2>5. CASE U # {}
    <3>1. PICK x \in U, z \in U : \A y \in U : x <= y /\ y <= z
      BY <1>2, <2>3, <2>5
    <3>2. x \in Int /\ z \in Int /\ a \in Int /\ U \subseteq Int
      OBVIOUS
    <3>3. PICK l \in {x, a} : l <= x /\ l <= a
      BY <3>2
    <3>4. PICK g \in {z, a} : z <= g /\ a <= g
      BY <3>2
    <3>5. l \in T /\ g \in T /\ l \in Int /\ g \in Int
      BY <3>2
    <3>6. ASSUME NEW y \in T PROVE l <= y /\ y <= g
      <4>1. CASE y = a
        BY <3>3, <3>4, <4>1
      <4>2. CASE y # a
        <5>1. y \in U /\ y \in Int /\ x <= y /\ y <= z
          BY <3>1, <4>2
        <5> QED BY <3>2, <3>3, <3>4, <3>5, <5>1
      <4> QED BY <4>1, <4>2
    <3> QED BY <3>5, <3>6
  <2> QED BY <2>4, <2>5
<1> HIDE DEF Good
<1>3. Cardinality(S) \in Nat /\ \A n \in Nat : n \in Good
  BY <1>1, <1>2, InductNat, FS_CardinalityType
<1>4. PICK x \in S, z \in S : \A y \in S : x <= y /\ y <= z
  BY <1>3 DEF Good
<1>5. \E v \in S : \A w \in S : v <= w
  BY <1>4
<1>6. \E v \in S : \A w \in S : v >= w
  BY <1>4
<1>7. Min(S) \in S /\ \A v \in S : Min(S) <= v
  BY <1>5, Zenon DEF Min
<1>8. Max(S) \in S /\ \A v \in S : Max(S) >= v
  BY <1>6, Zenon DEF Max
<1> QED BY <1>7, <1>8

LEMMA IsASequence ==
    ASSUME NEW S, NEW n \in Nat, NEW f \in [1..n -> S]
    PROVE  f \in Seq(S) /\ Len(f) = n
OBVIOUS

LEMMA Concatenated ==
    ASSUME NEW S, NEW a \in Seq(S), NEW b \in Seq(S)
    PROVE  /\ a \o b \in Seq(S) /\ Len(a) \in Nat /\ Len(b) \in Nat
           /\ Len(a \o b) = Len(a) + Len(b)
           /\ \A i \in 1..Len(a) : (a \o b)[i] = a[i]
           /\ \A i \in 1..Len(b) : (a \o b)[Len(a) + i] = b[i]
OBVIOUS

(* Multiplication and division, which Z3 proves *)

LEMMA Division ==
    \A a \in Int, s \in Nat \ {0} : s * (a \div s) <= a /\ a < s * (a \div s) + s
BY Z3

LEMMA Multiple == \A s, i \in Int : s * i \in Int /\ s * (i + 1) = s * i + s
BY Z3

LEMMA Between ==
    \A s \in Nat \ {0}, p, q \in Int : s * p < s * q + s /\ s * q < s * p + s => p = q
BY Z3

LEMMA Below == \A s \in Nat \ {0}, p, q \in Int : s * p < s * q + s => p <= q
BY Z3

LEMMA Ceiling ==
    ASSUME NEW w \in Int, NEW s \in Nat \ {0}, NEW j \in Int, w <= s * j, s * j < w + s
    PROVE  (w + s - 1) \div s = j
<1> DEFINE q == (w + s - 1) \div s
<1>1. q \in Int
  BY Z3
<1>2. s * q <= w + s - 1 /\ w + s - 1 < s * q + s
  BY Division
<1>3. s * q \in Int /\ s * j \in Int
  BY <1>1
<1> HIDE DEF q
<1>4. s * q < s * j + s /\ s * j < s * q + s
  BY <1>2, <1>3
<1>5. q = j
  BY <1>1, <1>4, Between
<1> QED BY <1>5 DEF q

LEMMA Monotone == \A s \in Nat, p, q \in Int : p <= q => s * p <= s * q
BY Z3

-----------------------------------------------------------------------------
(* RangeIntervals *)

\* The sizes the intervals are made with.
LEMMA SizesOf ==
    ASSUME NEW f, IsFacts(f), NEW q, q.target \in Nat, q.max \in Nat \ {0}, ~Trivial(f, q)
    PROVE  /\ f.minimum \in Int /\ f.maximum \in Int /\ f.minimum < f.maximum
           /\ TaskCount(f, q) \in Nat /\ TaskCount(f, q) >= 2
           /\ Step(f, q) \in Nat /\ Step(f, q) >= 1
<1>1. /\ f.minimum \in Int /\ f.maximum \in Int
      /\ f.minimum < f.maximum
      /\ f.total \in Nat /\ f.total >= 2
  BY NoneAssumption DEF IsFacts, Trivial
<1>2. TaskCount(f, q) \in Nat /\ TaskCount(f, q) >= 1
  BY <1>1 DEF TaskCount, Least, Greatest
<1>3. TaskCount(f, q) >= 2
  BY <1>2 DEF Trivial
<1>4. \A a, n \in Int : n >= 1 => (a \div n) \in Int
  OBVIOUS
<1>5. (Width(f) + TaskCount(f, q) - 1) \div TaskCount(f, q) \in Int
  BY <1>1, <1>2, <1>4 DEF Width
<1>6. Step(f, q) \in Nat /\ Step(f, q) >= 1
  BY <1>5 DEF Step, Greatest
<1> QED BY <1>1, <1>2, <1>3, <1>6

Intervals == [lower : Ends, upper : Ends, null : BOOLEAN]

\* Sequences of intervals that split a column whose facts are f.
Split(f) ==
    {p \in Seq(Intervals) :
        /\ \A i, j \in DOMAIN p : \A v \in Int \cup {Null} :
               Selects(p[i], v) /\ Selects(p[j], v) => i = j
        /\ \A v \in Int \cup {Null} : Within(f, v) => \E i \in DOMAIN p : Selects(p[i], v)}

LEMMA EarlySplit ==
    ASSUME NEW f, IsFacts(f), f.total # 0
    PROVE  EarlyResult(f) \in Split(f) /\ Len(EarlyResult(f)) = 1
<1>0. HasNulls(f) \in BOOLEAN
  BY DEF HasNulls
<1>1. CASE f.minimum = None
  <2> DEFINE e == Interval(None, None, HasNulls(f))
  <2>1. EarlyResult(f) = <<e>> /\ e \in Intervals
    BY <1>0, <1>1 DEF EarlyResult, Intervals, Ends, Interval
  <2>2. \A v : Selects(e, v)
    BY DEF Selects, Interval
  <2> HIDE DEF e
  <2> QED BY <2>1, <2>2 DEF Split
<1>2. CASE f.minimum # None
  <2> DEFINE e == Interval(f.minimum, None, HasNulls(f))
  <2>1. f.minimum \in Int
    BY <1>2 DEF IsFacts
  <2>2. EarlyResult(f) = <<e>> /\ e \in Intervals
    BY <1>0, <1>2, <2>1 DEF EarlyResult, Intervals, Ends, Interval
  <2>3. ASSUME NEW v \in Int \cup {Null}, Within(f, v) PROVE Selects(e, v)
    BY <2>1, <2>3, NoneAssumption DEF Selects, Interval, Within
  <2> HIDE DEF e
  <2> QED BY <2>2, <2>3 DEF Split
<1> QED BY <1>1, <1>2

\* The closed form of the loop splits the column, into no more intervals than
\* tasks were asked for.
LEMMA PlannedSplit ==
    ASSUME NEW f, IsFacts(f), f.total # 0,
           NEW q, q.target \in Nat \ {0}, q.max \in Nat \ {0}
    PROVE  PlannedRanges(f, q) \in Split(f) /\ Len(PlannedRanges(f, q)) \in 1..q.target
<1>1. CASE Trivial(f, q)
  <2>1. PlannedRanges(f, q) = EarlyResult(f)
    BY <1>1 DEF PlannedRanges
  <2>2. 1 \in 1..q.target
    OBVIOUS
  <2> QED BY <2>1, <2>2, EarlySplit, Zenon
<1>2. CASE ~Trivial(f, q)
  <2> DEFINE t == TaskCount(f, q)
             s == Step(f, q)
             w == Width(f)
             c == (w + s - 1) \div s
             start(k) == f.minimum + (k - 1) * s
             n == Least(t, c)
             upper(k) == IF k = t THEN None ELSE Least(f.maximum + 1, start(k + 1))
             p == [k \in 1..n |-> Interval(start(k), upper(k), k = 1 /\ HasNulls(f))]
  <2>1. PlannedRanges(f, q) = p
    BY <1>2 DEF PlannedRanges
  <2>2. /\ f.minimum \in Int /\ f.maximum \in Int /\ f.minimum < f.maximum
        /\ t \in Nat /\ t >= 2 /\ s \in Nat \ {0} /\ w = f.maximum - f.minimum + 1
        /\ w \in Int /\ s \in Int
    BY <1>2, SizesOf DEF Width
  <2>3. t <= q.target
    BY <1>2 DEF TaskCount, Least, Greatest, IsFacts
  <2> HIDE DEF t, s, w
  <2>4. c \in Int /\ s * c \in Int /\ w <= s * c
    <3>1. w + s - 1 \in Int /\ c \in Int
      BY <2>2, Z3
    <3>2. w + s - 1 < s * c + s /\ s * c \in Int
      BY <2>2, <3>1, Division, Multiple
    <3> HIDE DEF c
    <3> QED BY <2>2, <3>1, <3>2
  <2>5. c >= 1
    <3>1. s * 0 = 0 /\ s * 1 = s
      BY <2>2
    <3>2. s * 1 < s * c + s
      BY <2>2, <2>4, <3>1
    <3> HIDE DEF c
    <3> QED BY <2>2, <2>4, <3>2, Below
  <2> HIDE DEF c
  <2>6. n \in Nat /\ n >= 1 /\ n <= t /\ (n = t \/ n = c)
    BY <2>2, <2>4, <2>5 DEF Least
  <2>7. \A k \in Int : start(k) \in Int /\ start(k + 1) = start(k) + s
    <3> TAKE k \in Int
    <3>1. k - 1 \in Int /\ (k + 1) - 1 = (k - 1) + 1
      OBVIOUS
    <3>2. s * (k - 1) \in Int /\ s * ((k - 1) + 1) = s * (k - 1) + s
      BY <2>2, <3>1, Multiple
    <3>3. (k - 1) * s = s * (k - 1) /\ ((k + 1) - 1) * s = s * ((k - 1) + 1)
      BY <2>2, <3>1, Z3
    <3> QED BY <2>2, <3>2, <3>3
  <2>8. \A k, l \in Int : k <= l => start(k) <= start(l)
    <3> TAKE k, l \in Int
    <3> HAVE k <= l
    <3>1. s * (k - 1) <= s * (l - 1) /\ s * (k - 1) \in Int /\ s * (l - 1) \in Int
      BY <2>2, Monotone, Multiple
    <3>2. (k - 1) * s = s * (k - 1) /\ (l - 1) * s = s * (l - 1)
      BY <2>2, Z3
    <3> QED BY <2>2, <3>1, <3>2
  <2>9. ASSUME NEW v \in Int, f.minimum <= v, v <= f.maximum
        PROVE  \E k \in 1..n : start(k) <= v /\ (k # t => v < start(k + 1))
    <3> DEFINE d == (v - f.minimum) \div s
    <3>1. v - f.minimum \in Int /\ d \in Int /\ s * d \in Int
      BY <2>2, <2>9, Z3
    <3>2. s * d <= v - f.minimum /\ v - f.minimum < s * d + s
      BY <2>2, <3>1, Division
    <3> HIDE DEF d
    <3>3. d >= 0
      <4>1. s * 0 = 0
        BY <2>2
      <4>2. s * 0 < s * d + s
        BY <2>2, <2>9, <3>1, <3>2, <4>1
      <4> QED BY <2>2, <3>1, <4>2, Below
    <3>4. start(d + 1) = f.minimum + s * d
      <4>1. (d + 1) - 1 = d /\ d * s = s * d
        BY <2>2, <3>1, Z3
      <4> QED BY <4>1
    <3>5. start(d + 1) <= v /\ v < start((d + 1) + 1)
      BY <2>2, <2>7, <3>1, <3>2, <3>4
    <3>6. PICK k \in Int : k = d + 1
      BY <3>1
    <3> HIDE DEF start
    <3>7. CASE k <= n
      <4>1. k \in 1..n
        BY <2>6, <3>3, <3>1, <3>6, <3>7
      <4> QED BY <3>5, <3>6, <4>1
    <3>8. CASE ~(k <= n)
      <4>1. n = t
        <5> SUFFICES ASSUME n = c PROVE FALSE
          BY <2>6
        <5>1. c <= d
          BY <2>4, <3>1, <3>6, <3>8
        <5>2. s * c <= s * d
          BY <2>2, <2>4, <3>1, <5>1, Monotone
        <5> QED BY <2>2, <2>4, <2>9, <3>1, <3>2, <5>2
      <4>2. start(n) <= start(k) /\ start(n) \in Int /\ start(k) \in Int
        BY <2>6, <2>7, <2>8, <3>8
      <4>3. n \in 1..n /\ start(n) <= v
        BY <2>6, <3>5, <3>6, <4>2
      <4> QED BY <4>1, <4>3
    <3> QED BY <3>7, <3>8
  <2>10. \A k \in 1..n : /\ p[k].lower = start(k) /\ p[k].upper = upper(k)
                         /\ p[k].null = (k = 1 /\ HasNulls(f))
    BY DEF Interval
  <2>11. \A k \in 1..n : /\ start(k) \in Int
                         /\ upper(k) = None \/ (upper(k) \in Int /\ upper(k) # None)
                         /\ k = t => upper(k) = None
                         /\ k # t => upper(k) = Least(f.maximum + 1, start(k + 1))
    <3> TAKE k \in 1..n
    <3>1. k \in Int /\ k + 1 \in Int
      BY <2>6
    <3>2. start(k) \in Int /\ start(k + 1) \in Int
      BY <2>7, <3>1
    <3> HIDE DEF start
    <3>3. Least(f.maximum + 1, start(k + 1)) \in Int
      BY <2>2, <3>2 DEF Least
    <3>4. k = t => upper(k) = None
      BY Zenon
    <3>5. k # t => upper(k) = Least(f.maximum + 1, start(k + 1))
      BY Zenon
    <3> HIDE DEF upper
    <3>6. k # t => upper(k) \in Int /\ upper(k) # None
      BY <3>3, <3>5, NoneAssumption
    <3> QED BY <3>2, <3>4, <3>5, <3>6
  <2>12. p \in Seq(Intervals) /\ Len(p) = n /\ DOMAIN p = 1..n
    <3>1. \A k \in 1..n : start(k) \in Ends /\ upper(k) \in Ends
      BY <2>11 DEF Ends
    <3>2. \A k \in 1..n : (k = 1 /\ HasNulls(f)) \in BOOLEAN
      OBVIOUS
    <3>3. \A k \in 1..n : Interval(start(k), upper(k), k = 1 /\ HasNulls(f)) \in Intervals
      <4> HIDE DEF start, upper
      <4> QED BY <3>1, <3>2 DEF Interval, Intervals
    <3>4. p \in [1..n -> Intervals]
      BY <3>3
    <3> HIDE DEF p, n
    <3> QED BY <2>6, <3>4
  <2>13. \A k \in 1..n : \A v \in Int :
            Selects(p[k], v) <=> start(k) <= v /\ (upper(k) # None => v < upper(k))
    <3> TAKE k \in 1..n
    <3> TAKE v \in Int
    <3>1. start(k) # None /\ start(k) \in Int /\ v # Null
      BY <2>11, NoneAssumption
    <3> HIDE DEF start, upper, p, n
    <3> QED BY <2>10, <3>1 DEF Selects
  <2>14. \A k \in 1..n : Selects(p[k], Null) <=> (k = 1 /\ HasNulls(f))
    <3> TAKE k \in 1..n
    <3>1. start(k) # None
      BY <2>11, NoneAssumption
    <3> HIDE DEF start, upper, p, n
    <3> QED BY <2>10, <3>1 DEF Selects
  <2>15. ASSUME NEW i \in 1..n, NEW j \in 1..n, NEW v \in Int \cup {Null}, i < j,
                Selects(p[i], v), Selects(p[j], v)
         PROVE  FALSE
    <3>1. i \in Int /\ j \in Int /\ i + 1 <= j /\ i # t /\ j # 1
      BY <2>2, <2>6, <2>15
    <3>2. v \in Int
      BY <2>14, <2>15, <3>1
    <3>3. upper(i) = Least(f.maximum + 1, start(i + 1)) /\ start(i + 1) \in Int /\ upper(i) # None
      BY <2>2, <2>7, <2>11, <3>1, NoneAssumption DEF Least
    <3>4. v < upper(i) /\ start(j) <= v
      BY <2>13, <2>15, <3>2, <3>3
    <3>5. start(i + 1) <= start(j) /\ start(j) \in Int
      <4>1. i + 1 \in Int
        BY <3>1
      <4> HIDE DEF start
      <4> QED BY <2>7, <2>8, <3>1, <4>1
    <3> HIDE DEF start, upper
    <3> QED BY <2>2, <3>2, <3>3, <3>4, <3>5 DEF Least
  <2>16. ASSUME NEW v \in Int \cup {Null}, Within(f, v)
         PROVE  \E i \in 1..n : Selects(p[i], v)
    <3>1. CASE v = Null
      <4>1. HasNulls(f) /\ 1 \in 1..n
        BY <2>6, <2>16, <3>1 DEF Within
      <4> QED BY <2>14, <3>1, <4>1
    <3>2. CASE v # Null
      <4>1. v \in Int /\ f.minimum <= v /\ v <= f.maximum
        BY <2>16, <3>2 DEF Within
      <4>2. PICK k \in 1..n : start(k) <= v /\ (k # t => v < start(k + 1))
        BY <2>9, <4>1
      <4>3. start(k + 1) \in Int
        <5>1. k + 1 \in Int
          BY <2>6
        <5> QED BY <2>7, <5>1
      <4> HIDE DEF start
      <4>4. upper(k) # None => v < upper(k)
        BY <2>2, <2>11, <4>1, <4>2, <4>3 DEF Least
      <4> QED BY <2>13, <4>1, <4>2, <4>4
    <3> QED BY <3>1, <3>2
  <2> HIDE DEF p, n
  <2>17. p \in Split(f)
    <3>1. \A i, j \in 1..n : i < j \/ j < i \/ i = j
      BY <2>6
    <3>2. \A i, j \in 1..n : \A v \in Int \cup {Null} :
               Selects(p[i], v) /\ Selects(p[j], v) => i = j
      BY <2>15, <3>1
    <3> QED BY <2>12, <2>16, <3>2 DEF Split
  <2> QED BY <2>1, <2>2, <2>3, <2>6, <2>12, <2>17
<1> QED BY <1>1, <1>2
-----------------------------------------------------------------------------
(* RangePlan: any facts an integer column can have, any number of tasks *)

\* The sizes of the loop's own arguments.
LEMMA Sizes ==
    ASSUME facts \in Facts, request \in Requests, ~Trivial(facts, request)
    PROVE  /\ facts.minimum \in Int /\ facts.maximum \in Int
           /\ facts.minimum < facts.maximum
           /\ TaskCount(facts, request) \in Nat /\ TaskCount(facts, request) >= 2
           /\ Step(facts, request) \in Nat /\ Step(facts, request) >= 1
BY FactsAssumption, RequestsAssumption, SizesOf

\* An interval of the loop selects exactly the integers between its ends.
LEMMA SelectsInterval ==
    ASSUME NEW i, NEW v \in Values \cup {Null}, i.lower \in Int
    PROVE  Selects(i, v) <=>
             \/ v \in Values /\ v >= i.lower /\ (i.upper # None => v < i.upper)
             \/ v = Null /\ i.null
BY NoneAssumption, ValuesAssumption DEF Selects

LEMMA InitRangeInv == RangeInit => RangeInv
BY DEF RangeInit, RangeInv, LoopInv, RangeTypeOK, Chain, Covered, Disjoint, Complete

\* The early returns have at most one interval, which takes everything.
LEMMA EarlyRangeInv == RangeInv /\ ReturnEarly => RangeInv'
<1> SUFFICES ASSUME RangeInv, ReturnEarly PROVE RangeInv'
  OBVIOUS
<1>0. /\ facts \in Facts /\ request \in Requests /\ IsFacts(facts)
      /\ facts' = facts /\ request' = request /\ pc' = "done"
      /\ lower' = lower /\ index' = index /\ ranges' = EarlyResult(facts)
  BY FactsAssumption DEF ReturnEarly, RangeInv, RangeTypeOK
<1>1. CASE facts.total = 0
  <2>1. ranges' = << >>
    BY <1>0, <1>1 DEF EarlyResult
  <2>2. ~HasNulls(facts) /\ facts.minimum = None
    BY <1>0, <1>1 DEF IsFacts, HasNulls
  <2> QED
    BY <1>0, <2>1, <2>2
    DEF RangeInv, LoopInv, RangeTypeOK, Chain, Covered, Disjoint, Complete, Occurs
<1>2. CASE facts.total # 0
  <2>1. PICK e \in [lower : Int \cup {None}, upper : {None}, null : {HasNulls(facts)}] :
           ranges' = <<e>> /\ e.lower = facts.minimum
    <3>1. facts.minimum = None \/ facts.minimum \in Int
      BY <1>0 DEF IsFacts
    <3>2. HasNulls(facts) \in BOOLEAN
      BY DEF HasNulls
    <3> QED BY <1>0, <1>2, <3>1, <3>2 DEF EarlyResult, Interval
  <2>2. DOMAIN ranges' = {1} /\ ranges'[1] = e
    BY <2>1
  <2>3. RangeTypeOK'
    <3>1. HasNulls(facts) \in BOOLEAN
      BY DEF HasNulls
    <3> QED BY <1>0, <2>1, <3>1 DEF RangeInv, RangeTypeOK
  <2>4. Chain' /\ Covered'
    BY <1>0 DEF Chain, Covered
  <2>5. Disjoint'
    BY <2>2 DEF Disjoint
  <2>6. Complete'
    <3> SUFFICES ASSUME NEW v \in Values \cup {Null}, Occurs(v)'
                 PROVE  Selects(e, v)
      BY <2>2 DEF Complete
    <3>1. Occurs(v)
      BY <1>0 DEF Occurs
    <3>2. CASE facts.minimum = None
      BY <2>1, <3>2 DEF Selects
    <3>3. CASE facts.minimum # None
      <4>1. e.lower \in Int
        BY <1>0, <2>1, <3>3 DEF IsFacts
      <4> QED BY <2>1, <3>1, <4>1, SelectsInterval DEF Occurs
    <3> QED BY <3>2, <3>3
  <2> QED BY <2>3, <2>4, <2>5, <2>6 DEF RangeInv, LoopInv
<1> QED BY <1>1, <1>2

\* The loop starts with nothing to cover.
LEMMA EnterRangeInv == RangeInv /\ EnterLoop => RangeInv'
<1> SUFFICES ASSUME RangeInv, EnterLoop PROVE RangeInv'
  OBVIOUS
<1>1. /\ facts \in Facts /\ request \in Requests /\ ~Trivial(facts, request)
      /\ facts' = facts /\ request' = request /\ pc' = "loop"
      /\ lower' = facts.minimum /\ index' = 0 /\ ranges' = << >>
  BY DEF EnterLoop, RangeInv, LoopInv, Chain, RangeTypeOK
<1>2. /\ facts.minimum \in Int /\ facts.maximum \in Int
      /\ facts.minimum < facts.maximum
      /\ TaskCount(facts, request) \in Nat /\ TaskCount(facts, request) >= 2
  BY <1>1, Sizes
<1> QED
  BY <1>1, <1>2 DEF RangeInv, LoopInv, RangeTypeOK, Chain, Covered, Disjoint, Complete

\* An iteration adds the interval from lower up to the next lower, or to the
\* end of the integers.
LEMMA IterateRangeInv == RangeInv /\ Iterate => RangeInv'
<1> SUFFICES ASSUME RangeInv, Iterate PROVE RangeInv'
  OBVIOUS
<1> DEFINE n == TaskCount(facts, request)
           e == Interval(lower, UpperEnd, index = 0 /\ HasNulls(facts))
<1>1. /\ facts \in Facts /\ request \in Requests /\ ~Trivial(facts, request)
      /\ facts' = facts /\ request' = request
      /\ lower \in facts.minimum..facts.maximum /\ index \in 0..(n - 1)
      /\ ranges \in Seq([lower : Int \cup {None}, upper : Int \cup {None}, null : BOOLEAN])
      /\ Len(ranges) = index
  BY DEF Iterate, RangeInv, LoopInv, Chain, RangeTypeOK
<1>2. /\ facts.minimum \in Int /\ facts.maximum \in Int
      /\ facts.minimum < facts.maximum
      /\ n \in Nat /\ n >= 2
      /\ Step(facts, request) \in Nat /\ Step(facts, request) >= 1
  BY <1>1, Sizes
<1>3. \/ UpperEnd = None /\ index = n - 1
      \/ /\ index # n - 1
         /\ UpperEnd \in Int /\ UpperEnd > lower /\ UpperEnd <= facts.maximum + 1
         /\ UpperEnd # None
  BY <1>1, <1>2, NoneAssumption DEF UpperEnd, Least
<1>4. /\ e \in [lower : Int \cup {None}, upper : Int \cup {None}, null : BOOLEAN]
      /\ e.lower = lower /\ e.upper = UpperEnd
      /\ e.null <=> (index = 0 /\ HasNulls(facts))
  <2>1. (index = 0 /\ HasNulls(facts)) \in BOOLEAN
    OBVIOUS
  <2>2. e.lower = lower /\ e.upper = UpperEnd /\ e.null = (index = 0 /\ HasNulls(facts))
    BY Zenon DEF Interval
  <2>3. e \in [lower : Int \cup {None}, upper : Int \cup {None}, null : BOOLEAN]
    BY <1>1, <1>2, <1>3, <2>1 DEF Interval
  <2> QED BY <2>2, <2>3, Zenon
<1>5. /\ ranges' = Append(ranges, e)
      /\ DOMAIN ranges = 1..index /\ DOMAIN ranges' = 1..(index + 1)
      /\ ranges'[index + 1] = e
      /\ \A i \in 1..index : ranges'[i] = ranges[i]
      /\ ranges' \in Seq([lower : Int \cup {None}, upper : Int \cup {None}, null : BOOLEAN])
  BY <1>1, <1>4 DEF Iterate
<1>6. /\ \A i \in 1..index :
            /\ ranges[i].lower \in Int /\ ranges[i].upper \in Int
            /\ ranges[i].lower < ranges[i].upper /\ ranges[i].upper <= lower
            /\ ranges[i].lower <= facts.maximum
            /\ ranges[i].null <=> (i = 1 /\ HasNulls(facts))
      /\ \A i, j \in 1..index : i < j => ranges[i].upper <= ranges[j].lower
      /\ index = 0 => lower = facts.minimum
      /\ \A v \in facts.minimum..(lower - 1) :
            \E i \in 1..index : ranges[i].lower <= v /\ v < ranges[i].upper
  BY <1>5 DEF Iterate, RangeInv, LoopInv, Chain, Covered
<1>7. Disjoint'
  <2> SUFFICES \A i, j \in 1..(index + 1) : i < j =>
                  \A v \in Values \cup {Null} :
                      ~(Selects(ranges'[i], v) /\ Selects(ranges'[j], v))
    <3>1. index \in Int
      BY <1>1
    <3>2. \A i, j \in 1..(index + 1) : i < j \/ j < i \/ i = j
      BY <3>1
    <3>3. ASSUME NEW i \in 1..(index + 1), NEW j \in 1..(index + 1),
                 NEW v \in Values \cup {Null},
                 Selects(ranges'[i], v), Selects(ranges'[j], v)
          PROVE  i = j
      BY <3>2, <3>3
    <3>4. DOMAIN ranges' = 1..(index + 1)
      BY <1>5
    <3> QED BY <3>3, <3>4 DEF Disjoint
  <2> SUFFICES ASSUME NEW i \in 1..(index + 1), NEW j \in 1..(index + 1), i < j,
                      NEW v \in Values \cup {Null},
                      Selects(ranges'[i], v), Selects(ranges'[j], v)
               PROVE  FALSE
    OBVIOUS
  <2>1. i \in 1..index /\ ranges'[i] = ranges[i] /\ j \in Int /\ j # 1
    BY <1>1, <1>5
  <2>2. ranges[i].upper # None /\ ranges[i].upper \in Int /\ ranges[i].lower \in Int
    BY <1>6, <2>1, NoneAssumption
  <2>3. /\ ranges'[j].lower \in Int /\ ranges[i].upper <= ranges'[j].lower
        /\ ~ranges'[j].null
    <3>1. CASE j = index + 1
      BY <1>1, <1>2, <1>4, <1>5, <1>6, <2>1, <3>1
    <3>2. CASE j # index + 1
      <4> HIDE DEF n, e
      <4>1. index \in Int
        BY <1>1
      <4>2. j \in 1..index
        BY <3>2, <4>1
      <4>3. j \in 1..index /\ ranges'[j] = ranges[j]
        BY <1>5, <4>2
      <4>4. ranges[j].lower \in Int /\ ~ranges[j].null
        BY <1>6, <2>1, <4>3
      <4>5. ranges[i].upper <= ranges[j].lower
        BY <1>6, <2>1, <4>3
      <4> QED BY <4>3, <4>4, <4>5
    <3> QED BY <3>1, <3>2
  <2>4. v \in Values /\ v >= ranges'[j].lower
    BY <2>3, SelectsInterval, NoneAssumption
  <2>5. v < ranges[i].upper
    BY <2>1, <2>2, <2>4, SelectsInterval, NoneAssumption, ValuesAssumption
  <2> QED BY <2>2, <2>3, <2>4, <2>5, ValuesAssumption
<1>8. CASE UpperEnd = None
  <2>1. pc' = "done" /\ lower' = lower /\ index' = index
    BY <1>8 DEF Iterate
  <2>2. RangeTypeOK' /\ LoopInv'
    BY <1>1, <1>2, <1>5, <2>1 DEF RangeTypeOK, LoopInv, Chain, Covered
  <2>3. Complete'
    <3> SUFFICES ASSUME NEW v \in Values \cup {Null}, Occurs(v)
                 PROVE  \E i \in 1..(index + 1) : Selects(ranges'[i], v)
      BY <1>1, <1>5 DEF Complete, Occurs
    <3>1. CASE v = Null
      <4>1. HasNulls(facts)
        BY <3>1, NoneAssumption, ValuesAssumption DEF Occurs
      <4>2. ranges'[1].null /\ 1 \in 1..(index + 1)
        <5>1. CASE index = 0
          BY <1>4, <1>5, <4>1, <5>1
        <5>2. CASE index # 0
          <6>1. 1 \in 1..index
            BY <1>1, <5>2
          <6>2. ranges'[1] = ranges[1] /\ ranges[1].null <=> (1 = 1 /\ HasNulls(facts))
            BY <1>5, <1>6, <6>1
          <6> QED BY <1>1, <4>1, <6>2 DEF HasNulls
        <5> QED BY <1>1, <5>1, <5>2
      <4> QED BY <3>1, <4>2 DEF Selects
    <3>2. CASE v \in Values /\ v # Null
      <4>1. v \in Int /\ facts.minimum <= v
        BY <3>2, ValuesAssumption DEF Occurs
      <4>2. CASE v >= lower
        <5>1. Selects(ranges'[index + 1], v)
          BY <1>1, <1>2, <1>4, <1>5, <1>8, <3>2, <4>2 DEF Selects
        <5> QED BY <1>1, <5>1
      <4>3. CASE v < lower
        <5>1. PICK i \in 1..index : ranges[i].lower <= v /\ v < ranges[i].upper
          BY <1>1, <1>2, <1>6, <4>1, <4>3
        <5>2. Selects(ranges'[i], v)
          BY <1>5, <1>6, <3>2, <5>1 DEF Selects
        <5> QED BY <1>1, <5>1, <5>2
      <4> QED BY <1>1, <1>2, <4>1, <4>2, <4>3
    <3> QED BY <3>1, <3>2
  <2> QED BY <1>7, <2>2, <2>3 DEF RangeInv
<1>9. CASE UpperEnd # None
  <2>1. /\ lower' = UpperEnd /\ index' = index + 1
        /\ pc' = IF UpperEnd >= facts.maximum + 1 THEN "done" ELSE "loop"
        /\ UpperEnd \in Int /\ UpperEnd > lower /\ UpperEnd <= facts.maximum + 1
        /\ index < n - 1
    BY <1>1, <1>2, <1>3, <1>9 DEF Iterate
  <2>2. RangeTypeOK'
    BY <1>1, <1>2, <1>5, <2>1 DEF RangeTypeOK
  <2>3. \A v \in facts.minimum..(UpperEnd - 1) :
           \E i \in 1..(index + 1) : ranges'[i].lower <= v /\ v < ranges'[i].upper
    <3> TAKE v \in facts.minimum..(UpperEnd - 1)
    <3>1. CASE v < lower
      <4>1. v \in facts.minimum..(lower - 1)
        BY <1>1, <1>2, <2>1, <3>1
      <4>2. PICK i \in 1..index : ranges[i].lower <= v /\ v < ranges[i].upper
        BY <1>6, <4>1
      <4> QED BY <1>1, <1>5, <4>2
    <3>2. CASE v >= lower
      <4>1. index + 1 \in 1..(index + 1)
        BY <1>1
      <4>2. ranges'[index + 1].lower <= v /\ v < ranges'[index + 1].upper
        BY <1>1, <1>2, <1>4, <1>5, <2>1, <3>2
      <4> QED BY <4>1, <4>2
    <3> QED BY <1>1, <1>2, <2>1, <3>1, <3>2
  <2>4. LoopInv'
    <3>1. Covered'
      BY <1>1, <1>5, <2>1, <2>3 DEF Covered
    <3>2. \A i \in 1..(index + 1) :
             /\ ranges'[i].lower \in Int /\ ranges'[i].upper \in Int
             /\ ranges'[i].lower < ranges'[i].upper /\ ranges'[i].upper <= UpperEnd
             /\ ranges'[i].lower <= facts.maximum
             /\ ranges'[i].null <=> (i = 1 /\ HasNulls(facts))
      <4> TAKE i \in 1..(index + 1)
      <4>1. CASE i = index + 1
        BY <1>1, <1>2, <1>4, <1>5, <2>1, <4>1
      <4>2. CASE i # index + 1
        <5>1. i \in 1..index /\ ranges'[i] = ranges[i] /\ index + 1 # 1
          BY <1>1, <1>5, <4>2
        <5> QED BY <1>1, <1>2, <1>6, <2>1, <5>1
      <4> QED BY <4>1, <4>2
    <3>3. \A i, j \in 1..(index + 1) : i < j => ranges'[i].upper <= ranges'[j].lower
      <4> TAKE i, j \in 1..(index + 1)
      <4>1. CASE j = index + 1
        BY <1>1, <1>4, <1>5, <1>6, <4>1
      <4>2. CASE j # index + 1
        <5> HAVE i < j
        <5>1. i \in 1..index /\ j \in 1..index
          BY <1>1, <4>2
        <5> QED BY <1>5, <1>6, <5>1
      <4> QED BY <4>1, <4>2
    <3>4. Len(ranges') = index + 1 /\ index + 1 # 0
      BY <1>1, <1>4, <1>5
    <3>5. Chain'
      BY <1>1, <1>5, <2>1, <3>2, <3>3, <3>4 DEF Chain
    <3> QED BY <3>1, <3>5 DEF LoopInv
  <2>5. Complete'
    <3> SUFFICES ASSUME pc' = "done", NEW v \in Values \cup {Null}, Occurs(v)
                 PROVE  \E i \in 1..(index + 1) : Selects(ranges'[i], v)
      BY <1>1, <1>5 DEF Complete, Occurs
    <3>1. UpperEnd = facts.maximum + 1
      BY <1>2, <2>1
    <3>2. CASE v = Null
      <4>1. HasNulls(facts)
        BY <3>2, NoneAssumption, ValuesAssumption DEF Occurs
      <4>2. ranges'[1].null /\ 1 \in 1..(index + 1)
        <5>1. CASE index = 0
          BY <1>4, <1>5, <4>1, <5>1
        <5>2. CASE index # 0
          <6>1. 1 \in 1..index
            BY <1>1, <5>2
          <6>2. ranges'[1] = ranges[1] /\ ranges[1].null <=> (1 = 1 /\ HasNulls(facts))
            BY <1>5, <1>6, <6>1
          <6> QED BY <1>1, <4>1, <6>2 DEF HasNulls
        <5> QED BY <1>1, <5>1, <5>2
      <4> QED BY <3>2, <4>2 DEF Selects
    <3>3. CASE v \in Values /\ v # Null
      <4>1. v \in facts.minimum..(UpperEnd - 1)
        BY <1>2, <3>1, <3>3, ValuesAssumption DEF Occurs
      <4>2. PICK i \in 1..(index + 1) : ranges'[i].lower <= v /\ v < ranges'[i].upper
        BY <2>3, <4>1
      <4>3. Selects(ranges'[i], v)
        BY <3>3, <4>2 DEF Selects
      <4> QED BY <4>3
    <3> QED BY <3>2, <3>3
  <2> QED BY <1>7, <2>2, <2>4, <2>5 DEF RangeInv
<1> QED BY <1>8, <1>9

\* Every reachable state of the planner satisfies the inductive invariant.
THEOREM RangeInvariance == RangeSpec => []RangeInv
<1>1. RangeInit => RangeInv
  BY InitRangeInv
<1>2. RangeInv /\ [RangeNext]_rangeVars => RangeInv'
  <2> SUFFICES ASSUME RangeInv, [RangeNext]_rangeVars PROVE RangeInv'
    OBVIOUS
  <2>1. CASE ReturnEarly
    BY <2>1, EarlyRangeInv
  <2>2. CASE EnterLoop
    BY <2>2, EnterRangeInv
  <2>3. CASE Iterate
    BY <2>3, IterateRangeInv
  <2>4. CASE Terminated \/ UNCHANGED rangeVars
    BY <2>4 DEF Terminated, rangeVars, RangeInv, LoopInv, RangeTypeOK, Chain, Covered, Disjoint,
       Complete, Occurs
  <2> QED BY <2>1, <2>2, <2>3, <2>4 DEF RangeNext
<1> QED BY <1>1, <1>2, PTL DEF RangeSpec

\* plan_integer_ranges never lets two tasks read the same value.
THEOREM NoValueTwice == RangeSpec => []Disjoint
<1>1. RangeInv => Disjoint
  BY DEF RangeInv
<1> QED BY <1>1, RangeInvariance, PTL

\* plan_integer_ranges leaves out no value between the extremes, and no NULL.
THEOREM NoValueLost == RangeSpec => []Complete
<1>1. RangeInv => Complete
  BY DEF RangeInv
<1> QED BY <1>1, RangeInvariance, PTL

\* Every value of the column, and NULL, is read by exactly one task
\* (plan_integer_ranges, with the WHERE clauses build_select makes of it).
THEOREM EveryValueOnce == RangeSpec => []ReadOnce
<1>1. RangeInv => ReadOnce
  BY DEF RangeInv, ReadOnce
<1> QED BY <1>1, RangeInvariance, PTL

(* The loop and its closed form. *)

\* Interval k of the closed form, but for the last one's open end.
StartOf(k) == facts.minimum + Step(facts, request) * (k - 1)
IntervalOf(k) == Interval(StartOf(k), Least(facts.maximum + 1, StartOf(k + 1)),
                          k = 1 /\ HasNulls(facts))

\* What the loop has done after index iterations.
FormInv ==
    /\ pc = "loop" =>
          /\ lower = StartOf(index + 1)
          /\ Len(ranges) = index
          /\ \A k \in 1..index : ranges[k] = IntervalOf(k)
    /\ MatchesClosedForm

\* The closed form, when there is a loop and it makes n intervals.
LEMMA ClosedForm ==
    ASSUME facts \in Facts, request \in Requests, ~Trivial(facts, request), NEW n \in Nat,
           n <= TaskCount(facts, request),
           Step(facts, request) * (n - 1) < Width(facts),
           n < TaskCount(facts, request) => Width(facts) <= Step(facts, request) * n,
           NEW S, NEW result \in Seq(S), Len(result) = n,
           \A k \in 1..n : result[k] =
             IF k = TaskCount(facts, request)
             THEN Interval(StartOf(k), None, k = 1 /\ HasNulls(facts)) ELSE IntervalOf(k)
    PROVE  result = PlannedRanges(facts, request)
<1> DEFINE t == TaskCount(facts, request)
           s == Step(facts, request)
           w == Width(facts)
           c == (w + s - 1) \div s
           start(k) == facts.minimum + (k - 1) * s
<1>1. /\ facts.minimum \in Int /\ facts.maximum \in Int
      /\ t \in Nat /\ s \in Nat \ {0} /\ w \in Int
  BY Sizes DEF Width
<1>2. /\ Step(facts, request) = s /\ Width(facts) = w /\ TaskCount(facts, request) = t
  OBVIOUS
<1>3. Least(t, c) = n
  <2> HIDE DEF t, s, w
  <2>1. s * n \in Int /\ s * (n - 1) = s * n - s
    <3>1. n - 1 \in Int /\ (n - 1) + 1 = n /\ s \in Int
      BY <1>1
    <3>2. s * (n - 1) \in Int /\ s * ((n - 1) + 1) = s * (n - 1) + s
      BY <3>1, Multiple
    <3> QED BY <3>1, <3>2
  <2>2. c \in Int /\ s * c <= w + s - 1 /\ w + s - 1 < s * c + s /\ s * c \in Int
    <3>1. w + s - 1 \in Int /\ c \in Int
      BY <1>1, Z3
    <3>2. s * c \in Int
      BY <1>1, <3>1, Multiple
    <3> QED BY <1>1, <3>1, <3>2, Division
  <2>3. s * (n - 1) < w /\ (n < t => w <= s * n)
    BY <1>2
  <2> HIDE DEF c
  <2>4. CASE n < t
    <3>1. c = n
      BY <1>1, <2>1, <2>3, <2>4, Ceiling DEF c
    <3> QED BY <1>1, <2>4, <3>1 DEF Least
  <2>5. CASE n = t
    <3>1. s * n < s * c + s
      BY <1>1, <2>1, <2>2, <2>3
    <3>2. n <= c
      BY <1>1, <2>2, <3>1, Below
    <3> QED BY <1>1, <2>2, <2>5, <3>2 DEF Least
  <2> QED BY <1>1, <1>2, <2>4, <2>5
<1>4. \A k \in Int : start(k) = StartOf(k)
  BY <1>1 DEF StartOf
<1>5. PlannedRanges(facts, request) =
        [k \in 1..Least(t, c) |->
           Interval(start(k), IF k = t THEN None ELSE Least(facts.maximum + 1, start(k + 1)),
                    k = 1 /\ HasNulls(facts))]
  BY DEF PlannedRanges
<1> HIDE DEF start, t, c, s, w
<1>6. \A k \in 1..n :
        Interval(start(k), IF k = t THEN None ELSE Least(facts.maximum + 1, start(k + 1)),
                 k = 1 /\ HasNulls(facts)) = result[k]
  <2> SUFFICES ASSUME NEW k \in 1..n
               PROVE  Interval(start(k), IF k = t THEN None
                                         ELSE Least(facts.maximum + 1, start(k + 1)),
                               k = 1 /\ HasNulls(facts)) = result[k]
    OBVIOUS
  <2>1. start(k) = StartOf(k) /\ start(k + 1) = StartOf(k + 1)
    BY <1>4
  <2> QED BY <1>2, <2>1 DEF IntervalOf
<1>7. result = [k \in 1..n |-> result[k]]
  OBVIOUS
<1> QED BY <1>3, <1>5, <1>6, <1>7

LEMMA IterateForm == RangeInv /\ FormInv /\ Iterate => FormInv'
<1> SUFFICES ASSUME RangeInv, FormInv, Iterate PROVE FormInv'
  OBVIOUS
<1> DEFINE t == TaskCount(facts, request)
           s == Step(facts, request)
           x == Interval(lower, UpperEnd, index = 0 /\ HasNulls(facts))
           S == [lower : Int \cup {None}, upper : Int \cup {None}, null : BOOLEAN]
<1>1. /\ facts \in Facts /\ request \in Requests /\ ~Trivial(facts, request)
      /\ index \in 0..(t - 1) /\ lower \in facts.minimum..facts.maximum
      /\ ranges \in Seq(S) /\ Len(ranges) = index /\ pc = "loop"
      /\ lower = StartOf(index + 1)
      /\ \A k \in 1..index : ranges[k] = IntervalOf(k)
  BY DEF Iterate, RangeInv, RangeTypeOK, LoopInv, Chain, FormInv
<1>2. /\ facts.minimum \in Int /\ facts.maximum \in Int
      /\ t \in Nat /\ t >= 2 /\ s \in Nat \ {0}
  BY <1>1, Sizes
<1>3. /\ facts' = facts /\ request' = request /\ ranges' = Append(ranges, x)
      /\ \A k : StartOf(k)' = StartOf(k) /\ IntervalOf(k)' = IntervalOf(k)
      /\ PlannedRanges(facts, request)' = PlannedRanges(facts, request)
  BY DEF Iterate, StartOf, IntervalOf
<1>4. UpperEnd \in Int \cup {None} /\ x \in S
  BY <1>1, <1>2 DEF UpperEnd, Least, Interval, HasNulls
<1>5. /\ ranges' \in Seq(S) /\ Len(ranges') = index + 1
      /\ ranges'[index + 1] = x /\ \A k \in 1..index : ranges'[k] = IntervalOf(k)
  BY <1>1, <1>3, <1>4
<1>6. /\ s * index \in Int /\ s * (index + 1) = s * index + s
      /\ lower = facts.minimum + s * index
      /\ StartOf(index + 2) = lower + s
  <2>1. (index + 1) - 1 = index /\ (index + 2) - 1 = index + 1 /\ index \in Int /\ s \in Int
    BY <1>1, <1>2
  <2>2. s * index \in Int /\ s * (index + 1) = s * index + s
    BY <2>1, Multiple
  <2>3. lower = facts.minimum + s * index /\ facts.minimum \in Int
    BY <1>1, <1>2, <2>1 DEF StartOf
  <2>4. StartOf(index + 2) = facts.minimum + s * (index + 1)
    BY <2>1 DEF StartOf
  <2> HIDE DEF s
  <2> QED BY <2>1, <2>2, <2>3, <2>4
<1> HIDE DEF x, t, s, S
<1>7. /\ Step(facts, request) * ((index + 1) - 1) < Width(facts)
      /\ index + 1 \in Nat /\ index + 1 <= t
      /\ s = Step(facts, request) /\ t = TaskCount(facts, request)
  <2>1. s = Step(facts, request) /\ t = TaskCount(facts, request)
    BY DEF s, t
  <2>2. (index + 1) - 1 = index /\ index + 1 \in Nat /\ index + 1 <= t
    BY <1>1, <1>2
  <2>3. s * index < Width(facts)
    BY <1>1, <1>2, <1>6 DEF Width
  <2> QED BY <2>1, <2>2, <2>3
<1>8. CASE index = t - 1
  <2>1. UpperEnd = None /\ pc' = "done"
    BY <1>8 DEF UpperEnd, Iterate, t
  <2>2. x = Interval(StartOf(index + 1), None, index + 1 = 1 /\ HasNulls(facts))
    BY <1>1, <2>1 DEF x
  <2>3. \A k \in 1..(index + 1) : ranges'[k] =
           IF k = t THEN Interval(StartOf(k), None, k = 1 /\ HasNulls(facts)) ELSE IntervalOf(k)
    BY <1>1, <1>2, <1>5, <1>8, <2>2
  <2>4. ranges' = PlannedRanges(facts, request)
    <3>1. ~(index + 1 < TaskCount(facts, request))
      BY <1>1, <1>2, <1>7, <1>8
    <3> QED BY <1>1, <1>5, <1>7, <2>3, <3>1, ClosedForm
  <2> QED BY <1>3, <2>1, <2>4 DEF FormInv, MatchesClosedForm
<1>9. CASE index # t - 1
  <2>1. UpperEnd = Least(facts.maximum + 1, lower + s) /\ UpperEnd # None
    BY <1>1, <1>2, <1>9, NoneAssumption DEF UpperEnd, Least, t, s
  <2>2. x = IntervalOf(index + 1)
    BY <1>1, <1>6, <2>1 DEF x, IntervalOf
  <2>3. /\ lower' = UpperEnd /\ index' = index + 1
        /\ pc' = IF UpperEnd >= facts.maximum + 1 THEN "done" ELSE "loop"
    BY <2>1 DEF Iterate
  <2>4. CASE UpperEnd >= facts.maximum + 1
    <3>1. Width(facts) <= s * (index + 1)
      <4>1. facts.maximum + 1 <= lower + s
        BY <1>1, <1>2, <1>6, <2>1, <2>4 DEF Least
      <4> QED BY <1>1, <1>2, <1>6, <4>1 DEF Width
    <3>2. \A k \in 1..(index + 1) : ranges'[k] =
             IF k = t THEN Interval(StartOf(k), None, k = 1 /\ HasNulls(facts)) ELSE IntervalOf(k)
      BY <1>1, <1>2, <1>5, <1>9, <2>2
    <3>3. ranges' = PlannedRanges(facts, request)
      BY <1>1, <1>2, <1>5, <1>7, <3>1, <3>2, ClosedForm
    <3> QED BY <1>3, <2>3, <2>4, <3>3 DEF FormInv, MatchesClosedForm
  <2>5. CASE ~(UpperEnd >= facts.maximum + 1)
    <3>1. lower' = StartOf(index' + 1)
      BY <1>1, <1>2, <1>6, <2>1, <2>3, <2>5 DEF Least
    <3>2. \A k \in 1..index' : ranges'[k] = IntervalOf(k)
      BY <1>1, <1>5, <2>2, <2>3
    <3> QED BY <1>3, <1>5, <2>3, <2>5, <3>1, <3>2 DEF FormInv, MatchesClosedForm
  <2> QED BY <2>4, <2>5
<1> QED BY <1>8, <1>9

\* The loop returns what the closed form says, which SplitRead plans with.
THEOREM Loop_as_planned == RangeSpec => []MatchesClosedForm
<1>1. RangeInit => FormInv
  BY DEF RangeInit, FormInv, MatchesClosedForm
<1>2. RangeInv /\ FormInv /\ [RangeNext]_rangeVars => FormInv'
  <2> SUFFICES ASSUME RangeInv, FormInv, [RangeNext]_rangeVars PROVE FormInv'
    OBVIOUS
  <2>1. CASE ReturnEarly
    BY <2>1 DEF ReturnEarly, FormInv, MatchesClosedForm, PlannedRanges
  <2>2. CASE EnterLoop
    <3>1. pc' = "loop" /\ index' = 0 /\ ranges' = << >> /\ lower' = facts.minimum
          /\ facts' = facts /\ request' = request
          /\ facts.minimum \in Int /\ Step(facts, request) \in Nat
      BY <2>2, Sizes DEF EnterLoop, RangeInv, RangeTypeOK, LoopInv, Chain
    <3>2. StartOf(index + 1)' = facts.minimum
      BY <3>1 DEF StartOf
    <3> QED BY <3>1, <3>2 DEF FormInv, MatchesClosedForm
  <2>3. CASE Iterate
    BY <2>3, IterateForm
  <2>4. CASE UNCHANGED rangeVars
    BY <2>4 DEF rangeVars, FormInv, MatchesClosedForm, StartOf, IntervalOf
  <2> QED BY <2>1, <2>2, <2>3, <2>4 DEF RangeNext, Terminated
<1>3. FormInv => MatchesClosedForm
  BY DEF FormInv
<1> QED BY RangeInvariance, <1>1, <1>2, <1>3, PTL DEF RangeSpec
-----------------------------------------------------------------------------
(* PartitionGroups: any table and any number of tasks *)

LEMMA WeightNat ==
    ASSUME partitions \in Listings, NEW p \in DOMAIN partitions
    PROVE  Weight(p) \in Nat
BY ListingsAssumption DEF Weight

LEMMA GroupCountInt ==
    ASSUME NEW t \in Listings, NEW r \in GroupRequests
    PROVE  GroupCount(t, r) \in Nat
<1>1. Cardinality(DOMAIN t) \in Nat
  BY ListingsAssumption, FS_CardinalityType
<1> QED BY <1>1, GroupRequestsAssumption DEF GroupCount, Smaller

\* With something to place there is a group for it, so the loop cannot stop
\* early: min(range(0)) is never evaluated.
LEMMA SomeGroup ==
    ASSUME NEW t \in Listings, NEW r \in GroupRequests, DOMAIN t # {}
    PROVE  GroupCount(t, r) >= 1
<1>1. Cardinality(DOMAIN t) \in Nat /\ Cardinality(DOMAIN t) # 0
  BY ListingsAssumption, FS_CardinalityType, FS_EmptySet
<1> QED BY <1>1, GroupRequestsAssumption DEF GroupCount, Smaller

(* Sums over sets of items *)

LEMMA UnitIn ==
    \A weight, items, u :
        u \in Units(weight, items) <=> \E p \in items : \E k \in 1..weight[p] : u = <<p, k>>
BY DEF Units

\* The sum of a set of items is a number, and so are those of its subsets.
LEMMA TotalNat ==
    ASSUME NEW D, IsFiniteSet(D), NEW c \in [D -> Nat], NEW S \in SUBSET D
    PROVE  IsFiniteSet(Units(c, S)) /\ Total(c, S) \in Nat
<1> DEFINE Row(p) == {p} \X (1..c[p])
           Rows1 == {Row(p) : p \in S}
<1>1. IsFiniteSet(S)
  BY FS_Subset
<1>2. IsFiniteSet(Rows1)
  <2> DEFINE r == [p \in S |-> Row(p)]
  <2>1. r \in Surjection(S, Rows1)
    BY DEF Surjection
  <2> HIDE DEF r, Rows1
  <2> QED BY <1>1, <2>1, FS_Surjection
<1>3. \A p \in S : IsFiniteSet(Row(p))
  <2> TAKE p \in S
  <2>1. c[p] \in Nat
    OBVIOUS
  <2>2. IsFiniteSet({p})
    BY FS_Singleton
  <2>3. IsFiniteSet(1..c[p])
    BY <2>1, FS_Interval
  <2> QED BY <2>2, <2>3, FS_Product
<1>4. IsFiniteSet(UNION Rows1)
  <2>1. \A T \in Rows1 : IsFiniteSet(T)
    BY <1>3
  <2> HIDE DEF Rows1
  <2> QED BY <1>2, <2>1, FS_UNION
<1>5. Units(c, S) = UNION Rows1
  BY DEF Units
<1> QED BY <1>4, <1>5, FS_CardinalityType DEF Total

LEMMA TotalEmpty == \A c : Total(c, {}) = 0
<1>1. \A c : Units(c, {}) = {}
  BY DEF Units
<1> QED BY <1>1, FS_EmptySet DEF Total

LEMMA TotalSubset ==
    ASSUME NEW D, IsFiniteSet(D), NEW c \in [D -> Nat], NEW S \in SUBSET D, NEW T \in SUBSET S
    PROVE  Total(c, T) <= Total(c, S)
<1>1. Units(c, T) \subseteq Units(c, S)
  BY UnitIn
<1> QED BY <1>1, TotalNat, FS_Subset DEF Total

LEMMA TotalAdd ==
    ASSUME NEW D, IsFiniteSet(D), NEW c \in [D -> Nat], NEW S \in SUBSET D, NEW x \in D \ S
    PROVE  Total(c, S \cup {x}) = Total(c, S) + c[x]
<1> DEFINE U == Units(c, S)
           R == {x} \X (1..c[x])
<1>1. c[x] \in Nat
  OBVIOUS
<1>2. IsFiniteSet(R) /\ Cardinality(R) = c[x]
  <2>1. IsFiniteSet({x}) /\ Cardinality({x}) = 1
    BY FS_Singleton
  <2>2. IsFiniteSet(1..c[x]) /\ Cardinality(1..c[x]) = c[x]
    BY <1>1, FS_Interval
  <2>3. Cardinality(R) = 1 * c[x] /\ IsFiniteSet(R)
    BY <2>1, <2>2, FS_Product
  <2> QED BY <1>1, <2>3
<1>3. IsFiniteSet(U) /\ Cardinality(U) \in Nat
  BY TotalNat DEF Total
<1>4. U \cap R = {}
  BY UnitIn
<1>5. Units(c, S \cup {x}) = U \cup R
  BY DEF Units
<1> HIDE DEF U, R
<1>6. Cardinality(U \cup R) = Cardinality(U) + Cardinality(R) - 0
  BY <1>2, <1>3, <1>4, FS_Union, FS_EmptySet
<1>7. Cardinality(U \cup R) = Cardinality(U) + c[x]
  BY <1>1, <1>2, <1>3, <1>6
<1>8. Total(c, S) = Cardinality(U) /\ Total(c, S \cup {x}) = Cardinality(U \cup R)
  BY <1>5 DEF Total, U
<1> QED BY <1>7, <1>8

LEMMA TotalOne ==
    ASSUME NEW D, IsFiniteSet(D), NEW c \in [D -> Nat], NEW x \in D
    PROVE  Total(c, {x}) = c[x]
<1>1. Total(c, {} \cup {x}) = Total(c, {}) + c[x]
  BY TotalAdd
<1>2. {} \cup {x} = {x}
  OBVIOUS
<1> QED BY <1>1, <1>2, TotalEmpty

\* n rows of m.
LEMMA GridSize ==
    \A n, m \in Nat :
        /\ IsFiniteSet((1..n) \X (1..m))
        /\ Cardinality((1..n) \X (1..m)) = n * m
<1> TAKE n, m \in Nat
<1> DEFINE A == 1..n
           B == 1..m
<1>1. /\ IsFiniteSet(A) /\ Cardinality(A) = n
      /\ IsFiniteSet(B) /\ Cardinality(B) = m
  BY FS_Interval
<1> HIDE DEF A, B
<1>2. IsFiniteSet(A \X B) /\ Cardinality(A \X B) = Cardinality(A) * Cardinality(B)
  BY <1>1, FS_Product
<1> QED BY <1>1, <1>2 DEF A, B

\* n groups that hold at most m each have room for n * m.
LEMMA Room ==
    ASSUME NEW D, IsFiniteSet(D), NEW c \in [D -> Nat], NEW S \in SUBSET D,
           NEW n \in Nat, NEW m \in Nat, NEW f \in [D -> 1..n],
           \A g \in 1..n : Total(c, DealtTo(f, S, g)) <= m
    PROVE  Total(c, S) <= n * m
<1> DEFINE Group(g) == DealtTo(f, S, g)
           e == [g \in 1..n |-> CHOOSE h : h \in Injection(Units(c, Group(g)), 1..m)]
           j == [u \in Units(c, S) |-> <<f[u[1]], e[f[u[1]]][u]>>]
<1>1. \A g \in 1..n : e[g] \in Injection(Units(c, Group(g)), 1..m)
  <2> SUFFICES ASSUME NEW g \in 1..n
               PROVE  \E h : h \in Injection(Units(c, Group(g)), 1..m)
    OBVIOUS
  <2> DEFINE U == Units(c, Group(g))
             k == Cardinality(U)
  <2>1. Group(g) \in SUBSET D
    BY DEF DealtTo
  <2>2. IsFiniteSet(U) /\ k \in Nat /\ k <= m
    BY <2>1, TotalNat DEF Total
  <2> HIDE DEF U
  <2>3. IsFiniteSet(1..k) /\ Cardinality(1..k) = k
    BY <2>2, FS_Interval
  <2>4. ExistsBijection(U, 1..k)
    BY <2>2, <2>3, FS_SameCardinalityBij
  <2>5. PICK h : h \in Bijection(U, 1..k)
    BY <2>4 DEF ExistsBijection
  <2>6. h \in Injection(U, 1..m)
    BY <2>2, <2>5 DEF Bijection, Injection, IsInjective
  <2> QED BY <2>6 DEF U
<1>2. ASSUME NEW u \in Units(c, S)
      PROVE  f[u[1]] \in 1..n /\ u \in Units(c, Group(f[u[1]]))
  <2>1. PICK p \in S : \E k \in 1..c[p] : u = <<p, k>>
    BY UnitIn
  <2>2. u[1] = p /\ p \in Group(f[p]) /\ f[p] \in 1..n
    BY <2>1 DEF DealtTo
  <2>3. u \in Units(c, Group(f[p]))
    BY <2>1, <2>2, UnitIn
  <2> QED BY <2>2, <2>3
<1> HIDE DEF e, Group
<1>3. j \in Injection(Units(c, S), (1..n) \X (1..m))
  <2>1. \A u \in Units(c, S) : e[f[u[1]]][u] \in 1..m
    BY <1>1, <1>2 DEF Injection, IsInjective
  <2>2. ASSUME NEW u \in Units(c, S), NEW v \in Units(c, S), j[u] = j[v]
        PROVE  u = v
    <3>1. f[u[1]] = f[v[1]] /\ e[f[u[1]]][u] = e[f[u[1]]][v]
      BY <2>2
    <3>2. /\ f[u[1]] \in 1..n
          /\ u \in Units(c, Group(f[u[1]])) /\ v \in Units(c, Group(f[u[1]]))
      BY <1>2, <3>1
    <3> HIDE DEF j
    <3> QED BY <1>1, <3>1, <3>2 DEF Injection, IsInjective
  <2>3. j \in [Units(c, S) -> (1..n) \X (1..m)]
    BY <1>2, <2>1
  <2> HIDE DEF j
  <2> QED BY <2>2, <2>3 DEF Injection, IsInjective
<1>4. IsFiniteSet((1..n) \X (1..m)) /\ Cardinality((1..n) \X (1..m)) = n * m
  BY GridSize
<1> HIDE DEF j
<1> QED BY <1>3, <1>4, FS_Injection DEF Total

\* n groups apart that hold at least m each hold n * m together.
LEMMA Fill ==
    ASSUME NEW D, IsFiniteSet(D), NEW c \in [D -> Nat], NEW S \in SUBSET D,
           NEW n \in Nat, NEW m \in Nat, NEW b \in [1..n -> SUBSET S],
           \A i, k \in 1..n : i # k => b[i] \cap b[k] = {},
           \A i \in 1..n : m <= Total(c, b[i])
    PROVE  n * m <= Total(c, S)
<1> DEFINE Slots == (1..n) \X (1..m)
           e == [i \in 1..n |-> CHOOSE h : h \in Injection(1..m, Units(c, b[i]))]
           j == [s \in Slots |-> e[s[1]][s[2]]]
<1>1. \A i \in 1..n : e[i] \in Injection(1..m, Units(c, b[i]))
  <2> SUFFICES ASSUME NEW i \in 1..n
               PROVE  \E h : h \in Injection(1..m, Units(c, b[i]))
    OBVIOUS
  <2> DEFINE U == Units(c, b[i])
             k == Cardinality(U)
  <2>1. b[i] \in SUBSET D
    OBVIOUS
  <2>2. IsFiniteSet(U) /\ k \in Nat /\ m <= k
    BY <2>1, TotalNat DEF Total
  <2> HIDE DEF U
  <2>3. PICK h : h \in Bijection(1..k, U)
    BY <2>2, FS_CardinalityType DEF ExistsBijection
  <2>4. [s \in 1..m |-> h[s]] \in Injection(1..m, U)
    BY <2>2, <2>3, SMTT(20) DEF Bijection, Injection, IsInjective
  <2> QED BY <2>4 DEF U
<1> HIDE DEF e
<1>2. j \in Injection(Slots, Units(c, S))
  <2>1. ASSUME NEW s \in Slots
        PROVE  j[s] \in Units(c, b[s[1]]) /\ s[1] \in 1..n
    BY <1>1 DEF Injection, IsInjective
  <2>2. \A i \in 1..n : Units(c, b[i]) \subseteq Units(c, S)
    BY UnitIn
  <2>3. j \in [Slots -> Units(c, S)]
    <3>1. \A s \in Slots : j[s] \in Units(c, S)
      BY <2>1, <2>2
    <3> QED BY <3>1
  <2>4. ASSUME NEW s \in Slots, NEW t \in Slots, j[s] = j[t]
        PROVE  s = t
    <3>1. j[s] \in Units(c, b[s[1]]) /\ j[s] \in Units(c, b[t[1]]) /\ s[1] \in 1..n /\ t[1] \in 1..n
      BY <2>1, <2>4
    <3>2. PICK p \in b[s[1]], q \in b[t[1]] : \E k, l : j[s] = <<p, k>> /\ j[s] = <<q, l>>
      BY <3>1, UnitIn
    <3>3. s[1] = t[1]
      BY <3>1, <3>2
    <3>4. e[s[1]][s[2]] = e[s[1]][t[2]] /\ s[2] \in 1..m /\ t[2] \in 1..m
      BY <2>4, <3>3
    <3>5. s[2] = t[2]
      BY <1>1, <3>1, <3>4 DEF Injection, IsInjective
    <3> QED BY <3>3, <3>5
  <2> HIDE DEF j, Slots
  <2> QED BY <2>3, <2>4 DEF Injection, IsInjective
<1>3. IsFiniteSet(Slots) /\ Cardinality(Slots) = n * m
  BY GridSize
<1> HIDE DEF j, Slots
<1>4. IsFiniteSet(Units(c, S))
  BY TotalNat
<1> QED BY <1>2, <1>3, <1>4, FS_Injection DEF Total

\* The arithmetic of Graham's bound, for a last item of at most a third.
LEMMA SmallLast ==
    ASSUME NEW n \in Nat \ {0}, NEW m \in Nat, NEW x \in Nat, NEW s \in Nat,
           n * s + x <= n * m, 3 * x <= m
    PROVE  3 * n * (s + x) <= (4 * n - 1) * m
<1> DEFINE a == n * s
           b == n * m
           d == n * x
           k == n - 1
<1>1. a \in Nat /\ b \in Nat /\ d \in Nat /\ k \in Nat
  OBVIOUS
<1>2. k * (3 * x) <= k * m
  BY <1>1, Monotone
<1>3. k * (3 * x) = 3 * d - 3 * x /\ k * m = b - m
  BY Z3
<1>4. 3 * n * (s + x) = 3 * a + 3 * d
  BY Z3
<1>5. (4 * n - 1) * m = 4 * b - m
  BY Z3
<1> HIDE DEF a, b, d, k
<1>6. a + x <= b
  BY DEF a, b
<1>7. 3 * d - 3 * x <= b - m
  BY <1>2, <1>3
<1>8. 3 * a + 3 * d <= 4 * b - m
  BY <1>1, <1>6, <1>7
<1> QED BY <1>4, <1>5, <1>8

LEMMA WithinLargest ==
    ASSUME NEW n \in Nat \ {0}, NEW m \in Nat, NEW s \in Nat, s <= m
    PROVE  3 * n * s <= (4 * n - 1) * m
<1>1. n * s <= n * m /\ n * s \in Nat /\ n * m \in Nat
  BY Monotone
<1>2. 1 * m <= n * m
  BY Z3
<1>3. 3 * n * s = 3 * (n * s) /\ (4 * n - 1) * m = 4 * (n * m) - m
  BY Z3
<1> QED BY <1>1, <1>2, <1>3

LEMMA FewMembers ==
    \A B : \/ B = {}
           \/ \E p \in B : B = {p}
           \/ \E p, q \in B : p # q /\ B = {p, q}
           \/ \E p, q, r \in B : p # q /\ p # r /\ q # r
<1> SUFFICES ASSUME NEW B, NEW p \in B, B # {p}
             PROVE  \/ \E k, l \in B : k # l /\ B = {k, l}
                    \/ \E k, l, r \in B : k # l /\ k # r /\ l # r
  OBVIOUS
<1>1. PICK q \in B : q # p
  OBVIOUS
<1>2. B = {p, q} \/ \E r \in B : p # r /\ q # r
  BY <1>1
<1> QED BY <1>1, <1>2

\* An item that is larger than a third of the heaviest group of some dealing
\* makes no group heavier than that one.  Were it so, an item that is alone in
\* its group could share a group of that dealing with no other, so it may count
\* twice: the groups so far hold two each, and those of the other dealing, which
\* deals one item more, two at most.
LEMMA LargeLast ==
    ASSUME NEW D, IsFiniteSet(D), NEW w \in [D -> Nat], NEW S \in SUBSET D, NEW x \in D \ S,
           NEW n \in Nat \ {0}, NEW b \in [1..n -> SUBSET S],
           \A i, k \in 1..n : i # k => b[i] \cap b[k] = {},
           NEW s \in Nat, \A i \in 1..n : s <= Total(w, b[i]),
           \A p \in S : w[x] <= w[p],
           NEW m \in Nat, NEW f \in [D -> 1..n],
           \A g \in 1..n : Total(w, DealtTo(f, D, g)) <= m,
           m < 3 * w[x]
    PROVE  s + w[x] <= m
<1> SUFFICES ASSUME m < s + w[x] PROVE FALSE
  OBVIOUS
<1> DEFINE T == S \cup {x}
           Group(g) == DealtTo(f, T, g)
           Alone == {p \in S : \E i \in 1..n : b[i] = {p}}
           c == [p \in D |-> IF p \in Alone THEN 2 ELSE 1]
<1>1. /\ w[x] \in Nat /\ T \in SUBSET D /\ x \in T /\ x \in D
      /\ \A g \in 1..n : Group(g) \in SUBSET D
      /\ \A p \in T : w[p] \in Nat /\ w[x] <= w[p]
  BY DEF DealtTo
<1>2. c \in [D -> Nat] /\ \A p \in D : c[p] = IF p \in Alone THEN 2 ELSE 1
  OBVIOUS
<1>3. c[x] = 1
  BY <1>1, <1>2
<1>0. \A v \in [D -> Nat] :
        /\ \A Q \in SUBSET D : Total(v, Q) \in Nat
        /\ \A Q \in SUBSET D : \A R \in SUBSET Q : Total(v, R) <= Total(v, Q)
        /\ \A Q \in SUBSET D : \A y \in D \ Q : Total(v, Q \cup {y}) = Total(v, Q) + v[y]
  BY TotalNat, TotalSubset, TotalAdd
<1>4. \A g \in 1..n : \A Q \in SUBSET Group(g) : Total(w, Q) <= m
  <2> SUFFICES ASSUME NEW g \in 1..n, NEW Q \in SUBSET Group(g) PROVE Total(w, Q) <= m
    OBVIOUS
  <2> DEFINE All == DealtTo(f, D, g)
  <2>1. Q \in SUBSET All /\ All \in SUBSET D /\ Q \in SUBSET D
    BY <1>1 DEF DealtTo
  <2>2. Total(w, All) <= m
    OBVIOUS
  <2> HIDE DEF All
  <2>3. /\ Total(w, Q) <= Total(w, All)
        /\ Total(w, Q) \in Nat /\ Total(w, All) \in Nat
    BY <1>0, <2>1
  <2> QED BY <2>2, <2>3
<1>5. \A p, q \in T : p # q => /\ Total(w, {p, q}) = w[p] + w[q]
                               /\ Total(c, {p, q}) = c[p] + c[q]
  <2> SUFFICES ASSUME NEW p \in T, NEW q \in T, p # q
               PROVE  \A v \in [D -> Nat] : Total(v, {p, q}) = v[p] + v[q]
    BY <1>2, ZenonT(30)
  <2> TAKE v \in [D -> Nat]
  <2>1. {p} \in SUBSET D /\ q \in D \ {p} /\ p \in D /\ {p, q} = {p} \cup {q}
    BY <1>1
  <2>2. Total(v, {p} \cup {q}) = Total(v, {p}) + v[q]
    BY <1>0, <2>1
  <2>3. Total(v, {p}) = v[p]
    BY <2>1, TotalOne
  <2> QED BY <2>1, <2>2, <2>3
<1>6. \A p \in T : Total(w, {p}) = w[p] /\ Total(c, {p}) = c[p]
  <2> SUFFICES ASSUME NEW p \in T
               PROVE  \A v \in [D -> Nat] : Total(v, {p}) = v[p]
    BY <1>2
  <2>1. p \in D
    BY <1>1
  <2> QED BY <2>1, TotalOne
<1> HIDE DEF c
<1>7. w[x] <= m
  <2>1. f[x] \in 1..n /\ {x} \in SUBSET Group(f[x])
    BY <1>1 DEF DealtTo
  <2> HIDE DEF Group
  <2>2. Total(w, {x}) <= m
    BY <1>4, <2>1
  <2> QED BY <1>1, <1>6, <2>2
<1>8. \A i \in 1..n : 2 <= Total(c, b[i])
  <2> TAKE i \in 1..n
  <2>1. b[i] \in SUBSET D /\ b[i] \subseteq S /\ s <= Total(w, b[i])
    OBVIOUS
  <2>2. b[i] # {}
    <3>1. ~(s <= 0)
      BY <1>1, <1>7
    <3>2. Total(w, {}) = 0
      BY TotalEmpty
    <3> QED BY <2>1, <3>1, <3>2
  <2>3. PICK p \in b[i] : TRUE
    BY <2>2
  <2>4. CASE b[i] = {p}
    <3>1. p \in Alone /\ p \in T /\ p \in D
      BY <2>1, <2>3, <2>4
    <3>2. c[p] = 2
      BY <1>2, <3>1
    <3>3. Total(c, {p}) = c[p]
      BY <1>6, <3>1
    <3> QED BY <2>4, <3>2, <3>3
  <2>5. CASE b[i] # {p}
    <3>1. PICK q \in b[i] : q # p
      BY <2>3, <2>5
    <3>2. p \in T /\ q \in T /\ p \in D /\ q \in D /\ {p, q} \in SUBSET b[i]
      BY <2>1, <2>3, <3>1
    <3>3. Total(c, {p, q}) = c[p] + c[q]
      BY <1>5, <3>1, <3>2
    <3>4. c[p] \in {1, 2} /\ c[q] \in {1, 2}
      BY <1>2, <3>2
    <3>5. Total(c, {p, q}) <= Total(c, b[i])
      BY <1>0, <1>2, <2>1, <3>2
    <3>6. Total(c, b[i]) \in Nat
      BY <1>0, <1>2, <2>1
    <3> QED BY <3>3, <3>4, <3>5, <3>6
  <2> QED BY <2>4, <2>5
<1>9. \A g \in 1..n : Total(c, Group(g)) <= 2
  <2> TAKE g \in 1..n
  <2>1. Group(g) \subseteq T /\ T \subseteq D
    BY <1>1 DEF DealtTo
  <2>2. \A p, q \in Group(g) : p # q => p \notin Alone
    <3> SUFFICES ASSUME NEW p \in Group(g), NEW q \in Group(g), p # q, p \in Alone
                 PROVE  FALSE
      OBVIOUS
    <3>1. PICK i \in 1..n : b[i] = {p}
      OBVIOUS
    <3>2. p \in T /\ q \in T /\ {p, q} \in SUBSET Group(g)
      BY <2>1
    <3>3. s <= w[p]
      <4>1. s <= Total(w, b[i])
        BY <3>1
      <4>2. Total(w, {p}) = w[p]
        BY <1>6, <3>2
      <4> QED BY <3>1, <4>1, <4>2
    <3>4. Total(w, {p, q}) = w[p] + w[q] /\ Total(w, {p, q}) <= m
      BY <1>4, <1>5, <3>2
    <3>5. w[x] <= w[q] /\ w[q] \in Nat /\ w[p] \in Nat
      BY <1>1, <3>2
    <3> HIDE DEF Group, Alone, T
    <3> QED BY <1>1, <3>3, <3>4, <3>5
  <2>3. CASE Group(g) = {}
    <3> HIDE DEF Group
    <3>1. Total(c, {}) = 0
      BY TotalEmpty
    <3> QED BY <2>3, <3>1
  <2>4. CASE \E p \in Group(g) : Group(g) = {p}
    <3>1. PICK p \in T : p \in D /\ Group(g) = {p}
      BY <2>1, <2>4
    <3>2. Total(c, {p}) = c[p] /\ c[p] \in {1, 2}
      BY <1>2, <1>6, <3>1
    <3> HIDE DEF Group
    <3> QED BY <3>1, <3>2
  <2>5. CASE \E p, q \in Group(g) : p # q /\ Group(g) = {p, q}
    <3>1. PICK p \in T, q \in T : p # q /\ Group(g) = {p, q}
      BY <2>1, <2>5
    <3>2. p \in D /\ q \in D /\ p \notin Alone /\ q \notin Alone
      BY <2>1, <2>2, <3>1
    <3>3. Total(c, {p, q}) = c[p] + c[q]
      BY <1>5, <3>1
    <3>4. c[p] = 1 /\ c[q] = 1
      BY <1>2, <3>2
    <3> HIDE DEF Group, Alone
    <3> QED BY <3>1, <3>3, <3>4
  <2>6. CASE \E p, q, r \in Group(g) : p # q /\ p # r /\ q # r
    <3>1. PICK p \in Group(g), q \in Group(g), r \in Group(g) : p # q /\ p # r /\ q # r
      BY <2>6
    <3>2. p \in T /\ q \in T /\ r \in T
      BY <2>1
    <3>3. {p, q} \in SUBSET D /\ r \in D \ {p, q} /\ {p, q} \cup {r} \in SUBSET Group(g)
      BY <2>1, <3>1
    <3>4. Total(w, {p, q} \cup {r}) = Total(w, {p, q}) + w[r]
      BY <1>0, <3>3
    <3>5. Total(w, {p, q} \cup {r}) <= m
      BY <1>4, <3>3
    <3>6. Total(w, {p, q}) = w[p] + w[q]
      BY <1>5, <3>1, <3>2
    <3>7. /\ w[p] \in Nat /\ w[q] \in Nat /\ w[r] \in Nat
          /\ w[x] <= w[p] /\ w[x] <= w[q] /\ w[x] <= w[r]
      BY <1>1, <3>2
    <3>8. Total(w, {p, q} \cup {r}) = w[p] + w[q] + w[r]
      BY <3>4, <3>6, <3>7
    <3>9. w[p] + w[q] + w[r] <= m
      BY <3>5, <3>8
    <3> HIDE DEF Group, T
    <3> QED BY <1>1, <3>7, <3>9, SMTT(20)
  <2>7. \/ Group(g) = {}
        \/ \E p \in Group(g) : Group(g) = {p}
        \/ \E p, q \in Group(g) : p # q /\ Group(g) = {p, q}
        \/ \E p, q, r \in Group(g) : p # q /\ p # r /\ q # r
    <3> HIDE DEF Group
    <3> QED BY FewMembers
  <2> HIDE DEF Group
  <2> QED BY <2>3, <2>4, <2>5, <2>6, <2>7
<1>10. n * 2 <= Total(c, S)
  BY <1>2, <1>8, Fill
<1>11. Total(c, T) <= n * 2
  <2>1. \A g \in 1..n : Total(c, DealtTo(f, T, g)) <= 2
    BY <1>9
  <2>2. T \in SUBSET D /\ n \in Nat
    BY <1>1
  <2> HIDE DEF T, Group
  <2> QED BY <1>2, <2>1, <2>2, Room
<1>12. Total(c, T) = Total(c, S) + c[x]
  BY <1>0, <1>2
<1>13. Total(c, S) \in Nat
  BY <1>0, <1>2
<1> QED BY <1>3, <1>10, <1>11, <1>12, <1>13

\* Dealing x to the lightest of n groups of items that are no lighter leaves it
\* within Graham's factor of the heaviest group of any other dealing.
LEMMA LightestStays ==
    ASSUME NEW D, IsFiniteSet(D), NEW w \in [D -> Nat], NEW S \in SUBSET D, NEW x \in D \ S,
           NEW n \in Nat \ {0}, NEW b \in [1..n -> SUBSET S],
           \A i, k \in 1..n : i # k => b[i] \cap b[k] = {},
           NEW s \in Nat, \A i \in 1..n : s <= Total(w, b[i]),
           \A p \in S : w[x] <= w[p],
           NEW m \in Nat, NEW f \in [D -> 1..n],
           \A g \in 1..n : Total(w, DealtTo(f, D, g)) <= m
    PROVE  3 * n * (s + w[x]) <= (4 * n - 1) * m
<1>1. w[x] \in Nat /\ n \in Nat /\ S \cup {x} \in SUBSET D /\ x \in D
  OBVIOUS
<1>2. CASE 3 * w[x] <= m
  <2>1. n * s <= Total(w, S)
    BY <1>1, Fill
  <2>2. Total(w, S \cup {x}) = Total(w, S) + w[x]
    BY TotalAdd
  <2>3. Total(w, D) <= n * m
    <3>1. D \in SUBSET D
      OBVIOUS
    <3> QED BY <1>1, <3>1, Room
  <2>4. Total(w, S \cup {x}) <= Total(w, D)
    BY <1>1, TotalSubset
  <2>5. /\ Total(w, S) \in Nat /\ Total(w, D) \in Nat /\ Total(w, S \cup {x}) \in Nat
        /\ n * s \in Nat /\ n * m \in Nat
    <3>1. \A Q \in SUBSET D : Total(w, Q) \in Nat
      BY TotalNat
    <3> QED BY <1>1, <3>1
  <2>6. n * s + w[x] <= n * m
    BY <1>1, <2>1, <2>2, <2>3, <2>4, <2>5
  <2> QED BY <1>1, <1>2, <2>6, SmallLast
<1>3. CASE m < 3 * w[x]
  <2>1. s + w[x] <= m
    BY <1>3, LargeLast
  <2> DEFINE t == s + w[x]
  <2>2. t \in Nat
    BY <1>1
  <2> HIDE DEF t
  <2>3. 3 * n * t <= (4 * n - 1) * m
    BY <2>1, <2>2, WithinLargest DEF t
  <2> QED BY <2>3 DEF t
<1>4. 3 * w[x] <= m \/ m < 3 * w[x]
  BY <1>1
<1> QED BY <1>2, <1>3, <1>4

\* Any dealing has a heaviest group.
LEMMA Heaviest ==
    ASSUME NEW D, IsFiniteSet(D), NEW w \in [D -> Nat], NEW n \in Nat \ {0}, NEW f \in [D -> 1..n]
    PROVE  \E g \in 1..n : \A h \in 1..n :
               Total(w, DealtTo(f, D, h)) <= Total(w, DealtTo(f, D, g))
<1> DEFINE Group(g) == DealtTo(f, D, g)
           Rest == {Total(w, D) - Total(w, Group(g)) : g \in 1..n}
<1>1. \A g \in 1..n : /\ Total(w, Group(g)) \in Nat
                      /\ Total(w, Group(g)) <= Total(w, D)
  <2>1. D \in SUBSET D /\ \A g : Group(g) \in SUBSET D
    BY DEF DealtTo
  <2> HIDE DEF Group
  <2> QED BY <2>1, TotalNat, TotalSubset
<1>2. Total(w, D) \in Nat
  <2>1. D \in SUBSET D
    OBVIOUS
  <2> QED BY <2>1, TotalNat
<1> HIDE DEF Group
<1>3. Rest \subseteq Nat
  BY <1>1, <1>2
<1>4. Rest # {}
  <2>1. 1 \in 1..n
    OBVIOUS
  <2> QED BY <2>1
<1> HIDE DEF Rest
<1>5. PICK r \in Rest : \A t \in Rest : r <= t
  BY <1>3, <1>4, LeastNat
<1>6. PICK g \in 1..n : r = Total(w, D) - Total(w, Group(g))
  BY <1>5 DEF Rest
<1>7. \A h \in 1..n : Total(w, Group(h)) <= Total(w, Group(g))
  <2> TAKE h \in 1..n
  <2>1. Total(w, D) - Total(w, Group(h)) \in Rest
    BY DEF Rest
  <2>2. r <= Total(w, D) - Total(w, Group(h))
    BY <1>5, <2>1
  <2> QED BY <1>1, <1>2, <1>6, <2>2
<1> QED BY <1>7 DEF Group

LEMMA WeightedType ==
    ASSUME partitions \in Listings
    PROVE  /\ IsFiniteSet(DOMAIN partitions)
           /\ Weighted \in [DOMAIN partitions -> Nat]
           /\ \A p \in DOMAIN partitions : Weighted[p] = Weight(p)
<1>1. IsFiniteSet(DOMAIN partitions)
  BY ListingsAssumption
<1>2. \A p \in DOMAIN partitions : Weight(p) \in Nat
  BY WeightNat
<1> QED BY <1>1, <1>2 DEF Weighted

LEMMA PlaceGraham ==
    ASSUME GroupTypeOK, Dealt, Ordered, Weighed, Graham,
           NEW p \in waiting, NEW i \in DOMAIN buckets, IsFirst(p), IsLightest(i), Deal(p, i)
    PROVE  Ordered' /\ Weighed' /\ Graham'
<1> DEFINE n == GroupCount(partitions, asked)
           D == DOMAIN partitions
           S == D \ waiting
<1>1. /\ partitions \in Listings /\ asked \in GroupRequests /\ p \in D
      /\ waiting \subseteq D
      /\ n \in Nat /\ i \in 1..n /\ n \in Nat \ {0}
      /\ buckets \in [1..n -> SUBSET D] /\ weights \in [1..n -> Nat]
      /\ DOMAIN buckets = 1..n /\ DOMAIN weights = 1..n
  BY GroupCountInt DEF GroupTypeOK
<1>2. /\ partitions' = partitions /\ asked' = asked
      /\ waiting' = waiting \ {p}
      /\ buckets' = [buckets EXCEPT ![i] = @ \cup {p}]
      /\ weights' = [weights EXCEPT ![i] = @ + Weight(p)]
  BY DEF Deal
<1>3. (\A q : Weight(q)' = Weight(q)) /\ Weighted' = Weighted
  BY <1>2 DEF Weight, Weighted
<1>4. /\ IsFiniteSet(D) /\ Weighted \in [D -> Nat]
      /\ \A q \in D : Weighted[q] = Weight(q)
  BY <1>1, WeightedType
<1>5. DOMAIN buckets' = 1..n /\ GroupCount(partitions, asked)' = n /\ DOMAIN partitions' = D
  BY <1>1, <1>2
<1> HIDE DEF n, D
<1>6. Ordered'
  <2> SUFFICES ASSUME NEW q \in D \ waiting', NEW r \in waiting' PROVE Weight(q) >= Weight(r)
    BY <1>3, <1>5 DEF Ordered
  <2>1. r \in waiting /\ r # p /\ r \in D /\ Weight(r) \in Int /\ Weight(q) \in Int
    BY <1>1, <1>2, <1>4
  <2>2. CASE q = p
    BY <2>1, <2>2 DEF IsFirst, Before
  <2>3. CASE q # p
    BY <1>2, <2>1, <2>3 DEF Ordered, D
  <2> QED BY <2>2, <2>3
<1>7. Weighed'
  <2> SUFFICES ASSUME NEW j \in 1..n PROVE weights'[j] = Total(Weighted, buckets'[j])
    BY <1>3, <1>5 DEF Weighed
  <2>1. weights[j] = Total(Weighted, buckets[j]) /\ buckets[j] \in SUBSET D
    BY <1>1 DEF Weighed
  <2>2. CASE j = i
    <3>1. p \in D \ buckets[i] /\ buckets[i] \in SUBSET D
      BY <1>1, <2>1, <2>2 DEF Dealt
    <3>2. Total(Weighted, buckets[i] \cup {p}) = Total(Weighted, buckets[i]) + Weighted[p]
      BY <1>4, <3>1, TotalAdd
    <3>3. weights'[i] = weights[i] + Weight(p) /\ buckets'[i] = buckets[i] \cup {p}
      BY <1>1, <1>2
    <3> QED BY <1>1, <1>4, <2>1, <2>2, <3>2, <3>3
  <2>3. CASE j # i
    <3>1. weights'[j] = weights[j] /\ buckets'[j] = buckets[j]
      BY <1>1, <1>2, <2>3
    <3> QED BY <2>1, <3>1
  <2> QED BY <2>2, <2>3
<1>8. Graham'
  <2> SUFFICES ASSUME NEW j \in 1..n, NEW f \in [D -> 1..n]
               PROVE  \E g \in 1..n : 3 * n * weights'[j] <= (4 * n - 1) * Load(f, g)
    <3>1. \A g, f : Load(f, g)' = Load(f, g)
      BY <1>2, <1>3 DEF Load
    <3> QED BY <1>5, <3>1 DEF Graham, WithinFactor
  <2>1. CASE j = i
    <3>1. PICK g \in 1..n : \A h \in 1..n :
             Total(Weighted, DealtTo(f, D, h)) <= Total(Weighted, DealtTo(f, D, g))
      BY <1>1, <1>4, Heaviest
    <3> DEFINE m == Total(Weighted, DealtTo(f, D, g))
    <3>2. m \in Nat
      <4>1. DealtTo(f, D, g) \in SUBSET D
        BY DEF DealtTo
      <4> QED BY <1>4, <4>1, TotalNat
    <3>3. S \in SUBSET D /\ p \in D \ S /\ weights[i] \in Nat
      BY <1>1
    <3>4. buckets \in [1..n -> SUBSET S]
      <4>1. \A k \in 1..n : buckets[k] \in SUBSET S
        BY <1>1 DEF Dealt
      <4> QED BY <1>1, <4>1
    <3>5. \A k, l \in 1..n : k # l => buckets[k] \cap buckets[l] = {}
      BY <1>1 DEF Dealt
    <3>6. \A k \in 1..n : weights[i] <= Total(Weighted, buckets[k])
      <4> TAKE k \in 1..n
      <4>1. weights[k] = Total(Weighted, buckets[k])
        BY <1>1 DEF Weighed
      <4>2. weights[i] <= weights[k]
        BY <1>1 DEF IsLightest
      <4> QED BY <4>1, <4>2
    <3>7. \A q \in S : Weighted[p] <= Weighted[q]
      <4> TAKE q \in S
      <4>1. Weight(q) >= Weight(p)
        BY DEF Ordered, D
      <4> QED BY <1>1, <1>4, <4>1
    <3> HIDE DEF S
    <3>8. 3 * n * (weights[i] + Weighted[p]) <= (4 * n - 1) * m
      <4> HIDE DEF m
      <4>1. \A h \in 1..n : Total(Weighted, DealtTo(f, D, h)) <= m
        BY <3>1 DEF m
      <4> QED BY <1>1, <1>4, <3>2, <3>3, <3>4, <3>5, <3>6, <3>7, <4>1, LightestStays
    <3>9. weights'[i] = weights[i] + Weighted[p]
      BY <1>1, <1>2, <1>4
    <3>10. m = Load(f, g)
      BY DEF Load, D
    <3> QED BY <2>1, <3>8, <3>9, <3>10
  <2>2. CASE j # i
    <3>1. weights'[j] = weights[j]
      BY <1>1, <1>2, <2>2
    <3> QED BY <1>1, <3>1 DEF Graham, WithinFactor, n, D
  <2> QED BY <2>1, <2>2
<1> QED BY <1>6, <1>7, <1>8

LEMMA InitGroupInv == GroupInit => GroupInv
<1> SUFFICES ASSUME GroupInit PROVE GroupInv
  OBVIOUS
<1>1. GroupTypeOK
  BY DEF GroupInit, GroupTypeOK
<1>2. Dealt /\ ExactGroups /\ Balanced
  BY DEF GroupInit, Dealt, ExactGroups, Balanced
<1>3. Ordered /\ GroupsKept
  BY DEF GroupInit, Ordered, GroupsKept
<1>4. Weighed /\ Graham
  <2> DEFINE n == GroupCount(partitions, asked)
  <2>1. /\ partitions \in Listings /\ n \in Nat
        /\ buckets = [i \in 1..n |-> {}] /\ weights = [i \in 1..n |-> 0]
    BY GroupCountInt DEF GroupInit
  <2> HIDE DEF n
  <2>2. Weighed
    BY <2>1, TotalEmpty DEF Weighed
  <2>3. ASSUME NEW i \in 1..n, NEW f \in [DOMAIN partitions -> 1..n]
        PROVE  \E g \in 1..n : 3 * n * weights[i] <= (4 * n - 1) * Load(f, g)
    <3>1. DealtTo(f, DOMAIN partitions, i) \in SUBSET DOMAIN partitions
      BY DEF DealtTo
    <3>2. Load(f, i) \in Nat
      BY <2>1, <3>1, WeightedType, TotalNat DEF Load
    <3>3. weights[i] = 0 /\ n \in Nat \ {0} /\ 0 \in Nat /\ 0 <= Load(f, i)
      BY <2>1, <3>2
    <3> QED BY <3>2, <3>3, WithinLargest
  <2> QED BY <2>1, <2>2, <2>3 DEF Graham, WithinFactor, n
<1> QED BY <1>1, <1>2, <1>3, <1>4 DEF GroupInv

LEMMA PlaceGroupInv == GroupInv /\ Place => GroupInv'
<1> SUFFICES ASSUME GroupInv, Place PROVE GroupInv'
  OBVIOUS
<1>1. PICK p \in waiting, i \in DOMAIN buckets : IsFirst(p) /\ IsLightest(i) /\ Deal(p, i)
  BY DEF Place
<1> DEFINE n == GroupCount(partitions, asked)
<1>2. /\ partitions \in Listings /\ asked \in GroupRequests /\ p \in DOMAIN partitions
      /\ waiting \subseteq DOMAIN partitions
      /\ n \in Nat /\ i \in 1..n
      /\ buckets \in [1..n -> SUBSET DOMAIN partitions] /\ weights \in [1..n -> Nat]
      /\ Weight(p) \in Nat
  BY GroupCountInt, WeightNat DEF GroupInv, GroupTypeOK
<1>3. /\ partitions' = partitions /\ asked' = asked /\ groups' = groups
      /\ waiting' = waiting \ {p}
      /\ buckets' = [buckets EXCEPT ![i] = @ \cup {p}]
      /\ weights' = [weights EXCEPT ![i] = @ + Weight(p)]
  BY <1>1 DEF Deal
<1>4. \A q : Weight(q)' = Weight(q)
  BY <1>3 DEF Weight
<1> HIDE DEF n
<1>5. GroupTypeOK'
  <2>1. buckets' \in [1..n -> SUBSET DOMAIN partitions]
    BY <1>2, <1>3
  <2>2. weights' \in [1..n -> Nat]
    BY <1>2, <1>3
  <2>3. DOMAIN buckets' = DOMAIN buckets
    BY <1>3
  <2> QED BY <1>2, <1>3, <2>1, <2>2, <2>3 DEF GroupInv, GroupTypeOK, n
<1>6. \A j \in 1..n : buckets'[j] = IF j = i THEN buckets[i] \cup {p} ELSE buckets[j]
  BY <1>2, <1>3
<1>7. Dealt'
  <2>1. \A q \in DOMAIN partitions : q \in waiting' \/ \E j \in 1..n : q \in buckets'[j]
    BY <1>2, <1>3, <1>6 DEF GroupInv, Dealt
  <2>2. \A j \in 1..n : buckets'[j] \cap waiting' = {}
    BY <1>2, <1>3, <1>6 DEF GroupInv, Dealt
  <2>3. \A j, k \in 1..n : j # k => buckets'[j] \cap buckets'[k] = {}
    <3> SUFFICES ASSUME NEW j \in 1..n, NEW k \in 1..n, j # k
                 PROVE  buckets'[j] \cap buckets'[k] = {}
      OBVIOUS
    <3>1. DOMAIN buckets = 1..n
      BY <1>2
    <3>2. buckets[j] \cap buckets[k] = {}
      BY <3>1 DEF GroupInv, Dealt
    <3>3. p \notin buckets[j] /\ p \notin buckets[k]
      BY <3>1 DEF GroupInv, Dealt
    <3>4. /\ buckets'[j] = IF j = i THEN buckets[i] \cup {p} ELSE buckets[j]
          /\ buckets'[k] = IF k = i THEN buckets[i] \cup {p} ELSE buckets[k]
      BY <1>6
    <3> QED BY <3>2, <3>3, <3>4
  <2>4. DOMAIN buckets' = 1..n
    BY <1>2, <1>3
  <2> QED BY <1>3, <2>1, <2>2, <2>3, <2>4 DEF Dealt
<1>8. ExactGroups'
  BY <1>3 DEF GroupInv, ExactGroups
<1>9. Balanced'
  <2> SUFFICES ASSUME NEW j \in 1..n, NEW k \in 1..n, buckets'[j] # {}
               PROVE  \E q \in buckets'[j] : weights'[j] - Weight(q) <= weights'[k]
    <3>1. DOMAIN buckets' = 1..n
      BY <1>2, <1>3
    <3> QED BY <1>4, <3>1 DEF Balanced
  <2>1. weights'[k] \in Nat /\ weights'[k] >= weights[k] /\ weights[k] \in Nat
    BY <1>2, <1>3
  <2>2. CASE j = i
    <3>1. p \in buckets'[j] /\ weights'[j] - Weight(p) = weights[i]
      BY <1>2, <1>3, <1>6, <2>2
    <3>2. weights[i] <= weights[k]
      BY <1>1, <1>2, SMTT(20) DEF IsLightest
    <3> QED BY <2>1, <3>1, <3>2, <1>2
  <2>3. CASE j # i
    <3>1. buckets'[j] = buckets[j] /\ weights'[j] = weights[j]
      BY <1>2, <1>3, <2>3
    <3>2. PICK q \in buckets[j] : weights[j] - Weight(q) <= weights[k]
      BY <1>2, <3>1 DEF GroupInv, Balanced
    <3>3. Weight(q) \in Nat /\ weights[j] \in Nat
      BY <1>2, WeightNat
    <3> QED BY <2>1, <3>1, <3>2, <3>3
  <2> QED BY <2>2, <2>3
<1>10. Ordered' /\ Weighed' /\ Graham'
  BY <1>1, PlaceGraham DEF GroupInv
<1>11. GroupsKept'
  BY <1>2, <1>3 DEF GroupInv, GroupsKept
<1> QED BY <1>5, <1>7, <1>8, <1>9, <1>10, <1>11 DEF GroupInv

LEMMA SameArguments ==
    ASSUME Ordered, Weighed, Graham, UNCHANGED <<partitions, asked, waiting, buckets, weights>>
    PROVE  Ordered' /\ Weighed' /\ Graham'
<1>1. (\A q : Weight(q)' = Weight(q)) /\ Weighted' = Weighted
  BY DEF Weight, Weighted
<1>2. \A f, g : Load(f, g)' = Load(f, g)
  BY <1>1 DEF Load
<1>3. Ordered'
  BY <1>1 DEF Ordered
<1>4. Weighed'
  BY <1>1 DEF Weighed
<1>5. Graham'
  BY <1>2 DEF Graham, WithinFactor
<1> QED BY <1>3, <1>4, <1>5

LEMMA ReturnGroupInv == GroupInv /\ Return => GroupInv'
<1> SUFFICES ASSUME GroupInv, Return PROVE GroupInv'
  OBVIOUS
<1> DEFINE Kept == {j \in DOMAIN buckets : buckets[j] # {}}
<1>1. /\ waiting = {}
      /\ groups' = [i \in Kept |-> buckets[i]]
      /\ UNCHANGED <<partitions, asked, waiting, buckets, weights>>
  BY DEF Return
<1>2. DOMAIN groups' = Kept /\ \A i \in Kept : groups'[i] = buckets[i]
  BY <1>1
<1>3. GroupTypeOK'
  BY <1>1, <1>2 DEF GroupInv, GroupTypeOK
<1>4. Dealt'
  BY <1>1 DEF GroupInv, Dealt
<1>5. Balanced'
  <2>1. \A q : Weight(q)' = Weight(q)
    BY <1>1 DEF Weight
  <2> QED BY <1>1, <2>1 DEF GroupInv, Balanced
<1>6. ExactGroups'
  <2>1. ASSUME NEW q \in DOMAIN partitions
        PROVE  \E i \in Kept : q \in buckets[i]
                   /\ \A j \in Kept : q \in buckets[j] => i = j
    <3>1. PICK i \in DOMAIN buckets : q \in buckets[i]
      BY <1>1 DEF GroupInv, Dealt
    <3>2. i \in Kept
      BY <3>1
    <3>3. \A j \in DOMAIN buckets : q \in buckets[j] => i = j
      BY <3>1 DEF GroupInv, Dealt
    <3> QED BY <3>1, <3>2, <3>3
  <2>2. \A i \in Kept : groups'[i] # {}
    BY <1>2
  <2>3. \A q \in DOMAIN partitions :
           \E i \in DOMAIN groups' :
               q \in groups'[i] /\ \A j \in DOMAIN groups' : q \in groups'[j] => i = j
    <3> HIDE DEF Kept
    <3> TAKE q \in DOMAIN partitions
    <3>1. PICK i \in Kept : q \in buckets[i] /\ \A j \in Kept : q \in buckets[j] => i = j
      BY <2>1
    <3>2. i \in DOMAIN groups' /\ q \in groups'[i]
      BY <1>2, <3>1
    <3>3. \A j \in DOMAIN groups' : q \in groups'[j] => i = j
      BY <1>2, <3>1
    <3> QED BY <3>2, <3>3
  <2>4. partitions' = partitions
    BY <1>1
  <2>5. \A i \in DOMAIN groups' : groups'[i] # {}
    BY <1>2, <2>2
  <2> QED BY <2>3, <2>4, <2>5 DEF ExactGroups
<1>7. Ordered' /\ Weighed' /\ Graham'
  BY <1>1, SameArguments DEF GroupInv
<1>8. GroupsKept'
  BY <1>1 DEF GroupsKept
<1> QED BY <1>3, <1>4, <1>5, <1>6, <1>7, <1>8 DEF GroupInv

\* Every reachable state satisfies the inductive invariant.
THEOREM GroupInvariance == GroupSpec => []GroupInv
<1>1. GroupInit => GroupInv
  BY InitGroupInv
<1>2. GroupInv /\ [GroupNext]_groupVars => GroupInv'
  <2> SUFFICES ASSUME GroupInv, [GroupNext]_groupVars PROVE GroupInv'
    OBVIOUS
  <2>1. CASE Place
    BY <2>1, PlaceGroupInv
  <2>2. CASE Return
    BY <2>2, ReturnGroupInv
  <2>3. CASE UNCHANGED groupVars
    <3>1. \A q : Weight(q)' = Weight(q)
      BY <2>3 DEF groupVars, Weight
    <3>2. GroupTypeOK' /\ Dealt' /\ ExactGroups' /\ Balanced'
      BY <2>3, <3>1 DEF groupVars, GroupInv, GroupTypeOK, Dealt, ExactGroups, Balanced
    <3>3. GroupsKept'
      BY <2>3 DEF groupVars, GroupInv, GroupsKept
    <3>4. Ordered' /\ Weighed' /\ Graham'
      BY <2>3, SameArguments DEF groupVars, GroupInv
    <3> QED BY <3>2, <3>3, <3>4 DEF GroupInv
  <2> QED BY <2>1, <2>2, <2>3 DEF GroupNext, Returned
<1> QED BY <1>1, <1>2, PTL DEF GroupSpec

\* A partition that was listed is read by exactly one task, and every task has
\* a partition to read (group_partitions, build_select).
THEOREM EveryPartitionOnce == GroupSpec => []ExactGroups
<1>1. GroupInv => ExactGroups
  BY DEF GroupInv
<1> QED BY <1>1, GroupInvariance, PTL

\* No task reads more than 4/3 - 1/(3n) times what the largest of n tasks reads
\* when the partitions are dealt in any other way (the order and the greedy
\* choice of group_partitions): Graham's bound.
THEOREM Near_optimal == GroupSpec => []NearOptimal
<1>1. GroupInv => NearOptimal
  <2> SUFFICES ASSUME GroupInv, groups # Unknown, NEW i \in DOMAIN groups
               PROVE  WithinFactor(GroupCount(partitions, asked), Total(Weighted, groups[i]))
    BY DEF NearOptimal
  <2>1. i \in DOMAIN buckets /\ groups[i] = buckets[i]
    BY DEF GroupInv, GroupsKept
  <2>2. weights[i] = Total(Weighted, buckets[i])
    BY <2>1 DEF GroupInv, Weighed
  <2> QED BY <2>1, <2>2 DEF GroupInv, Graham
<1> QED BY <1>1, GroupInvariance, PTL

\* Whatever the sizes, no task outweighs another by more than one partition
\* (the greedy choice of group_partitions).
THEOREM EvenGroups == GroupSpec => []Balanced
<1>1. GroupInv => Balanced
  BY DEF GroupInv
<1> QED BY <1>1, GroupInvariance, PTL
-----------------------------------------------------------------------------
(* SplitRead: what is asked of a shard *)

FactRecords == [total : Nat, nulls : Nat, minimum : Ends, maximum : Ends]

\* The aggregate query answers with facts, which speak of every row it saw.
LEMMA FactsOfRows ==
    ASSUME NEW rs, IsFiniteSet(rs), \A r \in rs : r.value \in Int \cup {Null}
    PROVE  /\ RangeFacts(rs) \in FactRecords
           /\ IsFacts(RangeFacts(rs))
           /\ \A r \in rs : Within(RangeFacts(rs), r.value)
<1> DEFINE f == RangeFacts(rs)
           N == {r \in rs : r.value = Null}
           V == Numbers(rs)
<1>1. /\ IsFiniteSet(N) /\ IsFiniteSet(rs \ N)
      /\ Cardinality(rs) \in Nat /\ Cardinality(N) \in Nat
      /\ Cardinality(N) <= Cardinality(rs)
      /\ Cardinality(rs) = Cardinality(N) => rs = N
      /\ Cardinality(rs \ N) = Cardinality(rs) - Cardinality(N)
  <2>1. N \in SUBSET rs /\ rs \cap N = N
    OBVIOUS
  <2> HIDE DEF N
  <2>2. IsFiniteSet(N) /\ Cardinality(N) <= Cardinality(rs) /\ Cardinality(N) \in Nat
    BY <2>1, FS_Subset, FS_CardinalityType
  <2>3. Cardinality(rs) = Cardinality(N) => rs = N
    BY <2>1, FS_Subset
  <2>4. IsFiniteSet(rs \ N) /\ Cardinality(rs \ N) = Cardinality(rs) - Cardinality(rs \cap N)
    BY FS_Difference
  <2> QED BY <2>1, <2>2, <2>3, <2>4, FS_CardinalityType
<1>2. /\ f.total = Cardinality(rs) /\ f.nulls = Cardinality(N)
      /\ f.minimum = IF V = {} THEN None ELSE Min(V)
      /\ f.maximum = IF V = {} THEN None ELSE Max(V)
      /\ f = [total |-> f.total, nulls |-> f.nulls, minimum |-> f.minimum, maximum |-> f.maximum]
  BY DEF RangeFacts
<1>3. V \subseteq Int /\ (V = {} <=> rs = N)
  BY NoneAssumption DEF Numbers
<1>4. V # {} => /\ Min(V) \in V /\ \A v \in V : Min(V) <= v
                /\ Max(V) \in V /\ \A v \in V : v <= Max(V)
  <2> DEFINE value == [r \in rs |-> r.value]
             W == {value[r] : r \in rs}
  <2>1. value \in Surjection(rs, W)
    BY DEF Surjection
  <2>2. IsFiniteSet(W)
    BY <2>1, FS_Surjection
  <2>3. V \in SUBSET W
    BY DEF Numbers
  <2>4. IsFiniteSet(V)
    BY <2>2, <2>3, FS_Subset
  <2> QED BY <1>3, <2>4, Extremes
<1>5. ASSUME V # {}, Min(V) < Max(V) PROVE f.total - f.nulls >= 2
  <2>1. PICK a \in rs, b \in rs : a.value = Min(V) /\ b.value = Max(V)
    BY <1>4, <1>5 DEF Numbers
  <2>2. a \in rs \ N /\ b \in rs \ N /\ a # b
    BY <1>3, <1>4, <1>5, <2>1, NoneAssumption
  <2>3. {a, b} \in SUBSET (rs \ N)
    BY <2>2
  <2>4. IsFiniteSet({a}) /\ Cardinality({a}) = 1
    BY FS_Singleton
  <2>5. Cardinality({a} \cup {b}) = 2
    <3>1. b \notin {a}
      BY <2>2
    <3>2. Cardinality({a} \cup {b}) = Cardinality({a}) + 1
      BY <2>4, <3>1, FS_AddElement
    <3> QED BY <2>4, <3>2
  <2>6. {a} \cup {b} = {a, b}
    OBVIOUS
  <2>7. Cardinality({a, b}) <= Cardinality(rs \ N)
    BY <1>1, <2>3, FS_Subset
  <2> QED BY <1>1, <1>2, <2>5, <2>6, <2>7
<1> HIDE DEF f, V
<1>6. f.total \in Nat /\ f.nulls \in 0..f.total /\ (f.total = f.nulls <=> V = {})
  BY <1>1, <1>2, <1>3
<1>7. CASE V = {}
  <2>1. f.minimum = None /\ f.maximum = None
    BY <1>2, <1>7
  <2>2. f \in FactRecords
    BY <1>2, <1>6, <2>1 DEF FactRecords, Ends
  <2>3. IsFacts(f)
    BY <1>6, <1>7, <2>1 DEF IsFacts
  <2>4. ASSUME NEW r \in rs PROVE Within(f, r.value)
    <3>1. r.value = Null /\ r \in N
      BY <1>3, <1>7
    <3>2. Cardinality(N) # 0
      BY <1>1, <3>1, FS_EmptySet
    <3> QED BY <1>1, <1>2, <3>1, <3>2 DEF Within, HasNulls
  <2> QED BY <2>2, <2>3, <2>4 DEF f
<1>8. CASE V # {}
  <2>1. /\ f.minimum = Min(V) /\ f.maximum = Max(V)
        /\ f.minimum \in Int /\ f.maximum \in Int /\ f.minimum <= f.maximum
    BY <1>2, <1>3, <1>4, <1>8
  <2>2. f \in FactRecords
    BY <1>2, <1>6, <2>1 DEF FactRecords, Ends
  <2>3. IsFacts(f)
    BY <1>5, <1>6, <1>8, <2>1 DEF IsFacts
  <2>4. ASSUME NEW r \in rs PROVE Within(f, r.value)
    <3>1. CASE r.value = Null
      <4>1. Cardinality(N) # 0
        BY <1>1, <3>1, FS_EmptySet
      <4> QED BY <1>1, <1>2, <3>1, <4>1 DEF Within, HasNulls
    <3>2. CASE r.value # Null
      <4>1. r.value \in V
        BY <3>2 DEF V, Numbers
      <4> QED BY <1>4, <2>1, <3>2, <4>1, NoneAssumption DEF Within
    <3> QED BY <3>1, <3>2
  <2> QED BY <2>2, <2>3, <2>4 DEF f
<1> QED BY <1>7, <1>8

(* The scans of a shard, and of all shards *)

LEMMA Limits ==
    ASSUME config \in Configs, NEW p \in Int
    PROVE  TaskLimit(p) \in Nat \ {0} /\ config.max \in Nat \ {0}
BY SplitAssumption DEF TaskLimit, Least, Greatest

LEMMA LayoutFacts ==
    ASSUME layout \in Layouts
    PROVE  /\ IsFiniteSet(Rows) /\ \A r \in Rows : r.value \in Int \cup {Null}
           /\ \A r \in Rows : r.shard \in Range(Shards)
           /\ Shards \in Seq(Range(Shards)) /\ Len(Shards) \in Nat \ {0}
           /\ DOMAIN Shards = 1..Len(Shards)
           /\ \A i, j \in 1..Len(Shards) : Shards[i] = Shards[j] => i = j
           /\ \A i \in 1..Len(Shards) : Shards[i] \in Range(Shards)
           /\ ~Local => Len(Shards) = 1
<1>1. /\ IsFiniteSet(Rows) /\ \A r \in Rows : r.value \in Int \cup {Null}
      /\ \A r \in Rows : r.shard \in Range(Shards)
      /\ Shards \in Seq(Range(Shards)) /\ Shards # << >> /\ IsInjective(Shards)
      /\ ~Local => Len(Shards) = 1
  BY SplitAssumption DEF Rows, Shards, Local
<1> DEFINE R == Range(Shards)
<1> HIDE DEF R
<1>2. Shards \in Seq(R) /\ R = Range(Shards)
  BY <1>1 DEF R
<1>3. Len(Shards) \in Nat \ {0} /\ DOMAIN Shards = 1..Len(Shards)
  BY <1>1, <1>2
<1>4. \A i, j \in 1..Len(Shards) : Shards[i] = Shards[j] => i = j
  BY <1>1, <1>3 DEF IsInjective
<1>5. \A i \in 1..Len(Shards) : Shards[i] \in Range(Shards)
  BY <1>3 DEF Range
<1> QED BY <1>1, <1>3, <1>4, <1>5

Distinct(scans) ==
    \A i, j \in DOMAIN scans : \A r \in Rows :
        Matches(scans[i], r) /\ Matches(scans[j], r) => i = j

Finding(scans, r) == \E j \in DOMAIN scans : Matches(scans[j], r)

\* The scans that get_read_tasks makes of one shard.
ShardScans(shard, limit) ==
    {scans \in Seq(Scans) :
        /\ Len(scans) \in 1..limit
        /\ \A j \in DOMAIN scans : scans[j].shard = shard
        /\ Distinct(scans)
        /\ \A r \in stable : r.shard = shard => Finding(scans, r)}

LEMMA MatchesScan ==
    ASSUME NEW shard, NEW parts, NEW range, NEW r
    PROVE  Matches(Scan(shard, parts, range), r) <=>
             /\ r.shard = shard
             /\ parts # {} => r.part \in parts
             /\ Selects(range, r.value)
BY DEF Matches, Scan

LEMMA EverythingSelects == Everything \in Intervals /\ \A v : Selects(Everything, v)
BY DEF Everything, Interval, Selects, Intervals, Ends

LEMMA ScanType ==
    ASSUME NEW shard \in Range(Shards), NEW parts \in SUBSET Parts, NEW range \in Intervals
    PROVE  Scan(shard, parts, range) \in Scans /\ Scan(shard, parts, range).shard = shard
BY DEF Scan, Scans, Intervals

LEMMA ChoicesCorrect ==
    ASSUME TypeOK, Foreseen, Len(snapshots) = Len(Shards),
           NEW i \in 1..Len(Shards), NEW p \in Int, NEW scans \in ScanChoices(i, p)
    PROVE  scans \in ShardScans(Shards[i], TaskLimit(p))
<1> DEFINE n == TaskLimit(p)
           shard == Shards[i]
           parts == snapshots[i].parts
           facts_ == snapshots[i].range
<1>1. n \in Nat \ {0} /\ config.max \in Nat \ {0} /\ shard \in Range(Shards)
  BY Limits, LayoutFacts DEF TypeOK
<1>2. /\ parts \in SUBSET Parts
      /\ facts_ \in {None} \cup FactRecords
      /\ stable \subseteq Rows /\ \A r \in Rows : r.value \in Int \cup {Null}
      /\ i \in DOMAIN snapshots
  <2> DEFINE R == [parts : SUBSET Parts, range : {None} \cup FactRecords]
  <2>1. snapshots \in Seq(R) /\ stable \subseteq Rows /\ layout \in Layouts
    BY DEF TypeOK, FactRecords
  <2>2. DOMAIN snapshots = 1..Len(Shards)
    <3> HIDE DEF R
    <3> QED BY <2>1
  <2>3. snapshots[i] \in R
    <3> HIDE DEF R
    <3> QED BY <2>1, <2>2
  <2> QED BY <2>1, <2>2, <2>3, LayoutFacts
<1>3. /\ parts # {} => \A r \in stable : r.shard = shard => r.part \in parts
      /\ facts_ # None =>
             /\ IsFacts(facts_)
             /\ \A r \in stable : r.shard = shard => Within(facts_, r.value)
  BY <1>2 DEF Foreseen
<1>4. CASE parts # {}
  <2>0. scans \in PartitionScans(i, n)
    BY <1>4 DEF ScanChoices
  <2>1. PICK g \in Groupings(parts, n) :
           scans = [k \in DOMAIN g |-> Scan(shard, g[k], Everything)]
    BY <2>0 DEF PartitionScans
  <2>2. PICK m \in 1..n : g \in [1..m -> (SUBSET parts) \ {{}}]
    BY DEF Groupings
  <2>3. /\ UNION Range(g) = parts
        /\ \A a, b \in DOMAIN g : a # b => g[a] \cap g[b] = {}
    BY DEF Groupings
  <2>4. DOMAIN g = 1..m /\ m \in Nat /\ \A k \in 1..m : g[k] \in SUBSET parts /\ g[k] # {}
    <3> HIDE DEF n, parts
    <3>1. DOMAIN g = 1..m /\ m \in Nat
      BY <1>1, <2>2
    <3>2. \A k \in 1..m : g[k] \in (SUBSET parts) \ {{}}
      BY <2>2
    <3> QED BY <3>1, <3>2
  <2> HIDE DEF n, shard, parts
  <2>5. scans \in [1..m -> Scans] /\ \A k \in 1..m : scans[k] = Scan(shard, g[k], Everything)
    BY <1>1, <1>2, <2>1, <2>4, EverythingSelects, ScanType
  <2>6. scans \in Seq(Scans) /\ Len(scans) = m
    BY <2>4, <2>5
  <2>7. \A k \in 1..m : scans[k].shard = shard
    BY <1>1, <1>2, <2>4, <2>5, EverythingSelects, ScanType
  <2>8. \A k \in 1..m : \A r : Matches(scans[k], r) <=> r.shard = shard /\ r.part \in g[k]
    BY <2>4, <2>5, MatchesScan, EverythingSelects
  <2>9. Distinct(scans)
    BY <2>3, <2>4, <2>5, <2>8 DEF Distinct
  <2>10. ASSUME NEW r \in stable, r.shard = shard PROVE Finding(scans, r)
    <3>1. r.part \in UNION Range(g)
      BY <1>3, <1>4, <2>3, <2>10
    <3>2. PICK k \in 1..m : r.part \in g[k]
      BY <2>4, <3>1 DEF Range
    <3> QED BY <2>5, <2>8, <2>10, <3>2 DEF Finding
  <2>11. DOMAIN scans = 1..m
    BY <2>5
  <2> QED BY <2>2, <2>6, <2>7, <2>9, <2>10, <2>11 DEF ShardScans, n, shard
<1>5. CASE parts = {} /\ facts_ # None /\ facts_.total > 0
  <2> DEFINE q == [target |-> n, max |-> config.max]
             planned == PlannedRanges(facts_, q)
  <2>1. scans = [k \in DOMAIN planned |-> Scan(shard, {}, planned[k])]
    BY <1>5 DEF ScanChoices, RangeScans
  <2>2. IsFacts(facts_) /\ facts_.total # 0
    BY <1>2, <1>3, <1>5
  <2>3. q.target = n /\ q.max = config.max
    OBVIOUS
  <2> HIDE DEF n, shard, parts, facts_, q
  <2>4. planned \in Split(facts_) /\ Len(planned) \in 1..n
    BY <1>1, <2>2, <2>3, PlannedSplit
  <2> HIDE DEF planned
  <2>5. planned \in Seq(Intervals) /\ DOMAIN planned = 1..Len(planned) /\ Len(planned) \in Nat
    BY <2>4 DEF Split
  <2>6. \A k \in 1..Len(planned) : planned[k] \in Intervals
    BY <2>5
  <2>7. /\ scans \in [1..Len(planned) -> Scans]
        /\ \A k \in 1..Len(planned) : scans[k] = Scan(shard, {}, planned[k])
        /\ \A k \in 1..Len(planned) : scans[k].shard = shard
    BY <1>1, <2>1, <2>5, <2>6, ScanType
  <2>8. scans \in Seq(Scans) /\ Len(scans) = Len(planned) /\ DOMAIN scans = 1..Len(planned)
    BY <2>5, <2>7
  <2>9. \A k \in 1..Len(planned) : \A r :
           Matches(scans[k], r) <=> r.shard = shard /\ Selects(planned[k], r.value)
    BY <2>7, MatchesScan
  <2>10. Distinct(scans)
    BY <1>2, <2>4, <2>5, <2>8, <2>9 DEF Distinct, Split
  <2>11. ASSUME NEW r \in stable, r.shard = shard PROVE Finding(scans, r)
    <3>1. r.value \in Int \cup {Null} /\ Within(facts_, r.value)
      BY <1>2, <1>3, <1>5, <2>11
    <3>2. PICK k \in 1..Len(planned) : Selects(planned[k], r.value)
      BY <2>4, <2>5, <3>1 DEF Split
    <3> QED BY <2>8, <2>9, <2>11, <3>2 DEF Finding
  <2> QED BY <2>4, <2>7, <2>8, <2>10, <2>11 DEF ShardScans, n, shard
<1>6. CASE parts = {} /\ ~(facts_ # None /\ facts_.total > 0)
  <2> DEFINE x == Scan(shard, {}, Everything)
  <2>1. scans = <<x>>
    BY <1>6 DEF ScanChoices, SingleScan
  <2> HIDE DEF n, shard, parts, facts_
  <2>2. x \in Scans /\ x.shard = shard
    BY <1>1, <1>2, EverythingSelects, ScanType
  <2>3. \A r : Matches(x, r) <=> r.shard = shard
    BY MatchesScan, EverythingSelects
  <2> HIDE DEF x
  <2>4. scans \in Seq(Scans) /\ Len(scans) = 1 /\ DOMAIN scans = {1} /\ scans[1] = x
    BY <2>1, <2>2
  <2>5. Distinct(scans)
    BY <2>4 DEF Distinct
  <2>6. \A r \in stable : r.shard = shard => Finding(scans, r)
    BY <2>3, <2>4 DEF Finding
  <2>7. Len(scans) \in 1..n
    BY <1>1, <2>4
  <2> QED BY <2>2, <2>4, <2>5, <2>6, <2>7 DEF ShardScans, n, shard
<1> QED BY <1>4, <1>5, <1>6

\* What the scans of the first n shards are, if none has more than limit.
FirstScans(n, limit) ==
    {scans \in Seq(Scans) :
        /\ Len(scans) >= n /\ Len(scans) <= limit * n
        /\ \A j \in DOMAIN scans : \E i \in 1..n : scans[j].shard = Shards[i]
        /\ Distinct(scans)
        /\ \A r \in stable : \A i \in 1..n : r.shard = Shards[i] => Finding(scans, r)}

LEMMA MatchesShard == \A scan, r : Matches(scan, r) => r.shard = scan.shard
BY DEF Matches

LEMMA NextShardScans ==
    ASSUME TypeOK, NEW n \in Nat, n + 1 <= Len(Shards), NEW limit \in Nat,
           NEW a \in FirstScans(n, limit), NEW b \in ShardScans(Shards[n + 1], limit)
    PROVE  a \o b \in FirstScans(n + 1, limit)
<1> DEFINE S == Scans
           c == a \o b
           A == Len(a)
           B == Len(b)
<1>1. a \in Seq(S) /\ b \in Seq(S) /\ B \in 1..limit /\ A >= n /\ A <= limit * n
  BY DEF FirstScans, ShardScans
<1> HIDE DEF S
<1>2. /\ c \in Seq(S) /\ A \in Nat /\ B \in Nat /\ Len(c) = A + B
      /\ DOMAIN a = 1..A /\ DOMAIN b = 1..B /\ DOMAIN c = 1..(A + B)
      /\ \A i \in 1..A : c[i] = a[i]
      /\ \A i \in 1..B : c[A + i] = b[i]
  BY <1>1, Concatenated
<1> HIDE DEF c, A, B
<1>3. Len(c) >= n + 1 /\ Len(c) <= limit * (n + 1)
  <2>1. limit * n \in Int /\ limit * (n + 1) = limit * n + limit
    BY Multiple
  <2> QED BY <1>1, <1>2, <2>1
<1>4. \A j \in 1..(A + B) : (j \in 1..A /\ c[j] = a[j]) \/
                            \E i \in 1..B : j = A + i /\ c[j] = b[i]
  <2> TAKE j \in 1..(A + B)
  <2>1. CASE j <= A
    BY <1>2, <2>1
  <2>2. CASE ~(j <= A)
    <3>1. j - A \in 1..B /\ j = A + (j - A)
      BY <1>2, <2>2
    <3> QED BY <1>2, <3>1
  <2> QED BY <2>1, <2>2
<1>5. /\ \A j \in 1..A : \E i \in 1..n : a[j].shard = Shards[i]
      /\ Distinct(a)
      /\ \A r \in stable : \A i \in 1..n : r.shard = Shards[i] => Finding(a, r)
  BY <1>2 DEF FirstScans
<1>6. /\ \A j \in 1..B : b[j].shard = Shards[n + 1]
      /\ Distinct(b)
      /\ \A r \in stable : r.shard = Shards[n + 1] => Finding(b, r)
  BY <1>2 DEF ShardScans
<1>7. \A i \in 1..n : i \in 1..(n + 1) /\ Shards[i] # Shards[n + 1]
  <2>1. \A i, j \in 1..Len(Shards) : Shards[i] = Shards[j] => i = j
    BY LayoutFacts DEF TypeOK
  <2>2. Len(Shards) \in Nat
    BY LayoutFacts DEF TypeOK
  <2> HIDE DEF Shards
  <2>3. \A i \in 1..n : i \in 1..Len(Shards) /\ n + 1 \in 1..Len(Shards) /\ i # n + 1
    BY <2>2
  <2>4. \A i \in 1..n : i \in 1..(n + 1)
    OBVIOUS
  <2> QED BY <2>1, <2>3, <2>4
<1>8. \A j \in 1..(A + B) : \E i \in 1..(n + 1) : c[j].shard = Shards[i]
  <2> TAKE j \in 1..(A + B)
  <2>1. n + 1 \in 1..(n + 1)
    OBVIOUS
  <2>2. CASE j \in 1..A /\ c[j] = a[j]
    BY <1>5, <1>7, <2>2
  <2>3. CASE \E i \in 1..B : j = A + i /\ c[j] = b[i]
    BY <1>6, <2>1, <2>3
  <2> QED BY <1>4, <2>2, <2>3
<1>9. Distinct(c)
  <2> SUFFICES ASSUME NEW j \in 1..(A + B), NEW l \in 1..(A + B), NEW r \in Rows,
                      Matches(c[j], r), Matches(c[l], r)
               PROVE  j = l
    BY <1>2 DEF Distinct
  <2>1. CASE j \in 1..A /\ c[j] = a[j] /\ l \in 1..A /\ c[l] = a[l]
    BY <1>2, <1>5, <2>1 DEF Distinct
  <2>2. ASSUME NEW i \in 1..B, NEW m \in 1..B, j = A + i, c[j] = b[i], l = A + m, c[l] = b[m]
        PROVE  j = l
    BY <1>2, <1>6, <2>2 DEF Distinct
  <2>3. ASSUME NEW x \in 1..A, NEW y \in 1..B, Matches(a[x], r), Matches(b[y], r)
        PROVE  FALSE
    <3>1. r.shard = a[x].shard /\ r.shard = b[y].shard
      BY <2>3, MatchesShard
    <3> QED BY <1>5, <1>6, <1>7, <3>1
  <2> QED BY <1>4, <2>1, <2>2, <2>3
<1>10. ASSUME NEW r \in stable, NEW i \in 1..(n + 1), r.shard = Shards[i]
       PROVE  Finding(c, r)
  <2>1. CASE i = n + 1
    <3>1. PICK j \in 1..B : Matches(b[j], r)
      BY <1>2, <1>6, <1>10, <2>1 DEF Finding
    <3>2. A + j \in 1..(A + B) /\ c[A + j] = b[j]
      BY <1>2
    <3> QED BY <1>2, <3>1, <3>2 DEF Finding
  <2>2. CASE i # n + 1
    <3>1. i \in 1..n
      BY <2>2
    <3>2. PICK j \in 1..A : Matches(a[j], r)
      BY <1>2, <1>5, <1>10, <3>1 DEF Finding
    <3>3. j \in 1..(A + B) /\ c[j] = a[j]
      BY <1>2
    <3> QED BY <1>2, <3>2, <3>3 DEF Finding
  <2> QED BY <2>1, <2>2
<1> QED BY <1>2, <1>3, <1>8, <1>9, <1>10 DEF FirstScans, S, c

LEMMA ScansUpToDef ==
    ASSUME layout \in Layouts, NEW choice,
           \A i \in 1..Len(Shards) : choice[i] \in Seq(Scans)
    PROVE  /\ ScansUpTo(choice)[0] = << >>
           /\ \A i \in 1..Len(Shards) :
                 ScansUpTo(choice)[i] = ScansUpTo(choice)[i - 1] \o choice[i]
<1> DEFINE N == Len(Shards)
           S == Seq(Scans)
           op == [i \in 1..N |-> [x \in S |-> x \o choice[i]]]
           IsScans(f) == f = [n \in 0..N |-> IF n = 0 THEN << >> ELSE f[n - 1] \o choice[n]]
<1>1. /\ N \in Nat /\ << >> \in S
      /\ \A i \in 1..N, x \in S : x \o choice[i] \in S
  BY LayoutFacts, Concatenated
<1> HIDE DEF S, N
<1>2. /\ op \in [1..N -> [S -> S]]
      /\ \A i \in 1..N, x \in S : op[i][x] = x \o choice[i]
  BY <1>1
<1> HIDE DEF op
<1> DEFINE F == Recursions(N, S, << >>, op)
<1>3. F # {}
  BY <1>1, <1>2, RecursiveFunction
<1>4. PICK f : f \in F
  BY <1>3
<1>5. f \in [0..N -> S] /\ f[0] = << >>
  BY <1>1, <1>4, RecursionStep
<1>6. ASSUME NEW i \in 1..N PROVE f[i] = f[i - 1] \o choice[i]
  <2>1. f[i - 1] \in S /\ f[i] = op[i][f[i - 1]]
    BY <1>1, <1>4, RecursionStep
  <2> QED BY <1>2, <2>1
<1>7. IsScans(f)
  <2>1. \A n \in 0..N : n = 0 \/ n \in 1..N
    BY <1>1
  <2>2. \A n \in 0..N : f[n] = IF n = 0 THEN << >> ELSE f[n - 1] \o choice[n]
    BY <1>5, <1>6, <2>1, Zenon
  <2> QED BY <1>5, <2>2
<1>8. IsScans(ScansUpTo(choice))
  BY <1>7 DEF ScansUpTo, N
<1> DEFINE r == ScansUpTo(choice)
<1> HIDE DEF r
<1>9. r = [n \in 0..N |-> IF n = 0 THEN << >> ELSE r[n - 1] \o choice[n]]
  BY <1>8 DEF r
<1>10. r[0] = << >>
  BY <1>1, <1>9
<1>11. ASSUME NEW i \in 1..N PROVE r[i] = r[i - 1] \o choice[i]
  <2>1. i \in 0..N /\ i # 0
    BY <1>1
  <2> QED BY <1>9, <2>1, Zenon
<1> QED BY <1>10, <1>11 DEF r, N

\* The scans of all shards.
LEMMA AllShardsScanned ==
    ASSUME TypeOK, NEW limit \in Nat, NEW choice,
           \A i \in 1..Len(Shards) : choice[i] \in ShardScans(Shards[i], limit)
    PROVE  AllScans(choice) \in FirstScans(Len(Shards), limit)
<1> DEFINE r == ScansUpTo(choice)
           Good == {n \in Nat : n <= Len(Shards) => r[n] \in FirstScans(n, limit)}
<1>0. layout \in Layouts /\ Len(Shards) \in Nat
  BY LayoutFacts DEF TypeOK
<1>1. /\ r[0] = << >>
      /\ \A i \in 1..Len(Shards) : r[i] = r[i - 1] \o choice[i]
  <2>1. \A i \in 1..Len(Shards) : choice[i] \in Seq(Scans)
    BY DEF ShardScans
  <2> QED BY <1>0, <2>1, ScansUpToDef
<1>2. 0 \in Good
  <2>1. << >> \in Seq(Scans) /\ Len(<< >>) = 0 /\ limit * 0 = 0 /\ DOMAIN << >> = {}
    OBVIOUS
  <2>2. << >> \in FirstScans(0, limit)
    BY <2>1 DEF FirstScans, Distinct
  <2> QED BY <1>1, <2>2
<1>3. ASSUME NEW n \in Nat, n \in Good PROVE n + 1 \in Good
  <2> SUFFICES ASSUME n + 1 <= Len(Shards) PROVE r[n + 1] \in FirstScans(n + 1, limit)
    OBVIOUS
  <2>1. n + 1 \in 1..Len(Shards) /\ (n + 1) - 1 = n /\ n <= Len(Shards)
    BY <1>0
  <2>2. r[n] \in FirstScans(n, limit) /\ choice[n + 1] \in ShardScans(Shards[n + 1], limit)
    BY <1>3, <2>1
  <2>3. r[n + 1] = r[n] \o choice[n + 1]
    BY <1>1, <2>1
  <2> HIDE DEF r
  <2> QED BY <2>2, <2>3, NextShardScans
<1> HIDE DEF Good
<1>4. \A n \in Nat : n \in Good
  BY <1>2, <1>3, InductNat
<1> QED BY <1>0, <1>4 DEF Good, AllScans

\* The tasks get_read_tasks may return, each a sequence of scans.
ReadPlans(limit) ==
    {plan \in Seq(Seq(Scans)) :
        /\ Len(plan) \in 1..limit
        /\ \A k \in DOMAIN plan : plan[k] # << >>
        /\ \A k, l \in DOMAIN plan : \A i \in DOMAIN plan[k], j \in DOMAIN plan[l] :
               \A r \in Rows : Matches(plan[k][i], r) /\ Matches(plan[l][j], r) => k = l /\ i = j
        /\ \A r \in stable :
               \E k \in DOMAIN plan : \E i \in DOMAIN plan[k] : Matches(plan[k][i], r)}

\* Position k of the first row of count columns, and what is below it.
LEMMA Columns ==
    ASSUME NEW n \in Nat, NEW c \in 1..n, NEW k \in 1..c
    PROVE  /\ (n - k) \div c + 1 \in Nat \ {0}
           /\ \A j \in 1..((n - k) \div c + 1) : k + (j - 1) * c \in 1..n
           /\ n = c => (n - k) \div c + 1 = 1
<1> DEFINE d == (n - k) \div c
<1>1. c \in Nat \ {0} /\ k \in Nat /\ c \in Int /\ n - k \in Int /\ n - k >= 0
  OBVIOUS
<1>2. d \in Int
  BY <1>1, Z3
<1>3. c * d <= n - k /\ n - k < c * d + c /\ c * d \in Int
  BY <1>1, <1>2, Division, Multiple
<1> HIDE DEF d
<1>4. c * 0 = 0
  BY <1>1
<1>5. d >= 0
  <2>1. c * 0 < c * d + c
    BY <1>1, <1>3, <1>4
  <2> QED BY <1>1, <1>2, <2>1, Below
<1>6. ASSUME NEW j \in 1..(d + 1) PROVE k + (j - 1) * c \in 1..n
  <2>1. j - 1 \in Int /\ 0 <= j - 1 /\ j - 1 <= d
    BY <1>2
  <2>2. c * 0 <= c * (j - 1) /\ c * (j - 1) <= c * d /\ c * (j - 1) \in Int
    BY <1>1, <1>2, <2>1, Monotone, Multiple
  <2>3. (j - 1) * c = c * (j - 1)
    BY <1>1, <2>1, Z3
  <2> QED BY <1>1, <1>3, <1>4, <2>2, <2>3
<1>7. n = c => d = 0
  <2> SUFFICES ASSUME n = c PROVE d <= 0
    BY <1>2, <1>5
  <2>1. c * d < c * 0 + c
    BY <1>1, <1>3, <1>4
  <2> QED BY <1>1, <1>2, <2>1, Below
<1> QED BY <1>2, <1>5, <1>6, <1>7 DEF d

\* No position is in two places, and every position is in one.
LEMMA ColumnsApart ==
    ASSUME NEW c \in Nat \ {0}, NEW k \in 1..c, NEW l \in 1..c,
           NEW i \in Nat \ {0}, NEW j \in Nat \ {0},
           k + (i - 1) * c = l + (j - 1) * c
    PROVE  k = l /\ i = j
<1> DEFINE x == c * (i - 1)
           y == c * (j - 1)
<1>1. i - 1 \in Int /\ j - 1 \in Int /\ c \in Int
  OBVIOUS
<1>2. (i - 1) * c = x /\ (j - 1) * c = y /\ x \in Int /\ y \in Int
  BY <1>1, Z3
<1>3. k + x = l + y
  BY <1>2
<1>4. x < y + c /\ y < x + c
  <2> HIDE DEF x, y
  <2> QED BY <1>2, <1>3
<1>5. i - 1 = j - 1
  BY <1>1, <1>4, Between
<1>6. i = j /\ x = y
  BY <1>5
<1> HIDE DEF x, y
<1> QED BY <1>2, <1>3, <1>6

LEMMA ColumnsComplete ==
    ASSUME NEW n \in Nat, NEW c \in 1..n, NEW m \in 1..n
    PROVE  \E k \in 1..c : \E j \in 1..((n - k) \div c + 1) : m = k + (j - 1) * c
<1> DEFINE d == (m - 1) \div c
           k == m - c * d
           e == (n - k) \div c
<1>1. c \in Nat \ {0} /\ c \in Int /\ m - 1 \in Int /\ m - 1 >= 0
  OBVIOUS
<1>2. d \in Int
  BY <1>1, Z3
<1>3. c * d <= m - 1 /\ m - 1 < c * d + c /\ c * d \in Int
  BY <1>1, <1>2, Division, Multiple
<1> HIDE DEF d
<1>4. k \in 1..c
  BY <1>1, <1>3
<1>5. d >= 0
  <2>1. c * 0 = 0
    BY <1>1
  <2>2. c * 0 < c * d + c
    BY <1>1, <1>3, <2>1
  <2> QED BY <1>1, <1>2, <2>2, Below
<1>6. n - k \in Int /\ e \in Int
  BY <1>1, <1>4, Z3
<1>7. n - k < c * e + c /\ c * e \in Int
  BY <1>1, <1>6, Division, Multiple
<1>8. c * d < c * e + c
  <2> HIDE DEF e
  <2> QED BY <1>1, <1>3, <1>6, <1>7
<1>9. d <= e
  <2> HIDE DEF e
  <2> QED BY <1>1, <1>2, <1>6, <1>8, Below
<1>10. d + 1 \in 1..(e + 1) /\ (d + 1) - 1 = d
  <2> HIDE DEF e
  <2> QED BY <1>2, <1>5, <1>6, <1>9
<1>11. d * c = c * d
  BY <1>1, <1>2, Z3
<1>12. m = k + ((d + 1) - 1) * c
  BY <1>1, <1>3, <1>10, <1>11
<1> QED BY <1>4, <1>10, <1>12

\* Dealing the scans to the tasks keeps every scan, in one task.
LEMMA GroupedPlan ==
    ASSUME config \in Configs, NEW scans \in Seq(Scans), scans # << >>,
           Distinct(scans), \A r \in stable : Finding(scans, r)
    PROVE  /\ Grouped(scans) \in ReadPlans(TaskLimit(config.parallelism))
           /\ Len(scans) <= TaskLimit(config.parallelism) =>
                 \A k \in DOMAIN Grouped(scans) : Len(Grouped(scans)[k]) = 1
<1> DEFINE n == Len(scans)
           limit == TaskLimit(config.parallelism)
           c == ScanGroups(n)
           height(k) == (n - k) \div c + 1
           task(k) == [j \in 1..height(k) |-> scans[k + (j - 1) * c]]
           plan == Grouped(scans)
<1>1. plan = [k \in 1..c |-> task(k)]
  BY DEF Grouped
<1>2. n \in Nat \ {0} /\ DOMAIN scans = 1..n /\ \A m \in 1..n : scans[m] \in Scans
  <2> DEFINE S == Scans
  <2> HIDE DEF S
  <2>1. scans \in Seq(S)
    BY DEF S
  <2>2. n \in Nat \ {0} /\ DOMAIN scans = 1..n /\ \A m \in 1..n : scans[m] \in S
    BY <2>1
  <2> QED BY <2>2 DEF S
<1>3. limit \in Nat \ {0} /\ c \in 1..n /\ c \in 1..limit /\ (n <= limit => c = n)
  <2>1. limit \in Nat \ {0}
    BY Limits, SplitAssumption
  <2>2. c = IF limit <= n THEN limit ELSE n
    BY DEF ScanGroups, Least
  <2> HIDE DEF n, limit, c
  <2> QED BY <1>2, <2>1, <2>2
<1> HIDE DEF n, limit, c, plan
<1>4. \A k \in 1..c : /\ height(k) \in Nat \ {0}
                      /\ \A j \in 1..height(k) : k + (j - 1) * c \in 1..n
                      /\ n = c => height(k) = 1
  BY <1>2, <1>3, Columns
<1>5. \A k \in 1..c : \A j \in 1..height(k) : j \in Nat \ {0}
  BY <1>4
<1>6. \A m \in 1..n : \E k \in 1..c : \E j \in 1..height(k) : m = k + (j - 1) * c
  BY <1>2, <1>3, ColumnsComplete
<1>7. \A k, l \in 1..c : \A i \in 1..height(k), j \in 1..height(l) :
         k + (i - 1) * c = l + (j - 1) * c => k = l /\ i = j
  <2>1. c \in Nat \ {0}
    BY <1>2, <1>3
  <2> HIDE DEF height
  <2> QED BY <2>1, <1>5, ColumnsApart
<1> HIDE DEF height
<1>8. \A k \in 1..c : /\ task(k) \in Seq(Scans) /\ Len(task(k)) = height(k)
                      /\ DOMAIN task(k) = 1..height(k)
                      /\ \A j \in 1..height(k) : task(k)[j] = scans[k + (j - 1) * c]
  <2> TAKE k \in 1..c
  <2>1. \A j \in 1..height(k) : scans[k + (j - 1) * c] \in Scans
    BY <1>2, <1>4
  <2>2. task(k) \in [1..height(k) -> Scans] /\ height(k) \in Nat
    BY <1>4, <2>1
  <2>3. \A j \in 1..height(k) : task(k)[j] = scans[k + (j - 1) * c]
    OBVIOUS
  <2> HIDE DEF task
  <2> QED BY <2>2, <2>3, IsASequence
<1>9. /\ plan \in Seq(Seq(Scans)) /\ Len(plan) = c /\ DOMAIN plan = 1..c
      /\ \A k \in 1..c : plan[k] = task(k)
  <2> HIDE DEF task
  <2>1. plan \in [1..c -> Seq(Scans)] /\ c \in Nat
    BY <1>1, <1>3, <1>8
  <2> QED BY <1>1, <2>1, IsASequence
<1>10. \A k \in 1..c : plan[k] # << >>
  <2> TAKE k \in 1..c
  <2>1. Len(plan[k]) = height(k) /\ height(k) # 0
    BY <1>4, <1>8, <1>9
  <2> QED BY <2>1
<1>11. \A k \in 1..c : /\ DOMAIN plan[k] = 1..height(k)
                       /\ \A j \in 1..height(k) : /\ plan[k][j] = scans[k + (j - 1) * c]
                                                  /\ k + (j - 1) * c \in 1..n
  BY <1>4, <1>8, <1>9
<1> HIDE DEF task
<1>12. ASSUME NEW k \in 1..c, NEW l \in 1..c, NEW i \in 1..height(k), NEW j \in 1..height(l),
              NEW r \in Rows, Matches(plan[k][i], r), Matches(plan[l][j], r)
       PROVE  k = l /\ i = j
  <2>1. /\ k + (i - 1) * c \in 1..n /\ l + (j - 1) * c \in 1..n
        /\ plan[k][i] = scans[k + (i - 1) * c] /\ plan[l][j] = scans[l + (j - 1) * c]
    BY <1>11
  <2>2. k + (i - 1) * c = l + (j - 1) * c
    BY <1>2, <1>12, <2>1, Zenon DEF Distinct
  <2> QED BY <1>7, <2>2, Zenon
<1>13. ASSUME NEW r \in stable
       PROVE  \E k \in 1..c : \E i \in 1..height(k) : Matches(plan[k][i], r)
  <2>1. PICK m \in 1..n : Matches(scans[m], r)
    BY <1>2 DEF Finding
  <2>2. PICK k \in 1..c : \E j \in 1..height(k) : m = k + (j - 1) * c
    BY <1>6
  <2>3. PICK j \in 1..height(k) : m = k + (j - 1) * c
    BY <2>2
  <2>4. Matches(plan[k][j], r)
    BY <1>11, <2>1, <2>3, Zenon
  <2> QED BY <2>4
<1>14. plan \in ReadPlans(limit)
  <2>1. \A k, l \in DOMAIN plan : \A i \in DOMAIN plan[k], j \in DOMAIN plan[l] :
            \A r \in Rows : Matches(plan[k][i], r) /\ Matches(plan[l][j], r) => k = l /\ i = j
    <3> TAKE k, l \in DOMAIN plan
    <3> TAKE i \in DOMAIN plan[k], j \in DOMAIN plan[l]
    <3>1. k \in 1..c /\ l \in 1..c /\ i \in 1..height(k) /\ j \in 1..height(l)
      BY <1>9, <1>11, Zenon
    <3> QED BY <1>12, <3>1, Zenon
  <2>2. \A r \in stable : \E k \in DOMAIN plan : \E i \in DOMAIN plan[k] : Matches(plan[k][i], r)
    BY <1>9, <1>11, <1>13, Zenon
  <2>3. \A k \in DOMAIN plan : plan[k] # << >>
    BY <1>9, <1>10, Zenon
  <2>4. plan \in Seq(Seq(Scans)) /\ Len(plan) \in 1..limit
    BY <1>3, <1>9
  <2> QED BY <2>1, <2>2, <2>3, <2>4, Zenon DEF ReadPlans
<1>15. n <= limit => \A k \in DOMAIN plan : Len(plan[k]) = 1
  <2> SUFFICES ASSUME n <= limit, NEW k \in 1..c PROVE Len(plan[k]) = 1
    BY <1>9
  <2>1. n = c /\ height(k) = 1
    BY <1>3, <1>4
  <2> QED BY <1>8, <1>9, <2>1
<1> QED BY <1>14, <1>15 DEF plan, n, limit

\* One task for each scan.
LEMMA SinglePlan ==
    ASSUME NEW limit \in Nat, NEW scans \in Seq(Scans), Len(scans) \in 1..limit,
           Distinct(scans), \A r \in stable : Finding(scans, r)
    PROVE  LET plan == [k \in DOMAIN scans |-> <<scans[k]>>]
           IN  plan \in ReadPlans(limit) /\ \A k \in DOMAIN plan : Len(plan[k]) = 1
<1> DEFINE n == Len(scans)
           plan == [k \in DOMAIN scans |-> <<scans[k]>>]
           S == Scans
<1> HIDE DEF S
<1>1. n \in Nat /\ DOMAIN scans = 1..n /\ \A k \in 1..n : scans[k] \in S
  <2>1. scans \in Seq(S)
    BY DEF S
  <2> QED BY <2>1
<1> HIDE DEF n
<1>2. \A k \in 1..n : /\ plan[k] = <<scans[k]>>
                      /\ plan[k] \in Seq(S) /\ Len(plan[k]) = 1
                      /\ DOMAIN plan[k] = {1} /\ plan[k][1] = scans[k] /\ plan[k] # << >>
  BY <1>1
<1>3. plan \in [1..n -> Seq(S)]
  BY <1>1, <1>2
<1> HIDE DEF plan
<1>4. plan \in Seq(Seq(S)) /\ Len(plan) = n /\ DOMAIN plan = 1..n
  BY <1>1, <1>3, IsASequence
<1>5. \A r \in stable : \E k \in 1..n : \E i \in DOMAIN plan[k] : Matches(plan[k][i], r)
  <2> TAKE r \in stable
  <2>1. PICK k \in 1..n : Matches(scans[k], r)
    BY <1>1 DEF Finding
  <2> QED BY <1>2, <2>1
<1>6. \A k, l \in 1..n : \A i \in DOMAIN plan[k], j \in DOMAIN plan[l] :
          \A r \in Rows : Matches(plan[k][i], r) /\ Matches(plan[l][j], r) => k = l /\ i = j
  BY <1>1, <1>2 DEF Distinct
<1>7. n \in 1..limit
  BY DEF n
<1>8. plan \in ReadPlans(limit) /\ \A k \in DOMAIN plan : Len(plan[k]) = 1
  BY <1>2, <1>4, <1>5, <1>6, <1>7, Zenon DEF ReadPlans, S
<1> QED BY <1>8 DEF plan

(* The reads themselves *)

Snapshots == [parts : SUBSET Parts, range : {None} \cup FactRecords]

LEMMA SplitTypes ==
    TypeOK <=>
    /\ layout \in Layouts /\ config \in Configs
    /\ table \subseteq Rows /\ stable \subseteq table
    /\ phase \in {"plan", "read", "failed"}
    /\ snapshots \in Seq(Snapshots) /\ Len(snapshots) <= Len(Shards)
    /\ tasks \in Seq(Seq(Scans)) /\ results \in Seq(Seq(SUBSET Rows))
    /\ Len(results) = Len(tasks)
    /\ \A k \in DOMAIN tasks : Len(results[k]) <= Len(tasks[k])
BY DEF TypeOK, Snapshots, FactRecords

LEMMA InitIInv == Init => IInv
<1> SUFFICES ASSUME Init PROVE IInv
  OBVIOUS
<1>1. /\ layout \in Layouts /\ config \in Configs /\ phase = "plan"
      /\ table \subseteq Rows /\ stable = table
      /\ snapshots = << >> /\ tasks = << >> /\ results = << >>
  BY DEF Init
<1>2. Len(Shards) \in Nat
  BY <1>1, LayoutFacts
<1>3. TypeOK
  BY <1>1, <1>2, SplitTypes
<1> QED BY <1>1, <1>3 DEF IInv, Foreseen, Apart, Covering, Answered, WithinTaskLimit

LEMMA AppendSnapshot ==
    ASSUME IInv, Len(snapshots) < Len(Shards),
           NEW x \in Snapshots, snapshots' = Append(snapshots, x),
           x.parts # {} =>
               \A r \in stable : r.shard = NextShard => r.part \in x.parts,
           x.range # None =>
               /\ IsFacts(x.range)
               /\ \A r \in stable : r.shard = NextShard => Within(x.range, r.value),
           UNCHANGED <<layout, config, table, phase, tasks, results, stable>>
    PROVE  IInv'
<1> DEFINE S == Snapshots
           n == Len(snapshots)
<1>1. snapshots \in Seq(S) /\ TypeOK /\ Len(Shards) \in Nat
  BY SplitTypes, LayoutFacts DEF IInv
<1>2. Snapshots' = Snapshots /\ Rows' = Rows /\ Shards' = Shards /\ Scans' = Scans
  BY DEF Snapshots, Parts, FactRecords, Ends, Rows, Shards, Scans
<1> HIDE DEF S
<1>3. /\ n \in Nat /\ snapshots' \in Seq(S) /\ Len(snapshots') = n + 1
      /\ DOMAIN snapshots' = 1..(n + 1) /\ DOMAIN snapshots = 1..n
      /\ snapshots'[n + 1] = x
      /\ \A i \in 1..n : snapshots'[i] = snapshots[i]
  <2>1. x \in S
    BY DEF S
  <2> QED BY <1>1, <2>1
<1>4. TypeOK'
  <2>1. n + 1 <= Len(Shards)
    BY <1>1, <1>3
  <2>2. /\ snapshots' \in Seq([parts : SUBSET Parts, range : {None} \cup FactRecords])
        /\ Parts' = Parts /\ Ends' = Ends
    BY <1>3 DEF S, Snapshots, Parts, Ends, Rows
  <2> QED BY <1>1, <1>2, <1>3, <2>1, <2>2 DEF TypeOK, FactRecords
<1>5. Foreseen'
  <2> SUFFICES ASSUME NEW i \in 1..(n + 1)
               PROVE  /\ snapshots'[i].parts # {} =>
                            \A r \in stable : r.shard = Shards[i] => r.part \in snapshots'[i].parts
                      /\ snapshots'[i].range # None =>
                            /\ IsFacts(snapshots'[i].range)
                            /\ \A r \in stable :
                                 r.shard = Shards[i] => Within(snapshots'[i].range, r.value)
    BY <1>2, <1>3 DEF Foreseen
  <2>1. CASE i = n + 1
    BY <1>3, <2>1 DEF NextShard
  <2>2. CASE i # n + 1
    <3>1. i \in 1..n /\ snapshots'[i] = snapshots[i]
      BY <1>3, <2>2
    <3> QED BY <1>3, <3>1 DEF IInv, Foreseen
  <2> QED BY <2>1, <2>2
<1>6. Apart' /\ Covering' /\ Answered'
  BY <1>2 DEF IInv, Apart, Covering, Answered
<1>7. WithinTaskLimit'
  BY <1>2 DEF IInv, WithinTaskLimit, TaskLimit
<1> QED BY <1>4, <1>5, <1>6, <1>7 DEF IInv

LEMMA NothingKnown == Nothing \in Snapshots /\ Nothing.parts = {} /\ Nothing.range = None
BY DEF Nothing, Snapshots

LEMMA DiscoverIInv == IInv /\ Discover => IInv'
<1> SUFFICES ASSUME IInv, Discover PROVE IInv'
  OBVIOUS
<1> DEFINE rs == Here(NextShard)
           x == Discovered(rs)
<1>1. /\ snapshots' = Append(snapshots, x) /\ Len(snapshots) < Len(Shards)
      /\ UNCHANGED <<layout, config, table, phase, tasks, results, stable>>
  BY DEF Discover
<1>2. /\ table \subseteq Rows /\ stable \subseteq table
      /\ IsFiniteSet(Rows) /\ \A r \in Rows : r.value \in Int \cup {Null}
  BY SplitTypes, LayoutFacts DEF IInv
<1>3. /\ rs \in SUBSET Rows /\ \A r \in stable : r.shard = NextShard => r \in rs
  BY <1>2 DEF Here
<1> HIDE DEF rs
<1>4. IsFiniteSet(rs) /\ \A r \in rs : r.value \in Int \cup {Null}
  BY <1>2, <1>3, FS_Subset
<1>5. CASE x = Nothing
  BY <1>1, <1>5, AppendSnapshot, NothingKnown
<1>6. CASE x = [Nothing EXCEPT !.parts = {r.part : r \in rs}]
  <2>1. {r.part : r \in rs} \in SUBSET Parts
    BY <1>3 DEF Parts
  <2>2. x = [parts |-> {r.part : r \in rs}, range |-> None]
    BY <1>6 DEF Nothing
  <2>3. x \in Snapshots /\ x.range = None /\ x.parts = {r.part : r \in rs}
    BY <2>1, <2>2 DEF Snapshots
  <2> HIDE DEF x
  <2>4. \A r \in stable : r.shard = NextShard => r.part \in x.parts
    BY <1>3, <2>3
  <2> QED BY <1>1, <2>3, <2>4, AppendSnapshot
<1>7. CASE x = [Nothing EXCEPT !.range = RangeFacts(rs)]
  <2>1. /\ RangeFacts(rs) \in FactRecords /\ IsFacts(RangeFacts(rs))
        /\ \A r \in rs : Within(RangeFacts(rs), r.value)
    BY <1>4, FactsOfRows
  <2>2. x = [parts |-> {}, range |-> RangeFacts(rs)]
    BY <1>7 DEF Nothing
  <2>3. x \in Snapshots /\ x.parts = {} /\ x.range = RangeFacts(rs)
    BY <2>1, <2>2 DEF Snapshots
  <2> HIDE DEF x
  <2> QED BY <1>1, <1>3, <2>1, <2>3, AppendSnapshot
<1>8. x = Nothing \/ x = [Nothing EXCEPT !.parts = {r.part : r \in rs}]
                  \/ x = [Nothing EXCEPT !.range = RangeFacts(rs)]
  BY DEF Discovered
<1> QED BY <1>5, <1>6, <1>7, <1>8

\* A read that failed while it was planned has no tasks.
LEMMA FailIInv ==
    ASSUME IInv, phase' = "failed",
           UNCHANGED <<layout, config, table, snapshots, tasks, results, stable>>
    PROVE  IInv'
<1>1. TypeOK'
  BY DEF IInv, TypeOK, Rows, Shards, Scans, Parts, Ends
<1>2. Foreseen' /\ Apart' /\ Answered'
  BY DEF IInv, Foreseen, Apart, Answered, Rows, Shards
<1>3. Covering' /\ WithinTaskLimit'
  BY DEF Covering, WithinTaskLimit
<1> QED BY <1>1, <1>2, <1>3 DEF IInv

LEMMA DiscoveryFailsIInv == IInv /\ DiscoveryFails => IInv'
<1> SUFFICES ASSUME IInv, DiscoveryFails PROVE IInv'
  OBVIOUS
<1>1. CASE config.policy = "error"
  BY <1>1, FailIInv DEF DiscoveryFails
<1>2. CASE config.policy # "error"
  <2>1. /\ snapshots' = Append(snapshots, Nothing) /\ Len(snapshots) < Len(Shards)
        /\ UNCHANGED <<layout, config, table, phase, tasks, results, stable>>
    BY <1>2 DEF DiscoveryFails
  <2> QED BY <2>1, AppendSnapshot, NothingKnown
<1> QED BY <1>1, <1>2

\* The budget of a shard: all shards together stay within the limit if they can.
LEMMA Budget ==
    ASSUME layout \in Layouts, config \in Configs
    PROVE  /\ ShardBudget \in Nat \ {0} /\ TaskLimit(ShardBudget) <= ShardBudget
           /\ Len(Shards) <= TaskLimit(config.parallelism) =>
                  TaskLimit(ShardBudget) * Len(Shards) <= TaskLimit(config.parallelism)
<1> DEFINE L == TaskLimit(config.parallelism)
           n == Len(Shards)
           d == L \div n
           B == ShardBudget
<1>1. L \in Nat \ {0} /\ n \in Nat \ {0}
  BY Limits, LayoutFacts, SplitAssumption
<1>2. B = Greatest(1, d)
  BY DEF ShardBudget
<1> HIDE DEF L, n, B
<1>3. d \in Int
  BY <1>1, Z3
<1>4. n * d <= L /\ L < n * d + n /\ n * d \in Int
  BY <1>1, <1>3, Division, Multiple
<1> HIDE DEF d
<1>5. B \in Nat \ {0} /\ (d >= 1 => B = d)
  BY <1>2, <1>3 DEF Greatest
<1>6. TaskLimit(B) <= B /\ TaskLimit(B) \in Nat \ {0}
  <2>1. B \in Int
    BY <1>5
  <2> QED BY <1>5, <2>1, Limits, SplitAssumption DEF TaskLimit, Least, Greatest
<1>7. ASSUME n <= L PROVE TaskLimit(B) * n <= L
  <2>1. d >= 1
    <3>1. n * 1 = n /\ n \in Int
      BY <1>1
    <3>2. n * 1 < n * d + n
      <4>1. n <= L /\ L \in Int
        BY <1>1, <1>7
      <4> QED BY <1>4, <3>1, <4>1
    <3> QED BY <1>1, <1>3, <3>2, Below
  <2>2. n * TaskLimit(B) <= n * d /\ n * TaskLimit(B) \in Int
    BY <1>1, <1>3, <1>5, <1>6, <2>1, Monotone, Multiple
  <2>3. TaskLimit(B) * n = n * TaskLimit(B)
    BY <1>1, <1>6, Z3
  <2> QED BY <1>1, <1>4, <2>2, <2>3
<1> QED BY <1>5, <1>6, <1>7 DEF L, n, B

\* What get_read_tasks returns, for a table and for the shards of one.
LEMMA PlannedTasks ==
    ASSUME IInv, Plan
    PROVE  /\ tasks' \in ReadPlans(TaskLimit(config.parallelism))
           /\ Len(Shards) <= TaskLimit(config.parallelism) =>
                  \A k \in DOMAIN tasks' : Len(tasks'[k]) = 1
<1> DEFINE L == TaskLimit(config.parallelism)
<1>1. /\ TypeOK /\ Foreseen /\ layout \in Layouts /\ config \in Configs
      /\ Len(snapshots) = Len(Shards) /\ stable \subseteq Rows
  BY SplitTypes DEF IInv, Plan
<1>2. /\ Len(Shards) \in Nat \ {0} /\ DOMAIN Shards = 1..Len(Shards)
      /\ \A r \in stable : r.shard \in Range(Shards)
  BY <1>1, LayoutFacts
<1>3. L \in Nat \ {0} /\ config.parallelism \in Int
  BY <1>1, Limits, SplitAssumption
<1>4. CASE Local
  <2> DEFINE B == TaskLimit(ShardBudget)
             n == Len(Shards)
  <2>1. PICK choice \in [DOMAIN Shards ->
                            UNION {ScanChoices(i, ShardBudget) : i \in DOMAIN Shards}] :
            /\ \A i \in DOMAIN Shards : choice[i] \in ScanChoices(i, ShardBudget)
            /\ tasks' = Grouped(AllScans(choice))
    BY <1>4 DEF Plan
  <2>2. ShardBudget \in Int /\ B \in Nat
    BY <1>1, Budget, Limits
  <2>3. \A i \in 1..n : choice[i] \in ShardScans(Shards[i], B)
    BY <1>1, <1>2, <2>1, <2>2, ChoicesCorrect
  <2> DEFINE scans == AllScans(choice)
  <2>4. scans \in FirstScans(n, B)
    BY <1>1, <2>2, <2>3, AllShardsScanned
  <2> HIDE DEF scans, B, L
  <2>5. /\ scans \in Seq(Scans) /\ Len(scans) >= n /\ Len(scans) <= B * n
        /\ Distinct(scans)
        /\ \A r \in stable : \A i \in 1..n : r.shard = Shards[i] => Finding(scans, r)
    BY <2>4 DEF FirstScans
  <2>6. scans # << >>
    BY <1>2, <2>5
  <2>7. \A r \in stable : Finding(scans, r)
    <3> TAKE r \in stable
    <3>1. PICK i \in 1..n : r.shard = Shards[i]
      BY <1>2 DEF Range
    <3> QED BY <2>5, <3>1
  <2>8. /\ Grouped(scans) \in ReadPlans(TaskLimit(config.parallelism))
        /\ Len(scans) <= TaskLimit(config.parallelism) =>
              \A k \in DOMAIN Grouped(scans) : Len(Grouped(scans)[k]) = 1
    BY <1>1, <2>5, <2>6, <2>7, GroupedPlan
  <2>9. n <= L => Len(scans) <= L
    <3>1. n <= L => B * n <= L
      BY <1>1, Budget DEF B, L
    <3>2. B * n \in Int /\ Len(scans) \in Int
      BY <1>2, <2>2, <2>5, Z3
    <3> QED BY <1>3, <2>5, <3>1, <3>2
  <2>10. tasks' = Grouped(scans)
    BY <2>1 DEF scans
  <2> QED BY <2>8, <2>9, <2>10 DEF L
<1>5. CASE ~Local
  <2>1. Len(Shards) = 1
    BY <1>1, <1>5, LayoutFacts
  <2>2. PICK scans \in ScanChoices(1, config.parallelism) :
            tasks' = [k \in DOMAIN scans |-> <<scans[k]>>]
    BY <1>5 DEF Plan
  <2>3. scans \in ShardScans(Shards[1], L)
    <3>1. 1 \in 1..Len(Shards)
      BY <2>1
    <3> QED BY <1>1, <1>3, <3>1, ChoicesCorrect
  <2> HIDE DEF L
  <2>4. /\ scans \in Seq(Scans) /\ Len(scans) \in 1..L /\ Distinct(scans)
        /\ \A r \in stable : r.shard = Shards[1] => Finding(scans, r)
    BY <2>3 DEF ShardScans
  <2>5. \A r \in stable : r.shard = Shards[1]
    BY <1>2, <2>1 DEF Range
  <2>6. tasks' \in ReadPlans(L) /\ \A k \in DOMAIN tasks' : Len(tasks'[k]) = 1
    BY <1>3, <2>2, <2>4, <2>5, SinglePlan
  <2> QED BY <2>6 DEF L
<1> QED BY <1>4, <1>5

LEMMA PlanIInv == IInv /\ Plan => IInv'
<1> SUFFICES ASSUME IInv, Plan PROVE IInv'
  OBVIOUS
<1> DEFINE L == TaskLimit(config.parallelism)
<1>1. tasks' \in ReadPlans(L) /\ (Len(Shards) <= L => \A k \in DOMAIN tasks' : Len(tasks'[k]) = 1)
  BY PlannedTasks
<1>2. /\ results' = [k \in DOMAIN tasks' |-> << >>] /\ phase' = "read"
      /\ layout' = layout /\ config' = config /\ table' = table /\ stable' = stable
      /\ snapshots' = snapshots
  BY DEF Plan
<1>3. /\ Snapshots' = Snapshots /\ Rows' = Rows /\ Shards' = Shards /\ Scans' = Scans
      /\ Parts' = Parts /\ Ends' = Ends /\ TaskLimit(config.parallelism)' = L
  BY <1>2 DEF Snapshots, Parts, FactRecords, Ends, Rows, Shards, Scans, TaskLimit
<1> HIDE DEF L
<1>4. /\ tasks' \in Seq(Seq(Scans)) /\ Len(tasks') \in 1..L
      /\ \A k \in DOMAIN tasks' : tasks'[k] # << >>
      /\ \A k, l \in DOMAIN tasks' : \A i \in DOMAIN tasks'[k], j \in DOMAIN tasks'[l] :
             \A r \in Rows : Matches(tasks'[k][i], r) /\ Matches(tasks'[l][j], r) => k = l /\ i = j
      /\ \A r \in stable :
             \E k \in DOMAIN tasks' : \E i \in DOMAIN tasks'[k] : Matches(tasks'[k][i], r)
  BY <1>1 DEF ReadPlans
<1>5. /\ DOMAIN tasks' = 1..Len(tasks') /\ Len(tasks') \in Nat
      /\ \A k \in DOMAIN tasks' : Len(tasks'[k]) \in Nat
  <2> DEFINE S == Seq(Scans)
  <2>1. \A s \in S : Len(s) \in Nat
    OBVIOUS
  <2> HIDE DEF S
  <2>2. tasks' \in Seq(S)
    BY <1>4 DEF S
  <2>3. /\ DOMAIN tasks' = 1..Len(tasks') /\ Len(tasks') \in Nat
        /\ \A k \in DOMAIN tasks' : tasks'[k] \in S
    BY <2>2
  <2> QED BY <2>1, <2>3
<1>6. /\ results' \in Seq(Seq(SUBSET Rows)) /\ Len(results') = Len(tasks')
      /\ DOMAIN results' = 1..Len(tasks')
      /\ \A k \in DOMAIN tasks' : results'[k] = << >>
  <2> DEFINE R == SUBSET Rows
  <2>1. << >> \in Seq(R)
    OBVIOUS
  <2>2. results' \in [1..Len(tasks') -> Seq(R)]
    BY <1>2, <1>5, <2>1
  <2> QED BY <1>2, <1>5, <2>2, IsASequence
<1>7. TypeOK'
  <2>1. \A k \in DOMAIN tasks' : Len(results'[k]) <= Len(tasks'[k])
    BY <1>5, <1>6
  <2> QED BY <1>2, <1>3, <1>4, <1>6, <2>1 DEF IInv, TypeOK
<1>8. Foreseen'
  BY <1>2, <1>3 DEF IInv, Foreseen
<1>9. Apart' /\ Covering'
  BY <1>2, <1>3, <1>4 DEF Apart, Covering
<1>10. Answered'
  BY <1>5, <1>6 DEF Answered
<1>11. WithinTaskLimit'
  BY <1>1, <1>3, <1>4 DEF WithinTaskLimit
<1> QED BY <1>7, <1>8, <1>9, <1>10, <1>11 DEF IInv

LEMMA TaskFacts ==
    ASSUME TypeOK
    PROVE  /\ DOMAIN tasks = 1..Len(tasks) /\ DOMAIN results = DOMAIN tasks
           /\ \A k \in DOMAIN tasks :
                 /\ tasks[k] \in Seq(Scans) /\ DOMAIN tasks[k] = 1..Len(tasks[k])
                 /\ results[k] \in Seq(SUBSET Rows) /\ DOMAIN results[k] = 1..Len(results[k])
                 /\ Len(results[k]) \in Nat /\ Len(tasks[k]) \in Nat
                 /\ Len(results[k]) <= Len(tasks[k])
<1> DEFINE S == Scans
           R == SUBSET Rows
           T == Seq(S)
           U == Seq(R)
<1>1. tasks \in Seq(T) /\ results \in Seq(U) /\ Len(results) = Len(tasks)
  BY DEF TypeOK
<1> HIDE DEF S, R
<1>2. /\ \A s \in T : DOMAIN s = 1..Len(s) /\ Len(s) \in Nat
      /\ \A s \in U : DOMAIN s = 1..Len(s) /\ Len(s) \in Nat
  OBVIOUS
<1> HIDE DEF T, U
<1>3. /\ DOMAIN tasks = 1..Len(tasks) /\ DOMAIN results = 1..Len(results)
      /\ \A k \in DOMAIN tasks : tasks[k] \in T
      /\ \A k \in DOMAIN results : results[k] \in U
  BY <1>1
<1>4. \A k \in DOMAIN tasks : Len(results[k]) <= Len(tasks[k])
  BY DEF TypeOK
<1> QED BY <1>1, <1>2, <1>3, <1>4 DEF S, R, T, U

\* A step of one task, whose results become s.
LEMMA TaskStep ==
    ASSUME IInv, NEW k \in DOMAIN tasks, NEW s \in Seq(SUBSET Rows), Len(s) <= Len(tasks[k]),
           results' = [results EXCEPT ![k] = s],
           \A i \in DOMAIN s : /\ \A r \in s[i] : Matches(tasks[k][i], r)
                               /\ \A r \in stable : Matches(tasks[k][i], r) => r \in s[i],
           UNCHANGED <<layout, config, table, phase, snapshots, tasks, stable>>
    PROVE  IInv'
<1>1. TypeOK /\ DOMAIN results = DOMAIN tasks
  BY TaskFacts DEF IInv
<1>2. /\ DOMAIN results' = DOMAIN results /\ results'[k] = s
      /\ \A l \in DOMAIN results : l # k => results'[l] = results[l]
  BY <1>1
<1>3. results' \in Seq(Seq(SUBSET Rows)) /\ Len(results') = Len(results)
  <2> DEFINE T == Seq(SUBSET Rows)
  <2>1. results \in Seq(T) /\ s \in T /\ k \in DOMAIN results
    BY <1>1 DEF TypeOK
  <2> HIDE DEF T
  <2>2. results' \in Seq(T) /\ Len(results') = Len(results)
    BY <2>1
  <2> QED BY <2>2 DEF T
<1>4. Rows' = Rows /\ Shards' = Shards /\ Scans' = Scans /\ Parts' = Parts /\ Ends' = Ends
  BY DEF Rows, Shards, Scans, Parts, Ends
<1>5. TypeOK'
  <2>1. \A l \in DOMAIN tasks : Len(results'[l]) <= Len(tasks[l])
    BY <1>1, <1>2, TaskFacts
  <2> QED BY <1>1, <1>3, <1>4, <2>1 DEF TypeOK
<1>6. Answered'
  BY <1>1, <1>2 DEF IInv, Answered
<1>7. Foreseen' /\ Apart' /\ Covering'
  BY <1>4 DEF IInv, Foreseen, Apart, Covering
<1>8. WithinTaskLimit'
  BY <1>4 DEF IInv, WithinTaskLimit, TaskLimit
<1> QED BY <1>5, <1>6, <1>7, <1>8 DEF IInv

LEMMA RunScanIInv == ASSUME IInv, NEW k \in DOMAIN tasks, RunScan(k) PROVE IInv'
<1> DEFINE old == results[k]
           n == Len(old)
           new == {r \in table : Matches(tasks[k][n + 1], r)}
           s == Append(old, new)
<1>1. /\ TypeOK /\ table \subseteq Rows /\ stable \subseteq table
      /\ DOMAIN results = DOMAIN tasks
      /\ old \in Seq(SUBSET Rows) /\ n \in Nat /\ Len(tasks[k]) \in Nat
  BY SplitTypes, TaskFacts DEF IInv
<1>2. /\ n < Len(tasks[k]) /\ results' = [results EXCEPT ![k] = s]
      /\ UNCHANGED <<layout, config, table, phase, snapshots, tasks, stable>>
  BY DEF RunScan
<1>3. new \in SUBSET Rows
  BY <1>1
<1>4. /\ \A r \in new : Matches(tasks[k][n + 1], r)
      /\ \A r \in stable : Matches(tasks[k][n + 1], r) => r \in new
  BY <1>1
<1>5. \A i \in 1..n : /\ \A r \in old[i] : Matches(tasks[k][i], r)
                      /\ \A r \in stable : Matches(tasks[k][i], r) => r \in old[i]
  <2>1. DOMAIN old = 1..n
    BY <1>1
  <2> QED BY <1>1, <2>1 DEF IInv, Answered
<1> DEFINE R == SUBSET Rows
<1> HIDE DEF old, new, R
<1>6. /\ s \in Seq(R) /\ Len(s) = n + 1 /\ DOMAIN s = 1..(n + 1) /\ s[n + 1] = new
      /\ \A i \in 1..n : s[i] = old[i]
  <2>1. old \in Seq(R) /\ new \in R
    BY <1>1, <1>3 DEF R
  <2> QED BY <2>1
<1>7. Len(s) <= Len(tasks[k])
  <2> HIDE DEF s
  <2> QED BY <1>1, <1>2, <1>6 DEF n
<1> HIDE DEF s
<1>8. \A i \in DOMAIN s : /\ \A r \in s[i] : Matches(tasks[k][i], r)
                          /\ \A r \in stable : Matches(tasks[k][i], r) => r \in s[i]
  <2> TAKE i \in DOMAIN s
  <2>1. CASE i = n + 1
    BY <1>4, <1>6, <2>1
  <2>2. CASE i # n + 1
    <3>1. i \in 1..n
      BY <1>1, <1>6, <2>2
    <3> QED BY <1>5, <1>6, <3>1
  <2> QED BY <2>1, <2>2
<1> QED BY <1>2, <1>6, <1>7, <1>8, TaskStep DEF R

LEMMA RerunIInv == ASSUME IInv, NEW k \in DOMAIN tasks, Rerun(k) PROVE IInv'
<1> DEFINE s == << >>
<1>1. /\ results' = [results EXCEPT ![k] = s]
      /\ UNCHANGED <<layout, config, table, phase, snapshots, tasks, stable>>
  BY DEF Rerun
<1>2. Len(tasks[k]) \in Nat
  BY TaskFacts DEF IInv
<1>3. s \in Seq(SUBSET Rows) /\ Len(s) = 0 /\ DOMAIN s = {}
  OBVIOUS
<1> HIDE DEF s
<1>4. Len(s) <= Len(tasks[k])
  BY <1>2, <1>3
<1>5. \A i \in DOMAIN s : /\ \A r \in s[i] : Matches(tasks[k][i], r)
                          /\ \A r \in stable : Matches(tasks[k][i], r) => r \in s[i]
  BY <1>3
<1> QED BY <1>1, <1>3, <1>4, <1>5, TaskStep

\* Other clients: the rows that stay only become fewer.
LEMMA OthersIInv ==
    ASSUME IInv, table' \subseteq Rows, stable' \subseteq table', stable' \subseteq stable,
           UNCHANGED <<layout, config, phase, snapshots, tasks, results>>
    PROVE  IInv'
<1>1. Rows' = Rows /\ Shards' = Shards /\ Scans' = Scans /\ Parts' = Parts /\ Ends' = Ends
  BY DEF Rows, Shards, Scans, Parts, Ends
<1>2. TypeOK'
  BY <1>1 DEF IInv, TypeOK
<1>3. Foreseen'
  BY <1>1 DEF IInv, Foreseen
<1>4. Apart' /\ Covering' /\ Answered'
  BY <1>1 DEF IInv, Apart, Covering, Answered
<1>5. WithinTaskLimit'
  BY <1>1 DEF IInv, WithinTaskLimit, TaskLimit
<1> QED BY <1>2, <1>3, <1>4, <1>5 DEF IInv

\* Every reachable state satisfies the inductive invariant.
THEOREM SplitInvariance == Spec => []IInv
<1>1. Init => IInv
  BY InitIInv
<1>2. IInv /\ [Next]_vars => IInv'
  <2> SUFFICES ASSUME IInv, [Next]_vars PROVE IInv'
    OBVIOUS
  <2>0. table \subseteq Rows /\ stable \subseteq table
    BY SplitTypes DEF IInv
  <2>1. CASE Discover
    BY <2>1, DiscoverIInv
  <2>2. CASE DiscoveryFails
    BY <2>2, DiscoveryFailsIInv
  <2>3. CASE PlanningFails
    BY <2>3, FailIInv DEF PlanningFails
  <2>4. CASE Plan
    BY <2>4, PlanIInv
  <2>5. CASE \E k \in DOMAIN tasks : RunScan(k) \/ Rerun(k)
    BY <2>5, RunScanIInv, RerunIInv
  <2>6. CASE ReadFails
    BY <2>6, FailIInv DEF ReadFails
  <2>7. ASSUME NEW r \in Rows, Insert(r) PROVE IInv'
    BY <2>0, <2>7, OthersIInv DEF Insert
  <2>8. ASSUME NEW r \in Rows, Delete(r) PROVE IInv'
    <3>1. /\ table' \subseteq Rows /\ stable' \subseteq table' /\ stable' \subseteq stable
          /\ UNCHANGED <<layout, config, phase, snapshots, tasks, results>>
      BY <2>0, <2>8 DEF Delete
    <3> QED BY <3>1, OthersIInv
  <2>9. CASE UNCHANGED vars
    BY <2>0, <2>9, OthersIInv DEF vars
  <2> QED BY <2>1, <2>2, <2>3, <2>4, <2>5, <2>6, <2>7, <2>8, <2>9 DEF Next, Ended
<1> QED BY <1>1, <1>2, PTL DEF Spec

\* Planning and reading keep the state well-formed: in particular a task never has
\* more results than scans.
THEOREM SplitTypeCorrect == Spec => []TypeOK
<1>1. IInv => TypeOK
  BY DEF IInv
<1> QED BY <1>1, SplitInvariance, PTL

\* No row is returned by two scans, of one task or of two, whatever was inserted
\* or deleted since the tasks were planned and whichever task ran again: the
\* WHERE clauses that get_read_tasks gives to the scans (build_select) exclude
\* each other.
THEOREM No_row_twice == Spec => []NoRowTwice
<1>1. IInv => NoRowTwice
  <2> SUFFICES ASSUME IInv, NEW r \in Rows PROVE Cardinality(Readers(r)) <= 1
    BY DEF NoRowTwice
  <2> DEFINE X == Readers(r)
  <2>1. \A x \in X : \E k \in DOMAIN results : \E i \in DOMAIN results[k] :
           x = <<k, i>> /\ r \in results[k][i]
    BY DEF Readers
  <2>2. /\ DOMAIN results = DOMAIN tasks
        /\ \A k \in DOMAIN tasks : \A i \in DOMAIN results[k] : i \in DOMAIN tasks[k]
    BY TaskFacts DEF IInv
  <2>3. ASSUME NEW x \in X, NEW y \in X PROVE x = y
    <3>1. PICK k \in DOMAIN results : \E i \in DOMAIN results[k] :
             x = <<k, i>> /\ r \in results[k][i]
      BY <2>1
    <3>2. PICK i \in DOMAIN results[k] : x = <<k, i>> /\ r \in results[k][i]
      BY <3>1
    <3>3. PICK l \in DOMAIN results : \E j \in DOMAIN results[l] :
             y = <<l, j>> /\ r \in results[l][j]
      BY <2>1
    <3>4. PICK j \in DOMAIN results[l] : y = <<l, j>> /\ r \in results[l][j]
      BY <3>3
    <3>5. Matches(tasks[k][i], r) /\ Matches(tasks[l][j], r)
      BY <3>2, <3>4 DEF IInv, Answered
    <3>6. k = l /\ i = j
      BY <2>2, <3>5 DEF IInv, Apart
    <3> QED BY <3>2, <3>4, <3>6
  <2> HIDE DEF X
  <2>4. CASE X = {}
    <3>1. Cardinality(X) = 0
      BY <2>4, FS_EmptySet
    <3> QED BY <3>1 DEF X
  <2>5. CASE X # {}
    <3>1. PICK x \in X : TRUE
      BY <2>5
    <3>2. X = {x}
      BY <2>3
    <3>3. Cardinality(X) = 1
      BY <3>2, FS_Singleton
    <3> QED BY <3>3 DEF X
  <2> QED BY <2>4, <2>5
<1> QED BY <1>1, SplitInvariance, PTL

\* A row that is in the table from the first discovery query to the last read is
\* read by some task, for every split, whatever discovery had to give up on and
\* wherever get_read_tasks puts the scans of the shards.
THEOREM Stable_rows_read == Spec => []StableRowsRead
<1>1. IInv => StableRowsRead
  <2> SUFFICES ASSUME IInv, Done, NEW r \in stable PROVE Readers(r) # {}
    BY DEF StableRowsRead
  <2>1. PICK k \in DOMAIN tasks : \E i \in DOMAIN tasks[k] : Matches(tasks[k][i], r)
    BY DEF IInv, Covering, Done
  <2>2. PICK i \in DOMAIN tasks[k] : Matches(tasks[k][i], r)
    BY <2>1
  <2>3. k \in DOMAIN results /\ i \in DOMAIN results[k]
    BY TaskFacts DEF IInv, Done
  <2>4. r \in results[k][i]
    BY <2>2, <2>3 DEF IInv, Answered
  <2>5. <<k, i>> \in Readers(r)
    BY <2>3, <2>4 DEF Readers
  <2> QED BY <2>5
<1> QED BY <1>1, SplitInvariance, PTL

\* get_read_tasks returns at least one task, none without a scan and no more than
\* target_tasks, max_tasks and parallelism allow; and one scan for each task if
\* there are no more shards than tasks.
THEOREM Within_task_limit == Spec => []WithinTaskLimit
<1>1. IInv => WithinTaskLimit
  BY DEF IInv
<1> QED BY <1>1, SplitInvariance, PTL

\* What SplitRead takes for granted of group_partitions: its groups, in some
\* order, are one of the Groupings.
MakesGrouping ==
    groups # Unknown /\ DOMAIN partitions # {} =>
        \E order \in Bijection(1..Cardinality(DOMAIN groups), DOMAIN groups) :
            [k \in DOMAIN order |-> groups[order[k]]] \in Groupings(DOMAIN partitions, asked.target)

\* The loop of group_partitions returns what SplitRead plans with.
THEOREM Loop_makes_groupings == GroupSpec => []MakesGrouping
<1>1. GroupInv => MakesGrouping
  <2> SUFFICES ASSUME GroupInv, groups # Unknown, DOMAIN partitions # {}
               PROVE  \E order \in Bijection(1..Cardinality(DOMAIN groups), DOMAIN groups) :
                          [k \in DOMAIN order |-> groups[order[k]]]
                              \in Groupings(DOMAIN partitions, asked.target)
    BY DEF MakesGrouping
  <2> DEFINE n == GroupCount(partitions, asked)
             P == DOMAIN partitions
             D == DOMAIN groups
             m == Cardinality(D)
  <2>1. /\ n \in Nat /\ n <= asked.target /\ asked.target \in Nat
        /\ buckets \in [1..n -> SUBSET P]
    <3>1. partitions \in Listings /\ asked \in GroupRequests /\ buckets \in [1..n -> SUBSET P]
      BY DEF GroupInv, GroupTypeOK
    <3>2. asked.target \in Nat /\ asked.max \in Nat /\ Cardinality(P) \in Nat
      BY <3>1, GroupRequestsAssumption, ListingsAssumption, FS_CardinalityType
    <3> QED BY <3>1, <3>2 DEF GroupCount, Smaller
  <2> HIDE DEF n
  <2>2. /\ D \subseteq 1..n
        /\ \A i \in D : groups[i] \in SUBSET P /\ groups[i] # {}
        /\ \A i, j \in D : i # j => groups[i] \cap groups[j] = {}
        /\ \A p \in P : \E i \in D : p \in groups[i]
    BY <2>1, SMTT(20) DEF GroupInv, GroupsKept, Dealt, ExactGroups
  <2> HIDE DEF D, P
  <2>3. IsFiniteSet(D) /\ m \in Nat /\ m <= n /\ ExistsBijection(1..m, D)
    <3>1. IsFiniteSet(1..n) /\ Cardinality(1..n) = n
      BY <2>1, FS_Interval
    <3>2. IsFiniteSet(D) /\ m <= Cardinality(1..n)
      BY <2>2, <3>1, FS_Subset
    <3> QED BY <3>1, <3>2, FS_CardinalityType
  <2>4. PICK order \in Bijection(1..m, D) : TRUE
    BY <2>3 DEF ExistsBijection
  <2> DEFINE g == [k \in DOMAIN order |-> groups[order[k]]]
  <2>5. /\ order \in [1..m -> D]
        /\ \A a, b \in 1..m : order[a] = order[b] => a = b
        /\ \A i \in D : \E k \in 1..m : order[k] = i
    BY <2>4 DEF Bijection, Injection, Surjection, IsInjective
  <2>6. /\ DOMAIN g = 1..m /\ g \in [1..m -> (SUBSET P) \ {{}}]
        /\ \A k \in 1..m : g[k] = groups[order[k]]
    BY <2>2, <2>5
  <2> HIDE DEF g, m
  <2>7. m \in 1..asked.target
    <3>1. PICK p \in P : TRUE
      BY DEF P
    <3>2. PICK i \in D : p \in groups[i]
      BY <2>2
    <3>3. PICK k \in 1..m : order[k] = i
      BY <2>5
    <3> QED BY <2>1, <2>3, <3>3
  <2>8. UNION Range(g) = P
    <3>1. ASSUME NEW p \in P PROVE p \in UNION Range(g)
      <4>1. PICK i \in D : p \in groups[i]
        BY <2>2
      <4>2. PICK k \in 1..m : order[k] = i
        BY <2>5
      <4>3. p \in g[k] /\ k \in DOMAIN g
        BY <2>6, <4>1, <4>2
      <4> QED BY <4>3 DEF Range
    <3>2. ASSUME NEW p \in UNION Range(g) PROVE p \in P
      BY <2>6 DEF Range
    <3> QED BY <3>1, <3>2
  <2>9. \A a, b \in DOMAIN g : a # b => g[a] \cap g[b] = {}
    <3> SUFFICES ASSUME NEW a \in 1..m, NEW b \in 1..m, a # b
                 PROVE  g[a] \cap g[b] = {}
      BY <2>6, Zenon
    <3>1. order[a] \in D /\ order[b] \in D /\ order[a] # order[b]
      BY <2>5, Zenon
    <3>2. groups[order[a]] \cap groups[order[b]] = {}
      BY <2>2, <3>1, Zenon
    <3> QED BY <2>6, <3>2, Zenon
  <2>10. g \in Groupings(P, asked.target)
    BY <2>6, <2>7, <2>8, <2>9 DEF Groupings
  <2> QED BY <2>4, <2>10 DEF g, P, D, m
<1> QED BY <1>1, GroupInvariance, PTL
=============================================================================
