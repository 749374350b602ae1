--------------------------- MODULE TransportProofs ---------------------------
(***************************************************************************)
(* Theorems about what a connection manager drives, one invariant for each *)
(* strategy.  Rolling tunnels, for any durations that fit together: no     *)
(* connection is leaked, and deadlines stay apart, because the widest of   *)
(* few gaps in a long time is wide.  The mimicry pool, for any lives and   *)
(* roles: no connection is leaked, and the lists follow the pool.  One     *)
(* client: while it says it is started it has its reader and its sender.   *)
(* Then, with leads and lives that are long enough: no gap in the traffic, *)
(* because a connection that is due is replaced in time.                   *)
(***************************************************************************)
EXTENDS Transport, FiniteSetTheorems, WellFoundedInduction, TLAPS

-----------------------------------------------------------------------------
(* Numbers and finite sets *)

LEMMA LeastNumber ==
  ASSUME NEW T \in SUBSET Nat, T # {}
  PROVE  \E x \in T : \A y \in T : x <= y
<1>1. PICK m \in T : TRUE
  OBVIOUS
<1> DEFINE S == 0..m
           U == {z \in T : z <= m}
           V == {0..z : z \in U}
<1>2. IsWellFoundedOn(StrictSubsetOrdering(S), SUBSET S)
  <2>1. IsFiniteSet(S)
    BY FS_Interval
  <2> QED BY <2>1, FS_StrictSubsetOrderingWellFounded, FS_FiniteSubsetsOfFinite
<1>3. V \subseteq SUBSET S /\ V # {}
  OBVIOUS
<1>4. PICK I \in V : \A J \in V : ~(<<J, I>> \in StrictSubsetOrdering(S))
  <2> HIDE DEF V, S
  <2> QED BY <1>2, <1>3, WFMin
<1>5. PICK x \in U : I = 0..x
  OBVIOUS
<1>6. ASSUME NEW y \in T, y < x PROVE FALSE
  <2>1. y \in U /\ 0..y \in V
    BY <1>6
  <2>2. 0..y \subseteq I /\ 0..y # I
    BY <1>5, <1>6
  <2>3. <<0..y, I>> \in StrictSubsetOrdering(S)
    BY <1>3, <2>1, <2>2 DEF StrictSubsetOrdering
  <2> QED BY <1>4, <2>1, <2>3
<1> QED BY <1>6

\* A nonempty finite set of numbers has a greatest member: the one that the
\* fewest are greater than.
LEMMA GreatestNumber ==
  ASSUME NEW T \in SUBSET Nat, IsFiniteSet(T), T # {}
  PROVE  \E x \in T : \A y \in T : y <= x
<1> DEFINE Above(x) == {y \in T : y > x}
           V == {Above(x) : x \in T}
<1>1. IsWellFoundedOn(StrictSubsetOrdering(T), SUBSET T)
  BY FS_StrictSubsetOrderingWellFounded, FS_FiniteSubsetsOfFinite
<1>2. V \subseteq SUBSET T /\ V # {}
  OBVIOUS
<1>3. PICK A \in V : \A B \in V : ~(<<B, A>> \in StrictSubsetOrdering(T))
  <2> HIDE DEF V
  <2> QED BY <1>1, <1>2, WFMin
<1>4. PICK x \in T : A = Above(x)
  OBVIOUS
<1>5. ASSUME NEW y \in T, y > x PROVE FALSE
  <2>1. Above(y) \in V /\ Above(y) \in SUBSET T /\ A \in SUBSET T
    BY <1>4
  <2>2. y \in A /\ y \notin Above(y)
    BY <1>4, <1>5
  <2>3. Above(y) \subseteq A
    <3>1. \A z \in T : z > y => z > x
      BY <1>5
    <3> QED BY <1>4, <3>1
  <2> HIDE DEF Above, V
  <2>4. <<Above(y), A>> \in StrictSubsetOrdering(T)
    BY <2>1, <2>2, <2>3 DEF StrictSubsetOrdering
  <2> QED BY <1>3, <2>1, <2>4
<1> QED BY <1>5

LEMMA FiniteUpTo ==
  ASSUME NEW n \in Nat, NEW T \in SUBSET (0..n)
  PROVE  T \in SUBSET Nat /\ IsFiniteSet(T)
<1>1. T \in SUBSET Nat
  OBVIOUS
<1>2. \A x \in T : x <= n
  OBVIOUS
<1> QED BY <1>1, <1>2, FS_BoundedSetOfNaturals

\* The members of a set that something is read from.
LEMMA ImageBound ==
  ASSUME NEW S, IsFiniteSet(S), NEW f
  PROVE  /\ IsFiniteSet({f[x] : x \in S})
         /\ Cardinality({f[x] : x \in S}) <= Cardinality(S)
<1> DEFINE T == {f[x] : x \in S}
           g == [x \in S |-> f[x]]
<1>1. g \in Surjection(S, T)
  BY DEF Surjection
<1> QED BY <1>1, FS_Surjection
-----------------------------------------------------------------------------
(* The instances *)

\* What a component takes from FiniteSets is what this module takes from it.
LEMMA TunnelSets ==
  ASSUME NEW t \in Tunnels, NEW S
  PROVE  /\ Tunnel(t)!IsFiniteSet(S) <=> IsFiniteSet(S)
         /\ Tunnel(t)!Cardinality(S) = Cardinality(S)
         /\ Tunnel(t)!Min(S) = CHOOSE x \in S : \A y \in S : x <= y
         /\ Tunnel(t)!Max(S) = CHOOSE x \in S : \A y \in S : x >= y
<1>1. Tunnel(t)!IsFiniteSet(S) <=> IsFiniteSet(S)
  BY DEF IsFiniteSet, Tunnel!IsFiniteSet
<1>2. Tunnel(t)!Cardinality(S) = Cardinality(S)
  BY DEF Cardinality, Tunnel!Cardinality
<1>3. Tunnel(t)!Min(S) = CHOOSE x \in S : \A y \in S : x <= y
  BY DEF Tunnel!Min
<1>4. Tunnel(t)!Max(S) = CHOOSE x \in S : \A y \in S : x >= y
  BY DEF Tunnel!Max
<1> QED BY <1>1, <1>2, <1>3, <1>4

LEMMA MimicrySets ==
  ASSUME NEW S
  PROVE  /\ Mimicry!IsFiniteSet(S) <=> IsFiniteSet(S)
         /\ Mimicry!Cardinality(S) = Cardinality(S)
         /\ Mimicry!Min(S) = CHOOSE x \in S : \A y \in S : x <= y
         /\ Mimicry!Max(S) = CHOOSE x \in S : \A y \in S : x >= y
<1>0. Mimicry!IsFiniteSet(S) <=> IsFiniteSet(S)
  BY DEF IsFiniteSet, Mimicry!IsFiniteSet
<1>1. Mimicry!Cardinality(S) = Cardinality(S)
  BY DEF Cardinality, Mimicry!Cardinality
<1>2. Mimicry!Min(S) = CHOOSE x \in S : \A y \in S : x <= y
  BY DEF Mimicry!Min
<1>3. Mimicry!Max(S) = CHOOSE x \in S : \A y \in S : x >= y
  BY DEF Mimicry!Max
<1> QED BY <1>0, <1>1, <1>2, <1>3
-----------------------------------------------------------------------------
(* Rolling tunnels: the deadline of a new connection *)

LEMMA TunnelFacts ==
  ASSUME NEW t \in Tunnels
  PROVE  /\ CountOf[t] \in Nat \ {0} /\ Lifetime \in Nat \ {0}
         /\ StaggerOf[t] \in Nat /\ Lead \in Nat /\ ConnectMax \in Nat
         /\ RollingIds \subseteq Nat \ {0} /\ IsFiniteSet(RollingIds)
         /\ Cardinality(RollingIds) > 2 * CountOf[t]
         /\ MaxFailed \in Nat /\ MaxLost \in Nat
         /\ Tunnel(t)!Slot = Lifetime \div CountOf[t]
         /\ Tunnel(t)!Slot \in Nat /\ Tunnel(t)!Slot <= Lifetime
         /\ Lead + ConnectMax < Tunnel(t)!Slot
         /\ CountOf[t] > 1 =>
              Lead + (CountOf[t] - 1) * (2 * (Lead + ConnectMax) + 1) <= Lifetime - Tunnel(t)!Slot
<1>1. Tunnel(t)!TunnelAssumption /\ Tunnel(t)!DurationsFit
  BY TunnelsAssumption
<1>2. /\ CountOf[t] \in Nat \ {0} /\ Lifetime \in Nat \ {0}
      /\ StaggerOf[t] \in Nat /\ Lead \in Nat /\ ConnectMax \in Nat
      /\ RollingIds \subseteq Nat \ {0} /\ IsFiniteSet(RollingIds)
      /\ Cardinality(RollingIds) > 2 * CountOf[t]
      /\ MaxFailed \in Nat /\ MaxLost \in Nat
  BY <1>1, TunnelSets DEF Tunnel!TunnelAssumption
<1>3. Tunnel(t)!Slot = Lifetime \div CountOf[t]
  BY DEF Tunnel!Slot
<1>4. \A n \in Nat, c \in Nat \ {0} : n \div c \in Nat /\ n \div c <= n
  BY SMT
<1> QED BY <1>1, <1>2, <1>3, <1>4 DEF Tunnel!DurationsFit

\* Multiples of a length that are at most n - 1 of it.
LEMMA Multiples ==
  ASSUME NEW n \in Nat \ {0}, NEW g \in Nat, NEW k \in Nat
  PROVE  /\ k * g \in Nat /\ (k + 1) * g = k * g + g
         /\ k < n => k * g <= (n - 1) * g
<1>1. k * g \in Nat /\ (k + 1) * g = k * g + g
  OBVIOUS
<1>2. ASSUME k < n PROVE k * g <= (n - 1) * g
  <2>1. PICK d \in Nat : n - 1 = k + d
    <3>1. (n - 1) - k \in Nat /\ n - 1 = k + ((n - 1) - k)
      BY <1>2
    <3> QED BY <3>1
  <2>2. (k + d) * g = k * g + d * g /\ d * g \in Nat
    OBVIOUS
  <2> QED BY <1>1, <2>1, <2>2
<1> QED BY <1>1, <1>2

\* A set of deadlines: the greatest one, and the first one after a time.
LEMMA LastDeadline ==
  ASSUME NEW t \in Tunnels, NEW S \in SUBSET (1..Lifetime), S # {}
  PROVE  /\ Tunnel(t)!Max(S) \in S /\ \A x \in S : x <= Tunnel(t)!Max(S)
         /\ Tunnel(t)!Max(S) \in Nat /\ 0 < Tunnel(t)!Max(S) /\ Tunnel(t)!Max(S) <= Lifetime
         /\ \A x \in S : x \in Nat /\ 0 < x /\ x <= Lifetime
<1>1. Lifetime \in Nat /\ S \in SUBSET (0..Lifetime)
  BY TunnelFacts
<1>2. \E x \in S : \A y \in S : y <= x
  BY <1>1, FiniteUpTo, GreatestNumber
<1>3. \E x \in S : \A y \in S : x >= y
  BY <1>1, <1>2
<1>4. Tunnel(t)!Max(S) \in S /\ \A x \in S : x <= Tunnel(t)!Max(S)
  BY <1>1, <1>3, TunnelSets
<1>5. ASSUME NEW x \in S PROVE x \in Nat /\ 0 < x /\ x <= Lifetime
  <2>1. x \in 1..Lifetime
    OBVIOUS
  <2> QED BY <1>1, <2>1
<1>6. /\ Tunnel(t)!Max(S) \in Nat /\ 0 < Tunnel(t)!Max(S)
      /\ Tunnel(t)!Max(S) <= Lifetime
  BY <1>4, <1>5
<1> QED BY <1>4, <1>5, <1>6

LEMMA NextDeadline ==
  ASSUME NEW t \in Tunnels, NEW S \in SUBSET (1..Lifetime), S # {},
         NEW u \in Tunnel(t)!Gaps(S)
  PROVE  /\ u \in 0..Lifetime /\ Tunnel(t)!Gap(S, u) \in 1..Lifetime
         /\ u + Tunnel(t)!Gap(S, u) \in S
         /\ \A x \in S : x > u => u + Tunnel(t)!Gap(S, u) <= x
<1> DEFINE After == {x \in S : x > u}
<1>1. Lifetime \in Nat
  BY TunnelFacts
<1>2. u \in S \cup {0} /\ u < Tunnel(t)!Max(S)
  BY DEF Tunnel!Gaps
<1>3. u \in 0..Lifetime /\ Tunnel(t)!Max(S) \in After
  BY <1>1, <1>2, LastDeadline
<1>4. \E x \in After : \A y \in After : x <= y
  <2>1. After \in SUBSET Nat /\ After # {}
    BY <1>3, LastDeadline
  <2> HIDE DEF After
  <2> QED BY <2>1, LeastNumber
<1>5. Tunnel(t)!Min(After) \in After /\ \A y \in After : Tunnel(t)!Min(After) <= y
  BY <1>4, TunnelSets
<1>6. Tunnel(t)!Gap(S, u) = Tunnel(t)!Min(After) - u
  BY DEF Tunnel!Gap
<1>7. /\ Tunnel(t)!Min(After) \in S /\ Tunnel(t)!Min(After) > u
      /\ Tunnel(t)!Min(After) \in Nat /\ Tunnel(t)!Min(After) <= Lifetime
  BY <1>5, LastDeadline
<1>8. u + Tunnel(t)!Gap(S, u) = Tunnel(t)!Min(After)
  BY <1>1, <1>3, <1>6, <1>7
<1>9. Tunnel(t)!Gap(S, u) \in 1..Lifetime
  BY <1>1, <1>3, <1>6, <1>7
<1>10. \A x \in S : x > u => u + Tunnel(t)!Gap(S, u) <= x
  BY <1>5, <1>8
<1> HIDE DEF After
<1> QED BY <1>3, <1>7, <1>8, <1>9, <1>10

\* The widest gap is one of the gaps, and begins where WidestStart says.
LEMMA WidestGap ==
  ASSUME NEW t \in Tunnels, NEW S \in SUBSET (1..Lifetime), S # {}
  PROVE  /\ \A u \in Tunnel(t)!Gaps(S) : Tunnel(t)!Gap(S, u) <= Tunnel(t)!Widest(S)
         /\ Tunnel(t)!WidestStart(S) \in Tunnel(t)!Gaps(S)
         /\ Tunnel(t)!Gap(S, Tunnel(t)!WidestStart(S)) = Tunnel(t)!Widest(S)
<1> DEFINE Widths == {Tunnel(t)!Gap(S, u) : u \in Tunnel(t)!Gaps(S)}
           Starts == {u \in Tunnel(t)!Gaps(S) : Tunnel(t)!Gap(S, u) = Tunnel(t)!Widest(S)}
<1>1. Lifetime \in Nat
  BY TunnelFacts
<1>2. Widths \in SUBSET (0..Lifetime)
  <2>1. \A u \in Tunnel(t)!Gaps(S) : Tunnel(t)!Gap(S, u) \in 1..Lifetime
    BY NextDeadline
  <2> QED BY <1>1, <2>1
<1>3. 0 \in Tunnel(t)!Gaps(S)
  <2>1. 0 < Tunnel(t)!Max(S)
    BY LastDeadline
  <2> QED BY <2>1 DEF Tunnel!Gaps
<1>4. \E x \in Widths : \A y \in Widths : y <= x
  <2>1. Widths # {}
    BY <1>3
  <2> HIDE DEF Widths
  <2> QED BY <1>1, <1>2, <2>1, FiniteUpTo, GreatestNumber
<1>5. \E x \in Widths : \A y \in Widths : x >= y
  <2> HIDE DEF Widths
  <2> QED BY <1>2, <1>4
<1>6. Tunnel(t)!Widest(S) = Tunnel(t)!Max(Widths)
  BY DEF Tunnel!Widest
<1>7. Tunnel(t)!Widest(S) \in Widths /\ \A y \in Widths : Tunnel(t)!Widest(S) >= y
  <2> HIDE DEF Widths
  <2> QED BY <1>5, <1>6, TunnelSets
<1>8. Starts \in SUBSET Nat /\ Starts # {}
  <2>1. PICK u \in Tunnel(t)!Gaps(S) : Tunnel(t)!Gap(S, u) = Tunnel(t)!Widest(S)
    BY <1>7
  <2>2. \A v \in Tunnel(t)!Gaps(S) : v \in Nat
    BY <1>1, NextDeadline
  <2> QED BY <2>1, <2>2
<1>9. Tunnel(t)!WidestStart(S) \in Starts
  <2>1. Tunnel(t)!WidestStart(S) = Tunnel(t)!Min(Starts)
    BY DEF Tunnel!WidestStart
  <2> HIDE DEF Starts
  <2> QED BY <1>8, <2>1, LeastNumber, TunnelSets
<1>10. \A u \in Tunnel(t)!Gaps(S) : Tunnel(t)!Gap(S, u) <= Tunnel(t)!Widest(S)
  BY <1>2, <1>7
<1> QED BY <1>9, <1>10

\* Where no gap is longer than g, the next deadline is at most g away.
LEMMA NextWithin ==
  ASSUME NEW t \in Tunnels, NEW S \in SUBSET (1..Lifetime), S # {}, NEW g \in Nat,
         \A u \in Tunnel(t)!Gaps(S) : Tunnel(t)!Gap(S, u) <= g,
         NEW b \in Nat, b < Tunnel(t)!Max(S)
  PROVE  \E x \in S : b < x /\ x <= b + g
<1> DEFINE Before == {u \in S \cup {0} : u <= b}
<1>1. Lifetime \in Nat
  BY TunnelFacts
<1>2. PICK u \in Before : \A v \in Before : v <= u
  <2>1. \A v \in S : v \in 0..Lifetime
    BY <1>1, LastDeadline
  <2>2. 0 \in 0..Lifetime /\ 0 \in Before
    BY <1>1
  <2>3. Before \in SUBSET (0..Lifetime)
    BY <2>1, <2>2
  <2> HIDE DEF Before
  <2> QED BY <1>1, <2>2, <2>3, FiniteUpTo, GreatestNumber
<1>3. u \in Tunnel(t)!Gaps(S) /\ u \in Nat /\ u <= b
  <2>1. u \in S \cup {0} /\ u <= b
    BY <1>2
  <2>2. u \in Nat /\ Tunnel(t)!Max(S) \in Nat
    BY <2>1, LastDeadline
  <2>3. u < Tunnel(t)!Max(S)
    BY <2>1, <2>2
  <2> QED BY <2>1, <2>2, <2>3 DEF Tunnel!Gaps
<1> DEFINE x == u + Tunnel(t)!Gap(S, u)
<1>4. x \in S /\ x \in Nat /\ x > u /\ x <= u + g
  BY <1>1, <1>3, NextDeadline
<1>5. x > b
  BY <1>2, <1>3, <1>4
<1> QED BY <1>3, <1>4, <1>5

\* Fewer than n deadlines after the lead cannot cover n - 1 gaps of g: when
\* the last one is beyond those, some gap is longer than g.
LEMMA SomeGapIsWide ==
  ASSUME NEW t \in Tunnels, NEW S \in SUBSET (1..Lifetime), S # {},
         NEW n \in Nat \ {0}, Cardinality({x \in S : x > Lead}) < n,
         NEW g \in Nat, Lead + (n - 1) * g < Tunnel(t)!Max(S)
  PROVE  Tunnel(t)!Widest(S) > g
<1> DEFINE Within(k) == {x \in S : Lead < x /\ x <= Lead + k * g}
           Bad == {k \in 0..n : Cardinality(Within(k)) < k}
<1>1. Lifetime \in Nat /\ Lead \in Nat
  BY TunnelFacts
<1>0. IsFiniteSet(S)
  <2>1. S \in SUBSET Nat /\ \A x \in S : x <= Lifetime
    BY LastDeadline
  <2> QED BY <1>1, <2>1, FS_BoundedSetOfNaturals
<1>2. \A k \in Nat : IsFiniteSet(Within(k)) /\ Cardinality(Within(k)) \in Nat
  BY <1>0, FS_Subset, FS_CardinalityType
<1>3. Tunnel(t)!Widest(S) \in Int
  BY <1>1, WidestGap, NextDeadline
<1> SUFFICES ASSUME ~(Tunnel(t)!Widest(S) > g) PROVE FALSE
  OBVIOUS
<1>4. \A u \in Tunnel(t)!Gaps(S) : Tunnel(t)!Gap(S, u) <= g
  <2>1. \A u \in Tunnel(t)!Gaps(S) : Tunnel(t)!Gap(S, u) \in Int
    BY <1>1, NextDeadline
  <2> QED BY <1>3, <2>1, WidestGap
<1>5. n \in Bad
  <2>1. Within(n) \subseteq {x \in S : x > Lead}
    BY <1>1
  <2>2. IsFiniteSet({x \in S : x > Lead})
    BY <1>0, FS_Subset
  <2>3. Cardinality(Within(n)) <= Cardinality({x \in S : x > Lead})
    BY <2>1, <2>2, FS_Subset
  <2>4. Cardinality({x \in S : x > Lead}) \in Nat
    BY <2>2, FS_CardinalityType
  <2> HIDE DEF Within
  <2>5. Cardinality(Within(n)) \in Nat /\ n \in 0..n
    BY <1>2
  <2> QED BY <2>3, <2>4, <2>5
<1>6. PICK m \in Bad : \A k \in Bad : m <= k
  <2>1. Bad \in SUBSET Nat /\ Bad # {}
    <3> HIDE DEF Within
    <3> QED BY <1>5
  <2> HIDE DEF Bad
  <2> QED BY <2>1, LeastNumber
<1>7. m \in Nat /\ m # 0 /\ m - 1 \in Nat /\ m - 1 < n /\ ~(Cardinality(Within(m - 1)) < m - 1)
  <2> HIDE DEF Within
  <2>1. m \in 0..n /\ m \in Nat /\ Cardinality(Within(m)) < m
    BY <1>6
  <2>2. Cardinality(Within(m)) \in Nat
    BY <1>2, <2>1
  <2>3. m # 0 /\ m - 1 \in 0..n /\ m - 1 \in Nat /\ m - 1 < n /\ ~(m <= m - 1)
    BY <2>1, <2>2
  <2>4. m - 1 \notin Bad
    <3> HIDE DEF Bad
    <3> QED BY <1>6, <2>3
  <2> QED BY <2>1, <2>3, <2>4
<1> DEFINE k == m - 1
           b == Lead + k * g
<1>8. k \in Nat /\ k + 1 = m /\ b \in Nat /\ b < Tunnel(t)!Max(S) /\ Lead + m * g = b + g
  <2>1. k * g \in Nat /\ (k + 1) * g = k * g + g /\ k * g <= (n - 1) * g
    BY <1>7, Multiples
  <2>2. k \in Nat /\ k + 1 = m
    BY <1>7
  <2>3. Tunnel(t)!Max(S) \in Nat /\ (n - 1) * g \in Int
    BY <1>1, LastDeadline
  <2>4. m * g = k * g + g
    BY <2>1, <2>2
  <2> HIDE DEF k
  <2> QED BY <1>1, <2>1, <2>2, <2>3, <2>4
<1>9. PICK x \in S : b < x /\ x <= b + g
  <2> HIDE DEF b
  <2> QED BY <1>4, <1>8, NextWithin
<1>10. Cardinality(Within(k)) + 1 <= Cardinality(Within(m))
  <2>1. x \in Within(m) /\ x \notin Within(k)
    <3> HIDE DEF k
    <3> QED BY <1>1, <1>8, <1>9
  <2>2. Within(k) \subseteq Within(m)
    <3> HIDE DEF k
    <3>1. \A y \in S : y <= b => y <= b + g
      BY <1>8, LastDeadline
    <3> QED BY <1>8, <3>1
  <2>3. IsFiniteSet(Within(k)) /\ IsFiniteSet(Within(m))
    BY <1>2, <1>7
  <2> HIDE DEF Within, k
  <2>4. Within(k) \cup {x} \in SUBSET Within(m) /\ Cardinality(Within(k) \cup {x}) = Cardinality(Within(k)) + 1
    BY <2>1, <2>2, <2>3, FS_AddElement
  <2> QED BY <2>3, <2>4, FS_Subset
<1>11. Cardinality(Within(m)) < m /\ Cardinality(Within(k)) \in Nat /\ Cardinality(Within(m)) \in Nat
  BY <1>2, <1>6, <1>7
<1>12. ~(Cardinality(Within(k)) < k)
  BY <1>7
<1> HIDE DEF Within, k
<1> QED BY <1>8, <1>10, <1>11, <1>12

\* More than the lead lies between the two.
Apart(x, y) == x + Lead < y \/ y + Lead < x

\* The deadline that NextLifetimeSeconds gives is one that nothing of the pool
\* has, and leaves more than the lead however long the connection takes to
\* start.
LEMMA NewDeadline ==
  ASSUME NEW t \in Tunnels, NEW S \in SUBSET (1..Lifetime),
         Cardinality({x \in S : x > Lead}) < CountOf[t]
  PROVE  /\ Tunnel(t)!NextLifetime(S) \in Nat /\ Tunnel(t)!NextLifetime(S) <= Lifetime
         /\ Lead + ConnectMax < Tunnel(t)!NextLifetime(S)
         /\ Tunnel(t)!NextLifetime(S) \notin S
         /\ CountOf[t] > 1 => \A x \in S : Apart(x, Tunnel(t)!NextLifetime(S))
         /\ CountOf[t] = 1 => Tunnel(t)!NextLifetime(S) = Tunnel(t)!Slot
<1> DEFINE slot == Tunnel(t)!Slot
           last == Tunnel(t)!Max(S)
           wide == Tunnel(t)!Widest(S)
           begin == Tunnel(t)!WidestStart(S)
           g == 2 * (Lead + ConnectMax) + 1
<1>1. /\ Lifetime \in Nat /\ Lead \in Nat /\ ConnectMax \in Nat /\ CountOf[t] \in Nat \ {0}
      /\ slot \in Nat /\ slot <= Lifetime /\ Lead + ConnectMax < slot
      /\ CountOf[t] > 1 => Lead + (CountOf[t] - 1) * g <= Lifetime - slot
  BY TunnelFacts
<1>2. CASE S = {}
  BY <1>1, <1>2 DEF Tunnel!NextLifetime
<1>3. CASE CountOf[t] = 1
  <2>1. Tunnel(t)!NextLifetime(S) = slot
    BY <1>3 DEF Tunnel!NextLifetime
  <2>2. IsFiniteSet({x \in S : x > Lead})
    <3>1. S \in SUBSET Nat /\ \A x \in S : x <= Lifetime
      BY <1>1
    <3>2. IsFiniteSet(S)
      BY <1>1, <3>1, FS_BoundedSetOfNaturals
    <3> QED BY <3>2, FS_Subset
  <2>3. Cardinality({x \in S : x > Lead}) = 0
    BY <1>3, <2>2, FS_CardinalityType
  <2>4. {x \in S : x > Lead} = {}
    BY <2>2, <2>3, FS_EmptySet
  <2>5. slot > Lead
    BY <1>1
  <2>6. ~(CountOf[t] > 1)
    BY <1>3
  <2> QED BY <1>1, <2>1, <2>4, <2>5, <2>6
<1>4. CASE S # {} /\ CountOf[t] > 1 /\ last + slot <= Lifetime
  <2>0. S # {} /\ CountOf[t] # 1
    BY <1>1, <1>4
  <2>1. Tunnel(t)!NextLifetime(S) = last + slot
    BY <1>4, <2>0, Zenon DEF Tunnel!NextLifetime, Tunnel!Fitted
  <2>2. last \in Nat /\ \A x \in S : x \in Nat /\ x <= last
    BY <1>4, LastDeadline
  <2>3. \A x \in S : x + Lead < last + slot
    BY <1>1, <2>2
  <2> HIDE DEF last, slot
  <2> QED BY <1>1, <1>4, <2>1, <2>2, <2>3 DEF Apart
<1>5. CASE S # {} /\ CountOf[t] > 1 /\ ~(last + slot <= Lifetime)
  <2>0. S # {} /\ CountOf[t] # 1
    BY <1>1, <1>5
  <2>1. Tunnel(t)!NextLifetime(S) = begin + wide \div 2
    BY <1>5, <2>0, Zenon DEF Tunnel!NextLifetime, Tunnel!Fitted, Tunnel!MiddleOfWidest
  <2>2. last \in Nat /\ last <= Lifetime
    BY <1>5, LastDeadline
  <2>3. wide > g
    <3>1. g \in Nat /\ (CountOf[t] - 1) * g \in Nat
      BY <1>1
    <3>2. Lead + (CountOf[t] - 1) * g < last
      <4> HIDE DEF g, last, slot
      <4> QED BY <1>1, <1>5, <2>2, <3>1
    <3> HIDE DEF g
    <3> QED BY <1>1, <1>5, <3>1, <3>2, SomeGapIsWide
  <2>4. /\ begin \in Nat /\ wide \in Nat /\ begin + wide \in S /\ begin + wide <= last
        /\ \A x \in S : x > begin => begin + wide <= x
    <3>1. begin \in Tunnel(t)!Gaps(S) /\ Tunnel(t)!Gap(S, begin) = wide
      BY <1>5, WidestGap
    <3>2. /\ begin \in 0..Lifetime /\ wide \in 1..Lifetime /\ begin + wide \in S
          /\ \A x \in S : x > begin => begin + wide <= x
      <4> HIDE DEF begin, wide
      <4> QED BY <1>5, <3>1, NextDeadline
    <3> HIDE DEF begin, wide
    <3> QED BY <1>1, <1>5, <3>2, LastDeadline
  <2>5. wide \div 2 \in Nat /\ wide \div 2 < wide /\ Lead + ConnectMax < wide \div 2
    <3> HIDE DEF wide
    <3> QED BY <1>1, <2>3, <2>4
  <2>6. \A x \in S : x \in Nat
    BY <1>5, LastDeadline
  <2> HIDE DEF begin, wide, last
  <2>7. \A x \in S : x + Lead < begin + wide \div 2 \/ begin + wide \div 2 + Lead < x
    <3>1. 2 * (wide \div 2) <= wide
      BY <2>4
    <3> QED BY <1>1, <2>4, <2>5, <2>6, <3>1
  <2> QED BY <1>1, <1>5, <2>1, <2>2, <2>4, <2>5, <2>6, <2>7 DEF Apart
<1> QED BY <1>1, <1>2, <1>3, <1>4, <1>5
-----------------------------------------------------------------------------
(* Rolling tunnels: the invariant *)

\* While no connection is made there is nothing to know of it.  One that is
\* made has an id of its own, a place to go to, a deadline no other connection
\* of the pool has, and enough time left for what the start may take.
RepairFits(t) ==
  IF repair.stage = "none"
    THEN repair = Tunnel(t)!NoRepair
    ELSE /\ repair.id \in RollingIds \ Tunnel(t)!IdsOf(pool)
         /\ repair.replaced \in Tunnel(t)!IdsOf(pool) \/ Cardinality(pool) < CountOf[t]
         /\ repair.left + repair.age > Lead + ConnectMax
         /\ \A ch \in pool : ch.left # repair.left

\* Once the manager has run, no connection of the pool is past its deadline.
NoneOverdue == managed => \A ch \in pool : ch.left > 0

\* Until it runs, at most the connection that was replaced last is closing.
FewClosing ==
  ~managed => IF repair.stage = "none" THEN \E id \in Nat : closing \subseteq {id} ELSE closing = {}

TunnelInv(t) ==
  /\ Tunnel(t)!TypeOK /\ IsFiniteSet(pool)
  /\ Tunnel(t)!OpenAreOwned
  /\ Tunnel(t)!ClosesOneAtATime
  /\ RepairFits(t)
  /\ NoneOverdue
  /\ FewClosing

LEMMA ChannelFields ==
  ASSUME NEW t \in Tunnels, Tunnel(t)!TypeOK, NEW ch \in pool
  PROVE  /\ ch.id \in RollingIds /\ ch.left \in Nat /\ ch.left <= Lifetime /\ ch.up \in BOOLEAN
         /\ ch.id \in Tunnel(t)!IdsOf(pool)
         /\ ch = [id |-> ch.id, left |-> ch.left, up |-> ch.up]
<1>1. ch \in Tunnel(t)!Channel
  BY DEF Tunnel!TypeOK
<1>2. Lifetime \in Nat
  BY TunnelFacts
<1>3. ch.left \in 0..Lifetime
  BY <1>1 DEF Tunnel!Channel
<1> QED BY <1>1, <1>2, <1>3 DEF Tunnel!Channel, Tunnel!IdsOf

LEMMA RepairFields ==
  ASSUME NEW t \in Tunnels, Tunnel(t)!TypeOK
  PROVE  /\ repair.stage \in {"none", "connecting", "ready"}
         /\ repair.id \in RollingIds \cup {0} /\ repair.replaced \in RollingIds \cup {0}
         /\ repair.left \in Nat /\ repair.left <= Lifetime
         /\ repair.age \in Nat /\ repair.age <= ConnectMax
         /\ repair = [stage |-> repair.stage, id |-> repair.id, left |-> repair.left,
                      age |-> repair.age, replaced |-> repair.replaced]
<1>1. repair \in Tunnel(t)!Repair
  BY DEF Tunnel!TypeOK
<1>2. Lifetime \in Nat /\ ConnectMax \in Nat
  BY TunnelFacts
<1>3. repair.left \in 0..Lifetime /\ repair.age \in 0..ConnectMax
  BY <1>1 DEF Tunnel!Repair
<1> QED BY <1>1, <1>2, <1>3 DEF Tunnel!Repair

LEMMA TunnelInit == ASSUME NEW t \in Tunnels, Tunnel(t)!Init PROVE TunnelInv(t)
<1>1. pool = {} /\ closing = {} /\ open = {} /\ repair = Tunnel(t)!NoRepair
  BY DEF Tunnel!Init
<1>2. IsFiniteSet(pool) /\ Cardinality(pool) = 0 /\ Tunnel(t)!Cardinality(pool) = 0
  BY <1>1, FS_EmptySet, TunnelSets
<1>3. Tunnel(t)!NoRepair \in Tunnel(t)!Repair
  <2>1. 0 \in 0..Lifetime /\ 0 \in 0..ConnectMax
    BY TunnelFacts
  <2> QED BY <2>1 DEF Tunnel!NoRepair, Tunnel!Repair
<1>4. StaggerOf[t] \in 0..StaggerOf[t] /\ 0 \in 0..MaxFailed /\ 0 \in 0..MaxLost /\ 0 <= CountOf[t]
  BY TunnelFacts
<1>5. Tunnel(t)!TypeOK
  BY <1>1, <1>2, <1>3, <1>4 DEF Tunnel!Init, Tunnel!TypeOK
<1>6. repair.stage = "none"
  BY <1>1 DEF Tunnel!NoRepair
<1>7. Tunnel(t)!OpenAreOwned /\ Tunnel(t)!ClosesOneAtATime /\ RepairFits(t) /\ NoneOverdue /\ FewClosing
  BY <1>1, <1>6 DEF Tunnel!OpenAreOwned, Tunnel!ClosesOneAtATime, RepairFits, NoneOverdue, FewClosing
<1> QED BY <1>2, <1>5, <1>7 DEF TunnelInv

\* The connections are told apart by their ids.
LEMMA SmallerPool ==
  ASSUME NEW t \in Tunnels, TunnelInv(t), NEW P, P \subseteq pool
  PROVE  /\ IsFiniteSet(P) /\ Cardinality(P) \in Nat
         /\ Cardinality(P) <= Cardinality(pool) /\ Cardinality(pool) <= CountOf[t]
         /\ P # pool => Cardinality(P) < Cardinality(pool)
         /\ Tunnel(t)!Cardinality(P) = Cardinality(P)
<1>1. IsFiniteSet(pool) /\ Tunnel(t)!Cardinality(pool) <= CountOf[t]
  BY DEF TunnelInv, Tunnel!TypeOK
<1>2. IsFiniteSet(P) /\ Cardinality(P) <= Cardinality(pool) /\ (Cardinality(pool) = Cardinality(P) => pool = P)
  BY <1>1, FS_Subset
<1>3. Cardinality(P) \in Nat /\ Cardinality(pool) \in Nat
  BY <1>1, <1>2, FS_CardinalityType
<1>4. Tunnel(t)!Cardinality(P) = Cardinality(P) /\ Tunnel(t)!Cardinality(pool) = Cardinality(pool)
  BY TunnelSets
<1> QED BY <1>1, <1>2, <1>3, <1>4

\* The ids of a set of channels are not more than the channels.
LEMMA IdsCount ==
  ASSUME NEW t \in Tunnels, NEW P, IsFiniteSet(P)
  PROVE  IsFiniteSet(Tunnel(t)!IdsOf(P)) /\ Cardinality(Tunnel(t)!IdsOf(P)) <= Cardinality(P)
<1> DEFINE f == [ch \in P |-> ch.id]
<1>1. Tunnel(t)!IdsOf(P) = {f[ch] : ch \in P}
  BY DEF Tunnel!IdsOf
<1> HIDE DEF f
<1> QED BY <1>1, ImageBound

LEMMA LeftsCount ==
  ASSUME NEW P, IsFiniteSet(P)
  PROVE  IsFiniteSet({ch.left : ch \in P}) /\ Cardinality({ch.left : ch \in P}) <= Cardinality(P)
<1> DEFINE f == [ch \in P |-> ch.left]
<1>1. {ch.left : ch \in P} = {f[ch] : ch \in P}
  OBVIOUS
<1> HIDE DEF f
<1> QED BY <1>1, ImageBound

\* An id that nothing refers to is at hand when the manager needs one.
LEMMA FreshId ==
  ASSUME NEW t \in Tunnels, TunnelInv(t), ~managed, ~Tunnel(t)!InFlight
  PROVE  Tunnel(t)!Min(RollingIds \ Tunnel(t)!Used) \in RollingIds \ Tunnel(t)!Used
<1> DEFINE ids == Tunnel(t)!IdsOf(pool)
           free == RollingIds \ Tunnel(t)!Used
<1>1. repair.stage = "none" /\ repair = Tunnel(t)!NoRepair
  BY DEF Tunnel!InFlight, TunnelInv, RepairFits
<1>2. repair.id = 0 /\ repair.replaced = 0 /\ 0 \notin RollingIds
  BY <1>1, TunnelFacts DEF Tunnel!NoRepair
<1>3. PICK id \in Nat : closing \subseteq {id}
  BY <1>1 DEF TunnelInv, FewClosing
<1>4. Tunnel(t)!Used \cap RollingIds \subseteq ids \cup {id}
  <2>1. open \subseteq ids \cup closing \cup {0}
    BY <1>2 DEF TunnelInv, Tunnel!OpenAreOwned
  <2> QED BY <1>2, <1>3, <2>1 DEF Tunnel!Used
<1>5. /\ IsFiniteSet(ids \cup {id}) /\ Cardinality(ids \cup {id}) \in Nat
      /\ Cardinality(ids \cup {id}) <= CountOf[t] + 1
  <2>1. /\ IsFiniteSet(pool) /\ Cardinality(pool) \in Nat
        /\ Cardinality(pool) <= CountOf[t] /\ CountOf[t] \in Nat
    BY SmallerPool, TunnelFacts
  <2>2. IsFiniteSet(ids) /\ Cardinality(ids) <= Cardinality(pool) /\ Cardinality(ids) \in Nat
    BY <2>1, IdsCount, FS_CardinalityType
  <2> HIDE DEF ids
  <2>3. /\ IsFiniteSet(ids \cup {id})
        /\ Cardinality(ids \cup {id}) = IF id \in ids THEN Cardinality(ids) ELSE Cardinality(ids) + 1
    BY <2>2, FS_AddElement
  <2> QED BY <2>1, <2>2, <2>3
<1>6. free # {}
  <2> SUFFICES ASSUME free = {} PROVE FALSE
    OBVIOUS
  <2>1. RollingIds \in SUBSET (ids \cup {id})
    BY <1>4
  <2> HIDE DEF ids
  <2>2. Cardinality(RollingIds) <= Cardinality(ids \cup {id}) /\ Cardinality(RollingIds) \in Nat
    BY <1>5, <2>1, FS_Subset, FS_CardinalityType
  <2>3. CountOf[t] \in Nat \ {0} /\ Cardinality(RollingIds) > 2 * CountOf[t]
    BY TunnelFacts
  <2> QED BY <1>5, <2>2, <2>3
<1>7. free \in SUBSET Nat
  BY TunnelFacts
<1>8. Tunnel(t)!Min(free) \in free
  <2> HIDE DEF free
  <2>1. \E x \in free : \A y \in free : x <= y
    BY <1>6, <1>7, LeastNumber
  <2>2. Tunnel(t)!Min(free) = CHOOSE x \in free : \A y \in free : x <= y
    BY TunnelSets
  <2> QED BY <2>1, <2>2
<1> QED BY <1>8

\* Among connections near their deadline ToReplace finds one.
LEMMA ReplacesOneDue ==
  ASSUME NEW t \in Tunnels, TunnelInv(t), NEW P, P \subseteq pool,
         \A ch \in P : ch.up
  PROVE  \/ \E ch \in P : ch.left <= Lead /\ Tunnel(t)!ToReplace(P) = ch.id
         \/ Tunnel(t)!ToReplace(P) = 0 /\ \A ch \in P : ch.left > Lead
<1> DEFINE due == {ch \in P : ch.up /\ ch.left <= Lead}
<1>1. \A ch \in P : ch.left \in Nat
  BY ChannelFields DEF TunnelInv
<1>2. CASE due = {}
  <2>1. \A ch \in P : ch.left > Lead
    BY <1>1, <1>2, TunnelFacts
  <2>2. Tunnel(t)!ToReplace(P) = 0
    BY <1>2 DEF Tunnel!ToReplace
  <2> QED BY <2>1, <2>2
<1>3. CASE due # {}
  <2> DEFINE lefts == {ch.left : ch \in due}
             first == CHOOSE ch \in due : \A other \in due : ch.left <= other.left
  <2>1. PICK x \in lefts : \A y \in lefts : x <= y
    <3>1. lefts \in SUBSET Nat /\ lefts # {}
      BY <1>1, <1>3
    <3> HIDE DEF lefts
    <3> QED BY <3>1, LeastNumber
  <2>2. PICK ch \in due : x = ch.left
    OBVIOUS
  <2>3. \A other \in due : ch.left <= other.left
    BY <2>1, <2>2
  <2>4. first \in due
    <3> HIDE DEF due, lefts
    <3> QED BY <2>2, <2>3
  <2>5. Tunnel(t)!ToReplace(P) = first.id
    BY <1>3 DEF Tunnel!ToReplace
  <2> HIDE DEF first
  <2> QED BY <2>4, <2>5
<1> QED BY <1>2, <1>3

\* A repair that the manager starts fits the pool it leaves.
LEMMA RepairStartsFit ==
  ASSUME NEW t \in Tunnels, TunnelInv(t), NEW P, P \subseteq pool,
         \A ch \in P : ch.up /\ ch.left > 0,
         Tunnel(t)!NeedsRepair(P),
         NEW new, new = Tunnel(t)!NextLifetime({ch.left : ch \in P} \cap 1..Lifetime)
  PROVE  /\ new \in Nat /\ new <= Lifetime /\ new > Lead + ConnectMax
         /\ \A ch \in P : ch.left # new
         /\ Tunnel(t)!ToReplace(P) \in Tunnel(t)!IdsOf(P) \/ Cardinality(P) < CountOf[t]
         /\ Tunnel(t)!ToReplace(P) \in RollingIds \cup {0}
         /\ CountOf[t] > 1 => \A ch \in P : Apart(ch.left, new)
         /\ CountOf[t] = 1 => new = Lifetime
<1> DEFINE healthy == {ch \in P : ch.up /\ ch.left > Lead}
           lefts == {ch.left : ch \in P} \cap 1..Lifetime
           late == {x \in lefts : x > Lead}
<1>1. \A ch \in P : ch.id \in RollingIds /\ ch.left \in 1..Lifetime
  BY ChannelFields, TunnelFacts DEF TunnelInv
<1>2. /\ IsFiniteSet(healthy) /\ Cardinality(healthy) \in Nat
      /\ Cardinality(healthy) < CountOf[t] /\ CountOf[t] \in Nat
  <2>1. healthy \subseteq pool
    OBVIOUS
  <2>2. Tunnel(t)!Cardinality(healthy) < CountOf[t]
    BY DEF Tunnel!NeedsRepair
  <2> HIDE DEF healthy
  <2> QED BY <2>1, <2>2, SmallerPool, TunnelFacts
<1>3. Cardinality(late) < CountOf[t]
  <2>1. late \subseteq {ch.left : ch \in healthy}
    OBVIOUS
  <2> HIDE DEF late, healthy
  <2>2. /\ IsFiniteSet({ch.left : ch \in healthy})
        /\ Cardinality({ch.left : ch \in healthy}) <= Cardinality(healthy)
    BY <1>2, LeftsCount
  <2>3. IsFiniteSet(late) /\ Cardinality(late) <= Cardinality({ch.left : ch \in healthy})
    BY <2>1, <2>2, FS_Subset
  <2>4. Cardinality(late) \in Nat /\ Cardinality({ch.left : ch \in healthy}) \in Nat
    BY <2>2, <2>3, FS_CardinalityType
  <2> QED BY <1>2, <2>2, <2>3, <2>4
<1>4. /\ new \in Nat /\ new <= Lifetime /\ Lead + ConnectMax < new /\ new \notin lefts
      /\ CountOf[t] > 1 => \A x \in lefts : Apart(x, new)
      /\ CountOf[t] = 1 => new = Tunnel(t)!Slot
  <2>1. lefts \in SUBSET (1..Lifetime) /\ new = Tunnel(t)!NextLifetime(lefts)
    OBVIOUS
  <2> HIDE DEF lefts
  <2> QED BY <1>3, <2>1, NewDeadline
<1>5. \A ch \in P : ch.left \in lefts
  BY <1>1
<1>6. Tunnel(t)!ToReplace(P) \in Tunnel(t)!IdsOf(P) \/ Cardinality(P) < CountOf[t]
  <2>1. CASE \A ch \in P : ch.left > Lead
    <3>1. healthy = P
      BY <2>1
    <3> QED BY <1>2, <3>1
  <2> QED BY <2>1, ReplacesOneDue DEF Tunnel!IdsOf
<1>7. Tunnel(t)!ToReplace(P) \in RollingIds \cup {0}
  <2> QED BY <1>1, ReplacesOneDue
<1>8. new > Lead + ConnectMax
  BY <1>4, TunnelFacts
<1>9. CountOf[t] = 1 => new = Lifetime
  BY <1>4, TunnelFacts
<1> HIDE DEF lefts
<1> QED BY <1>4, <1>5, <1>6, <1>7, <1>8, <1>9

LEMMA ManageKeeps ==
  ASSUME NEW t \in Tunnels, TunnelInv(t), Tunnel(t)!Manage
  PROVE  TunnelInv(t)'
<1> DEFINE ids(P) == Tunnel(t)!IdsOf(P)
           alive == {ch \in pool : ~Tunnel(t)!IsDead(ch)}
           new == Tunnel(t)!NextLifetime({ch.left : ch \in alive} \cap 1..Lifetime)
           id == Tunnel(t)!Min(RollingIds \ Tunnel(t)!Used)
<1>1. /\ running /\ ~managed /\ pool' = alive /\ managed'
      /\ closing' = closing \cup ids(pool \ alive)
      /\ since' = since /\ failed' = failed /\ lost' = lost
      /\ running' \in BOOLEAN
  BY DEF Tunnel!Manage
<1>2. \/ UNCHANGED <<repair, open>>
      \/ /\ Tunnel(t)!NeedsRepair(alive)
         /\ repair' = [stage |-> "connecting", id |-> id, left |-> new, age |-> 0,
                       replaced |-> Tunnel(t)!ToReplace(alive)]
         /\ open' = open \cup {id}
  BY DEF Tunnel!Manage
<1>3. alive \subseteq pool /\ \A ch \in alive : ch.up /\ ch.left > 0
  <2>1. \A ch \in pool : ch.left \in Nat
    BY ChannelFields DEF TunnelInv
  <2> QED BY <2>1 DEF Tunnel!IsDead
<1> HIDE DEF alive, new, id
<1>4. /\ IsFiniteSet(pool') /\ Cardinality(pool') <= CountOf[t]
      /\ Tunnel(t)!Cardinality(pool') = Cardinality(pool')
      /\ Cardinality(pool') <= Cardinality(pool)
      /\ pool' # pool => Cardinality(pool') < CountOf[t]
  <2>1. Cardinality(pool) \in Nat /\ CountOf[t] \in Nat
    BY SmallerPool, TunnelFacts
  <2> QED BY <1>1, <1>3, <2>1, SmallerPool
<1>5. ids(alive) \subseteq ids(pool) /\ ids(pool \ alive) \subseteq RollingIds
  BY <1>3, ChannelFields DEF TunnelInv, Tunnel!IdsOf
<1>6. ids(pool) = ids(alive) \cup ids(pool \ alive)
  BY <1>3 DEF Tunnel!IdsOf
<1>7. CASE UNCHANGED <<repair, open>>
  <2>1. (Tunnel(t)!TypeOK)'
    BY <1>1, <1>3, <1>4, <1>5, <1>7 DEF TunnelInv, Tunnel!TypeOK
  <2>2. (Tunnel(t)!OpenAreOwned)'
    BY <1>1, <1>6, <1>7 DEF TunnelInv, Tunnel!OpenAreOwned
  <2>3. (Tunnel(t)!ClosesOneAtATime)'
    BY <1>1, <1>3 DEF TunnelInv, Tunnel!ClosesOneAtATime
  <2>4. RepairFits(t)'
    <3>1. CASE repair.stage = "none"
      BY <1>7, <3>1 DEF TunnelInv, RepairFits, Tunnel!NoRepair
    <3>2. CASE repair.stage # "none"
      <4>1. repair.replaced \in ids(pool') \/ Cardinality(pool') < CountOf[t]
        BY <1>1, <1>4, <3>2 DEF TunnelInv, RepairFits
      <4>2. repair.id \in RollingIds \ ids(pool')
        BY <1>1, <1>5, <3>2 DEF TunnelInv, RepairFits
      <4> QED BY <1>1, <1>3, <1>7, <3>2, <4>1, <4>2 DEF TunnelInv, RepairFits
    <3> QED BY <3>1, <3>2
  <2>5. NoneOverdue' /\ FewClosing'
    BY <1>1, <1>3 DEF NoneOverdue, FewClosing
  <2> QED BY <1>4, <2>1, <2>2, <2>3, <2>4, <2>5 DEF TunnelInv
<1>8. CASE /\ Tunnel(t)!NeedsRepair(alive)
           /\ repair' = [stage |-> "connecting", id |-> id, left |-> new, age |-> 0,
                         replaced |-> Tunnel(t)!ToReplace(alive)]
           /\ open' = open \cup {id}
  <2>1. id \in RollingIds \ Tunnel(t)!Used /\ repair.id = 0 /\ repair.stage = "none"
    <3>1. ~Tunnel(t)!InFlight
      BY <1>8 DEF Tunnel!NeedsRepair
    <3>2. repair = Tunnel(t)!NoRepair /\ repair.stage = "none"
      BY <3>1 DEF Tunnel!InFlight, TunnelInv, RepairFits
    <3> QED BY <1>1, <3>1, <3>2, FreshId DEF id, Tunnel!NoRepair
  <2>2. /\ new \in Nat /\ new <= Lifetime /\ new > Lead + ConnectMax
        /\ \A ch \in alive : ch.left # new
        /\ Tunnel(t)!ToReplace(alive) \in ids(alive) \/ Cardinality(alive) < CountOf[t]
        /\ Tunnel(t)!ToReplace(alive) \in RollingIds \cup {0}
    BY <1>3, <1>8, RepairStartsFit DEF new
  <2>3. repair' \in Tunnel(t)!Repair
    <3>1. new \in 0..Lifetime /\ 0 \in 0..ConnectMax
      BY <2>2, TunnelFacts
    <3> QED BY <1>8, <2>1, <2>2, <3>1 DEF Tunnel!Repair
  <2>4. (Tunnel(t)!TypeOK)'
    BY <1>1, <1>3, <1>4, <1>5, <1>8, <2>1, <2>3 DEF TunnelInv, Tunnel!TypeOK
  <2>5. (Tunnel(t)!OpenAreOwned)'
    BY <1>1, <1>6, <1>8, <2>1, TunnelFacts DEF TunnelInv, Tunnel!OpenAreOwned, Tunnel!TypeOK
  <2>6. (Tunnel(t)!ClosesOneAtATime)'
    BY <1>1, <1>3 DEF TunnelInv, Tunnel!ClosesOneAtATime
  <2>7. RepairFits(t)'
    <3>1. id \notin ids(pool')
      BY <1>1, <1>5, <2>1 DEF Tunnel!Used
    <3>2. new + 0 > Lead + ConnectMax
      BY <2>2
    <3> QED BY <1>1, <1>8, <2>1, <2>2, <3>1, <3>2 DEF RepairFits
  <2>8. NoneOverdue' /\ FewClosing'
    BY <1>1, <1>3 DEF NoneOverdue, FewClosing
  <2> QED BY <1>4, <2>4, <2>5, <2>6, <2>7, <2>8 DEF TunnelInv
<1> QED BY <1>2, <1>7, <1>8

LEMMA RepairChecksKeeps ==
  ASSUME NEW t \in Tunnels, TunnelInv(t), Tunnel(t)!RepairChecks
  PROVE  TunnelInv(t)'
<1>1. /\ repair.stage = "connecting" /\ repair' = [repair EXCEPT !.stage = "ready"]
      /\ UNCHANGED <<running, pool, since, closing, open, managed, failed, lost>>
  BY DEF Tunnel!RepairChecks
<1>2. repair' \in Tunnel(t)!Repair
  BY <1>1 DEF TunnelInv, Tunnel!TypeOK, Tunnel!Repair
<1>3. /\ repair'.stage = "ready" /\ repair'.id = repair.id /\ repair'.left = repair.left
      /\ repair'.age = repair.age /\ repair'.replaced = repair.replaced
  BY <1>1 DEF TunnelInv, Tunnel!TypeOK, Tunnel!Repair
<1>4. (Tunnel(t)!TypeOK)'
  BY <1>1, <1>2 DEF TunnelInv, Tunnel!TypeOK
<1>5. (Tunnel(t)!OpenAreOwned)' /\ (Tunnel(t)!ClosesOneAtATime)' /\ NoneOverdue'
  BY <1>1, <1>3 DEF TunnelInv, Tunnel!OpenAreOwned, Tunnel!ClosesOneAtATime, NoneOverdue
<1>6. RepairFits(t)' /\ FewClosing'
  BY <1>1, <1>3 DEF TunnelInv, RepairFits, FewClosing
<1> QED BY <1>1, <1>4, <1>5, <1>6 DEF TunnelInv

LEMMA IdleRepair == ASSUME NEW t \in Tunnels
  PROVE  Tunnel(t)!NoRepair \in Tunnel(t)!Repair
<1>1. 0 \in 0..Lifetime /\ 0 \in 0..ConnectMax
  BY TunnelFacts
<1> QED BY <1>1 DEF Tunnel!NoRepair, Tunnel!Repair

LEMMA RepairPlacesKeeps ==
  ASSUME NEW t \in Tunnels, TunnelInv(t), Tunnel(t)!RepairPlaces
  PROVE  TunnelInv(t)'
<1> DEFINE ids(P) == Tunnel(t)!IdsOf(P)
           kept == {ch \in pool : ch.id # repair.replaced}
           ch0 == [id |-> repair.id, left |-> repair.left, up |-> TRUE]
<1>1. /\ repair.stage = "ready" /\ pool' = kept \cup {ch0}
      /\ closing' = closing \cup (ids(pool) \cap {repair.replaced})
      /\ repair' = Tunnel(t)!NoRepair /\ since' = 0
      /\ UNCHANGED <<running, open, managed, failed, lost>>
  BY DEF Tunnel!RepairPlaces, Tunnel!RepairIdle, Tunnel!Retired
<1>2. /\ repair.id \in RollingIds \ ids(pool)
      /\ repair.replaced \in ids(pool) \/ Cardinality(pool) < CountOf[t]
      /\ repair.left + repair.age > Lead + ConnectMax
      /\ \A ch \in pool : ch.left # repair.left
  BY <1>1 DEF TunnelInv, RepairFits
<1>3. repair.left \in 0..Lifetime /\ repair.left > 0
  BY <1>2, RepairFields, TunnelFacts DEF TunnelInv
<1>4. ch0 \in Tunnel(t)!Channel
  BY <1>2, <1>3 DEF Tunnel!Channel
<1>5. repair.replaced \in ids(pool) => kept # pool
  BY DEF Tunnel!IdsOf
<1>6. ids(pool) \subseteq RollingIds
  BY ChannelFields DEF TunnelInv, Tunnel!IdsOf
<1>7. ids(pool) \subseteq ids(kept) \cup (ids(pool) \cap {repair.replaced})
  BY DEF Tunnel!IdsOf
<1>8. \A ch \in kept : ch.id # repair.id
  BY <1>2 DEF Tunnel!IdsOf
<1>9. ids(pool') = ids(kept) \cup {repair.id}
  <2>1. ch0.id = repair.id
    OBVIOUS
  <2> HIDE DEF ch0, kept
  <2> QED BY <1>1, <2>1 DEF Tunnel!IdsOf
<1>10. Tunnel(t)!NoRepair \in Tunnel(t)!Repair /\ 0 \in 0..StaggerOf[t]
  BY IdleRepair, TunnelFacts
<1>11. kept \subseteq pool
  OBVIOUS
<1>12. ch0.id = repair.id /\ ch0.left = repair.left
  OBVIOUS
<1> HIDE DEF kept, ch0
<1>13. IsFiniteSet(pool') /\ Tunnel(t)!Cardinality(pool') <= CountOf[t]
  <2>1. /\ IsFiniteSet(kept) /\ Cardinality(kept) \in Nat /\ Cardinality(pool) \in Nat
        /\ Cardinality(kept) <= Cardinality(pool) /\ Cardinality(pool) <= CountOf[t]
        /\ kept # pool => Cardinality(kept) < Cardinality(pool)
    BY <1>11, SmallerPool
  <2>2. IsFiniteSet(kept \cup {ch0}) /\ Cardinality(kept \cup {ch0}) <= Cardinality(kept) + 1
    <3>1. /\ IsFiniteSet(kept \cup {ch0})
          /\ Cardinality(kept \cup {ch0}) = IF ch0 \in kept THEN Cardinality(kept) ELSE Cardinality(kept) + 1
      BY <2>1, FS_AddElement
    <3> QED BY <2>1, <3>1
  <2>3. Cardinality(kept) < CountOf[t] /\ CountOf[t] \in Nat
    BY <1>2, <1>5, <2>1, TunnelFacts
  <2>4. Cardinality(kept \cup {ch0}) \in Nat
    BY <2>2, FS_CardinalityType
  <2>5. Cardinality(pool') <= CountOf[t]
    BY <1>1, <2>1, <2>2, <2>3, <2>4
  <2> QED BY <1>1, <2>2, <2>5, TunnelSets
<1>14. (Tunnel(t)!TypeOK)'
  <2>1. \A ch, other \in pool' : ch.id = other.id => ch = other
    BY <1>1, <1>8, <1>11, <1>12 DEF TunnelInv, Tunnel!TypeOK
  <2> QED BY <1>1, <1>4, <1>6, <1>10, <1>11, <1>13, <2>1 DEF TunnelInv, Tunnel!TypeOK
<1>15. (Tunnel(t)!OpenAreOwned)'
  BY <1>1, <1>7, <1>9 DEF TunnelInv, Tunnel!OpenAreOwned
<1>16. (Tunnel(t)!ClosesOneAtATime)'
  BY <1>1, <1>2, <1>11, <1>12 DEF TunnelInv, Tunnel!ClosesOneAtATime
<1>17. RepairFits(t)'
  BY <1>1 DEF RepairFits, Tunnel!NoRepair
<1>18. NoneOverdue'
  BY <1>1, <1>3, <1>11, <1>12 DEF TunnelInv, NoneOverdue
<1>19. FewClosing'
  <2> SUFFICES ASSUME ~managed PROVE \E id \in Nat : closing' \subseteq {id}
    BY <1>1 DEF FewClosing, Tunnel!NoRepair
  <2>1. closing = {}
    BY <1>1 DEF TunnelInv, FewClosing
  <2>2. repair.replaced \in Nat
    BY RepairFields, TunnelFacts DEF TunnelInv
  <2> QED BY <1>1, <2>1, <2>2
<1> QED BY <1>13, <1>14, <1>15, <1>16, <1>17, <1>18, <1>19 DEF TunnelInv

LEMMA RepairFailsKeeps ==
  ASSUME NEW t \in Tunnels, TunnelInv(t), Tunnel(t)!RepairFails
  PROVE  TunnelInv(t)'
<1>1. /\ repair.stage = "connecting" /\ failed < MaxFailed /\ failed' = failed + 1
      /\ open' = open \ {repair.id} /\ repair' = Tunnel(t)!NoRepair /\ since' = 0
      /\ UNCHANGED <<running, pool, closing, managed, lost>>
  BY DEF Tunnel!RepairFails, Tunnel!RepairIdle
<1>2. Tunnel(t)!NoRepair \in Tunnel(t)!Repair /\ 0 \in 0..StaggerOf[t]
  BY IdleRepair, TunnelFacts
<1>3. failed' \in 0..MaxFailed
  BY <1>1, TunnelFacts DEF TunnelInv, Tunnel!TypeOK
<1>4. (Tunnel(t)!TypeOK)'
  BY <1>1, <1>2, <1>3 DEF TunnelInv, Tunnel!TypeOK
<1>5. (Tunnel(t)!OpenAreOwned)' /\ (Tunnel(t)!ClosesOneAtATime)' /\ NoneOverdue'
  BY <1>1 DEF TunnelInv, Tunnel!OpenAreOwned, Tunnel!ClosesOneAtATime, NoneOverdue
<1>6. RepairFits(t)'
  BY <1>1 DEF RepairFits, Tunnel!NoRepair
<1>7. FewClosing'
  BY <1>1 DEF TunnelInv, FewClosing, Tunnel!NoRepair
<1> QED BY <1>1, <1>4, <1>5, <1>6, <1>7 DEF TunnelInv

LEMMA CloseKeeps ==
  ASSUME NEW t \in Tunnels, TunnelInv(t), NEW id \in RollingIds, Tunnel(t)!CloseClient(id)
  PROVE  TunnelInv(t)'
<1>1. /\ closing' = closing \ {id} /\ open' = open \ {id}
      /\ UNCHANGED <<running, pool, repair, since, managed, failed, lost>>
  BY DEF Tunnel!CloseClient
<1>2. (Tunnel(t)!TypeOK)'
  BY <1>1 DEF TunnelInv, Tunnel!TypeOK
<1>3. (Tunnel(t)!OpenAreOwned)' /\ (Tunnel(t)!ClosesOneAtATime)' /\ NoneOverdue'
  BY <1>1 DEF TunnelInv, Tunnel!OpenAreOwned, Tunnel!ClosesOneAtATime, NoneOverdue
<1>4. RepairFits(t)'
  BY <1>1 DEF TunnelInv, RepairFits
<1>5. FewClosing'
  BY <1>1 DEF TunnelInv, FewClosing
<1> QED BY <1>1, <1>2, <1>3, <1>4, <1>5 DEF TunnelInv

\* Losing a connection, or a tick, replaces members of the pool one by one.
LEMMA ReplacedMembers ==
  ASSUME NEW t \in Tunnels, TunnelInv(t), NEW f, NEW Q,
         \A q \in Q : \E ch \in pool : q = f[ch],
         \A ch \in pool : f[ch] \in Q /\ f[ch] \in Tunnel(t)!Channel /\ f[ch].id = ch.id
  PROVE  /\ Q \subseteq Tunnel(t)!Channel
         /\ IsFiniteSet(Q) /\ Cardinality(Q) <= Cardinality(pool)
         /\ Tunnel(t)!Cardinality(Q) <= CountOf[t]
         /\ \A ch, other \in Q : ch.id = other.id => ch = other
         /\ Tunnel(t)!IdsOf(Q) = Tunnel(t)!IdsOf(pool)
<1>1. IsFiniteSet(pool) /\ Cardinality(pool) \in Nat /\ Cardinality(pool) <= CountOf[t]
  BY SmallerPool
<1>2. IsFiniteSet(Q) /\ Cardinality(Q) <= Cardinality(pool)
  <2>1. Q = {f[ch] : ch \in pool}
    OBVIOUS
  <2> QED BY <1>1, <2>1, ImageBound
<1>3. Cardinality(Q) \in Nat /\ CountOf[t] \in Nat /\ Tunnel(t)!Cardinality(Q) = Cardinality(Q)
  BY <1>2, FS_CardinalityType, TunnelFacts, TunnelSets
<1>4. \A ch, other \in Q : ch.id = other.id => ch = other
  BY DEF TunnelInv, Tunnel!TypeOK
<1>5. Tunnel(t)!IdsOf(Q) = Tunnel(t)!IdsOf(pool)
  BY DEF Tunnel!IdsOf
<1> QED BY <1>1, <1>2, <1>3, <1>4, <1>5

LEMMA LoseKeeps ==
  ASSUME NEW t \in Tunnels, TunnelInv(t), NEW c \in pool, Tunnel(t)!Lose(c)
  PROVE  TunnelInv(t)'
<1> DEFINE down == [c EXCEPT !.up = FALSE]
           f == [ch \in pool |-> IF ch = c THEN down ELSE ch]
<1>1. /\ lost < MaxLost /\ lost' = lost + 1 /\ pool' = (pool \ {c}) \cup {down}
      /\ UNCHANGED <<running, repair, since, closing, open, managed, failed>>
  BY DEF Tunnel!Lose
<1>2. pool \subseteq Tunnel(t)!Channel
  BY DEF TunnelInv, Tunnel!TypeOK
<1>3. down \in Tunnel(t)!Channel /\ down.id = c.id /\ down.left = c.left
  BY <1>2 DEF Tunnel!Channel
<1> HIDE DEF down
<1>4. \A q \in pool' : \E ch \in pool : q = f[ch]
  BY <1>1
<1>5. \A ch \in pool : /\ f[ch] \in pool' /\ f[ch] \in Tunnel(t)!Channel
                       /\ f[ch].id = ch.id /\ f[ch].left = ch.left
  BY <1>1, <1>2, <1>3
<1> HIDE DEF f
<1>6. /\ pool' \subseteq Tunnel(t)!Channel
      /\ IsFiniteSet(pool') /\ Cardinality(pool') <= Cardinality(pool)
      /\ Tunnel(t)!Cardinality(pool') <= CountOf[t]
      /\ \A ch, other \in pool' : ch.id = other.id => ch = other
      /\ Tunnel(t)!IdsOf(pool') = Tunnel(t)!IdsOf(pool)
  <2> DEFINE Q == pool'
  <2>1. /\ \A q \in Q : \E ch \in pool : q = f[ch]
        /\ \A ch \in pool : f[ch] \in Q /\ f[ch] \in Tunnel(t)!Channel /\ f[ch].id = ch.id
    BY <1>4, <1>5
  <2> HIDE DEF Q
  <2>2. /\ Q \subseteq Tunnel(t)!Channel
        /\ IsFiniteSet(Q) /\ Cardinality(Q) <= Cardinality(pool)
        /\ Tunnel(t)!Cardinality(Q) <= CountOf[t]
        /\ \A ch, other \in Q : ch.id = other.id => ch = other
        /\ Tunnel(t)!IdsOf(Q) = Tunnel(t)!IdsOf(pool)
    BY <2>1, ReplacedMembers
  <2> QED BY <2>2 DEF Q
<1>7. Cardinality(pool') \in Nat /\ Cardinality(pool) \in Nat /\ CountOf[t] \in Nat
  BY <1>6, SmallerPool, FS_CardinalityType, TunnelFacts
<1>8. lost' \in 0..MaxLost
  BY <1>1, TunnelFacts DEF TunnelInv, Tunnel!TypeOK
<1>9. (Tunnel(t)!TypeOK)'
  BY <1>1, <1>6, <1>8 DEF TunnelInv, Tunnel!TypeOK
<1>10. (Tunnel(t)!OpenAreOwned)'
  BY <1>1, <1>6 DEF TunnelInv, Tunnel!OpenAreOwned
<1>11. (Tunnel(t)!ClosesOneAtATime)'
  BY <1>4, <1>5 DEF TunnelInv, Tunnel!ClosesOneAtATime
<1>12. NoneOverdue' /\ FewClosing'
  <2>1. NoneOverdue /\ FewClosing
    BY DEF TunnelInv
  <2>2. NoneOverdue'
    BY <1>1, <1>4, <1>5, <2>1 DEF NoneOverdue
  <2>3. FewClosing'
    BY <1>1, <2>1 DEF FewClosing
  <2> QED BY <2>2, <2>3
<1>13. RepairFits(t)'
  <2>1. \A ch \in pool' : ch.left # repair.left \/ repair.stage = "none"
    BY <1>4, <1>5 DEF TunnelInv, RepairFits
  <2>2. Cardinality(pool) < CountOf[t] => Cardinality(pool') < CountOf[t]
    BY <1>6, <1>7
  <2> QED BY <1>1, <1>6, <2>1, <2>2 DEF TunnelInv, RepairFits, Tunnel!NoRepair
<1> QED BY <1>6, <1>9, <1>10, <1>11, <1>12, <1>13 DEF TunnelInv

LEMMA TickKeeps ==
  ASSUME NEW t \in Tunnels, TunnelInv(t), Tunnel(t)!Tick
  PROVE  TunnelInv(t)'
<1> DEFINE older(ch) == [ch EXCEPT !.left = @ - 1]
           f == [ch \in pool |-> older(ch)]
<1>1. /\ managed /\ closing = {} /\ repair.stage # "ready"
      /\ repair.stage # "none" => repair.age < ConnectMax
      /\ pool' = {older(ch) : ch \in pool}
      /\ repair' = IF repair.stage # "none"
                     THEN [repair EXCEPT !.left = @ - 1, !.age = @ + 1] ELSE repair
      /\ since' = IF since < StaggerOf[t] THEN since + 1 ELSE since
      /\ managed' = FALSE
      /\ UNCHANGED <<running, closing, open, failed, lost>>
  BY DEF Tunnel!Tick, Tunnel!InFlight
<1>2. \A ch \in pool : /\ older(ch) \in Tunnel(t)!Channel
                       /\ older(ch).id = ch.id /\ older(ch).left = ch.left - 1
  <2> TAKE ch \in pool
  <2>1. ch \in Tunnel(t)!Channel
    BY DEF TunnelInv, Tunnel!TypeOK
  <2>2. ch.left \in Nat /\ ch.left <= Lifetime /\ ch.left > 0 /\ Lifetime \in Nat
    BY <1>1, ChannelFields, TunnelFacts DEF TunnelInv, NoneOverdue
  <2>3. ch.left - 1 \in 0..Lifetime
    BY <2>2
  <2> QED BY <2>1, <2>3 DEF Tunnel!Channel
<1> HIDE DEF older
<1>3. \A q \in pool' : \E ch \in pool : q = f[ch]
  BY <1>1
<1>4. \A ch \in pool : /\ f[ch] \in pool' /\ f[ch] \in Tunnel(t)!Channel
                       /\ f[ch].id = ch.id /\ f[ch].left = ch.left - 1
  BY <1>1, <1>2
<1> HIDE DEF f
<1>5. /\ pool' \subseteq Tunnel(t)!Channel
      /\ IsFiniteSet(pool') /\ Cardinality(pool') <= Cardinality(pool)
      /\ Tunnel(t)!Cardinality(pool') <= CountOf[t]
      /\ \A ch, other \in pool' : ch.id = other.id => ch = other
      /\ Tunnel(t)!IdsOf(pool') = Tunnel(t)!IdsOf(pool)
  <2> DEFINE Q == pool'
  <2>1. /\ \A q \in Q : \E ch \in pool : q = f[ch]
        /\ \A ch \in pool : f[ch] \in Q /\ f[ch] \in Tunnel(t)!Channel /\ f[ch].id = ch.id
    BY <1>3, <1>4
  <2> HIDE DEF Q
  <2>2. /\ Q \subseteq Tunnel(t)!Channel
        /\ IsFiniteSet(Q) /\ Cardinality(Q) <= Cardinality(pool)
        /\ Tunnel(t)!Cardinality(Q) <= CountOf[t]
        /\ \A ch, other \in Q : ch.id = other.id => ch = other
        /\ Tunnel(t)!IdsOf(Q) = Tunnel(t)!IdsOf(pool)
    BY <2>1, ReplacedMembers
  <2> QED BY <2>2 DEF Q
<1>6. Cardinality(pool') \in Nat /\ Cardinality(pool) \in Nat /\ CountOf[t] \in Nat
  BY <1>5, SmallerPool, FS_CardinalityType, TunnelFacts
<1>7. \A ch \in pool : ch.left \in Nat
  BY ChannelFields DEF TunnelInv
<1>8. /\ repair'.stage = repair.stage /\ repair'.id = repair.id
      /\ repair'.replaced = repair.replaced /\ repair' \in Tunnel(t)!Repair
      /\ repair.stage # "none" => /\ repair'.left = repair.left - 1
                                  /\ repair'.age = repair.age + 1
      /\ repair.stage = "none" => repair' = repair
  <2>1. repair \in Tunnel(t)!Repair
    BY DEF TunnelInv, Tunnel!TypeOK
  <2>2. CASE repair.stage = "none"
    BY <1>1, <2>1, <2>2
  <2>3. CASE repair.stage # "none"
    <3>1. repair.left + repair.age > Lead + ConnectMax /\ repair.age < ConnectMax
      BY <1>1, <2>3 DEF TunnelInv, RepairFits
    <3>2. repair.left - 1 \in 0..Lifetime /\ repair.age + 1 \in 0..ConnectMax
      BY <3>1, RepairFields, TunnelFacts DEF TunnelInv
    <3>3. repair' = [repair EXCEPT !.left = repair.left - 1, !.age = repair.age + 1]
      BY <1>1, <2>3
    <3> QED BY <2>1, <2>3, <3>2, <3>3 DEF Tunnel!Repair
  <2> QED BY <2>2, <2>3
<1>9. since' \in 0..StaggerOf[t]
  BY <1>1, TunnelFacts DEF TunnelInv, Tunnel!TypeOK
<1>10. (Tunnel(t)!TypeOK)'
  BY <1>1, <1>5, <1>8, <1>9 DEF TunnelInv, Tunnel!TypeOK
<1>11. (Tunnel(t)!OpenAreOwned)'
  BY <1>1, <1>5, <1>8 DEF TunnelInv, Tunnel!OpenAreOwned
<1>12. (Tunnel(t)!ClosesOneAtATime)'
  <2> SUFFICES ASSUME NEW q \in pool', NEW p \in pool', q # p PROVE q.left # p.left
    BY DEF Tunnel!ClosesOneAtATime
  <2>1. PICK ch \in pool, other \in pool : q = f[ch] /\ p = f[other]
    BY <1>3
  <2>2. ch.left # other.left
    BY <2>1 DEF TunnelInv, Tunnel!ClosesOneAtATime
  <2> QED BY <1>4, <1>7, <2>1, <2>2
<1>13. NoneOverdue' /\ FewClosing'
  BY <1>1 DEF NoneOverdue, FewClosing
<1>14. RepairFits(t)'
  <2>1. CASE repair.stage = "none"
    BY <1>8, <2>1 DEF TunnelInv, RepairFits, Tunnel!NoRepair
  <2>2. CASE repair.stage # "none"
    <3>1. /\ repair.id \in RollingIds \ Tunnel(t)!IdsOf(pool)
          /\ repair.replaced \in Tunnel(t)!IdsOf(pool) \/ Cardinality(pool) < CountOf[t]
          /\ repair.left + repair.age > Lead + ConnectMax
          /\ \A ch \in pool : ch.left # repair.left
      BY <2>2 DEF TunnelInv, RepairFits
    <3>2. repair'.left + repair'.age > Lead + ConnectMax
      BY <1>8, <2>2, <3>1, RepairFields DEF TunnelInv
    <3>3. ASSUME NEW q \in pool' PROVE q.left # repair'.left
      <4>1. PICK ch \in pool : q = f[ch]
        BY <1>3
      <4>2. ch.left # repair.left /\ repair.left \in Nat
        BY <3>1, RepairFields DEF TunnelInv
      <4> QED BY <1>4, <1>7, <1>8, <2>2, <4>1, <4>2
    <3>4. repair'.replaced \in Tunnel(t)!IdsOf(pool') \/ Cardinality(pool') < CountOf[t]
      BY <1>5, <1>6, <1>8, <3>1
    <3> QED BY <1>5, <1>8, <2>2, <3>1, <3>2, <3>3, <3>4 DEF RepairFits
  <2> QED BY <2>1, <2>2
<1> QED BY <1>5, <1>10, <1>11, <1>12, <1>13, <1>14 DEF TunnelInv

LEMMA StopKeeps ==
  ASSUME NEW t \in Tunnels, TunnelInv(t), Tunnel(t)!Stop
  PROVE  TunnelInv(t)'
<1>1. /\ running' = FALSE /\ open' = open \ Tunnel(t)!IdsOf(pool) /\ pool' = {}
      /\ UNCHANGED <<repair, since, closing, managed, failed, lost>>
  BY DEF Tunnel!Stop
<1>2. /\ IsFiniteSet(pool') /\ Cardinality(pool') = 0 /\ Tunnel(t)!Cardinality(pool') = 0
      /\ 0 <= CountOf[t] /\ 0 < CountOf[t]
  BY <1>1, FS_EmptySet, TunnelSets, TunnelFacts
<1>3. (Tunnel(t)!TypeOK)'
  BY <1>1, <1>2 DEF TunnelInv, Tunnel!TypeOK
<1>4. (Tunnel(t)!OpenAreOwned)' /\ (Tunnel(t)!ClosesOneAtATime)' /\ NoneOverdue'
  BY <1>1 DEF TunnelInv, Tunnel!OpenAreOwned, Tunnel!ClosesOneAtATime, NoneOverdue
<1>5. RepairFits(t)'
  BY <1>1, <1>2 DEF TunnelInv, RepairFits, Tunnel!IdsOf, Tunnel!NoRepair
<1>6. FewClosing'
  BY <1>1 DEF TunnelInv, FewClosing
<1> QED BY <1>2, <1>3, <1>4, <1>5, <1>6 DEF TunnelInv

\* Every step of a rolling tunnel keeps the invariant.
LEMMA TunnelStep ==
  ASSUME NEW t \in Tunnels, TunnelInv(t), Tunnel(t)!Next
  PROVE  TunnelInv(t)'
<1>1. CASE Tunnel(t)!Manage
  BY <1>1, ManageKeeps
<1>2. CASE Tunnel(t)!RepairChecks
  BY <1>2, RepairChecksKeeps
<1>3. CASE Tunnel(t)!RepairPlaces
  BY <1>3, RepairPlacesKeeps
<1>4. CASE Tunnel(t)!RepairFails
  BY <1>4, RepairFailsKeeps
<1>5. CASE \E id \in RollingIds : Tunnel(t)!CloseClient(id)
  BY <1>5, CloseKeeps
<1>6. CASE \E ch \in pool : Tunnel(t)!Lose(ch)
  BY <1>6, LoseKeeps
<1>7. CASE Tunnel(t)!Tick
  BY <1>7, TickKeeps
<1>8. CASE Tunnel(t)!Stop
  BY <1>8, StopKeeps
<1> QED BY <1>1, <1>2, <1>3, <1>4, <1>5, <1>6, <1>7, <1>8 DEF Tunnel!Next

\* What the invariant says of a connection that is ready to enter the pool.
LEMMA ReadyLives ==
  ASSUME NEW t \in Tunnels, TunnelInv(t) PROVE Tunnel(t)!LivesLongEnough
<1> SUFFICES ASSUME repair.stage = "ready" PROVE repair.left > Lead
  BY DEF Tunnel!LivesLongEnough
<1>1. repair.left + repair.age > Lead + ConnectMax
  BY DEF TunnelInv, RepairFits
<1> QED BY <1>1, RepairFields, TunnelFacts DEF TunnelInv
-----------------------------------------------------------------------------
(* Browser mimicry: the invariant *)

\* The connection that is made has an id of its own and a place in the pool;
\* while none is made nothing is known of it.
MakingFits ==
  IF making.stage = "none"
    THEN making = Mimicry!Idle
    ELSE /\ making.id \in MimicryIds \ Mimicry!IdsIn(pool)
         /\ Cardinality(pool) < MaxPool

\* The connections that expired in the last turn of the manager are closed
\* before the next turn.
ClosedBefore ==
  /\ IsFiniteSet(closing) /\ Cardinality(closing) <= MaxPool
  /\ making.stage = "none" /\ ~managed => closing = {}

DistinctIds == \A c, d \in pool : c.id = d.id => c = d

MimicryInv ==
  /\ Mimicry!MimicryTypeOK /\ IsFiniteSet(pool)
  /\ Mimicry!ListsFollowPool
  /\ Mimicry!PoolOwnsOpen
  /\ DistinctIds
  /\ MakingFits
  /\ ClosedBefore

LEMMA MimicryFacts ==
  /\ PerType \in Nat \ {0} /\ MaxPool \in Nat \ {0} /\ MaxPool >= 2 * PerType
  /\ Ttls \subseteq Nat \ {0} /\ SendTimes \subseteq Nat \ {0}
  /\ MinSending \in Nat /\ MimicryLead \in Nat /\ MimicryMax \in Nat
  /\ MimicryIds \subseteq Nat \ {0} /\ IsFiniteSet(MimicryIds)
  /\ Cardinality(MimicryIds) >= 2 * MaxPool
  /\ MaxFailed \in Nat /\ MaxLost \in Nat
  /\ Mimicry!Longest \in Nat
  /\ \A d \in Ttls \cup SendTimes \cup {MinSending} : d \in 0..Mimicry!Longest
<1>1. Mimicry!MimicryAssumption
  BY PartsAssumption
<1>2. \A S : /\ Mimicry!IsFiniteSet(S) <=> IsFiniteSet(S)
             /\ Mimicry!Cardinality(S) = Cardinality(S)
  BY MimicrySets
<1>3. /\ PerType \in Nat \ {0} /\ MaxPool \in Nat \ {0} /\ MaxPool >= 2 * PerType
      /\ Ttls \subseteq Nat \ {0} /\ SendTimes \subseteq Nat \ {0}
      /\ IsFiniteSet(Ttls) /\ IsFiniteSet(SendTimes)
      /\ MinSending \in Nat /\ MimicryLead \in Nat /\ MimicryMax \in Nat
      /\ MimicryIds \subseteq Nat \ {0} /\ IsFiniteSet(MimicryIds)
      /\ Cardinality(MimicryIds) >= 2 * MaxPool
      /\ MaxFailed \in Nat /\ MaxLost \in Nat
  BY <1>1, <1>2 DEF Mimicry!MimicryAssumption
<1> DEFINE T == Ttls \cup SendTimes \cup {MinSending}
<1>4. T \in SUBSET Nat /\ T # {} /\ IsFiniteSet(T)
  <2>1. IsFiniteSet(Ttls \cup SendTimes)
    BY <1>3, FS_Union
  <2>2. IsFiniteSet((Ttls \cup SendTimes) \cup {MinSending})
    BY <2>1, FS_AddElement
  <2> QED BY <1>3, <2>2
<1>5. Mimicry!Longest \in T /\ \A d \in T : Mimicry!Longest >= d
  <2>1. Mimicry!Longest = Mimicry!Max(T)
    BY DEF Mimicry!Longest
  <2> HIDE DEF T
  <2>2. \E x \in T : \A y \in T : x >= y
    <3>1. PICK x \in T : \A y \in T : y <= x
      BY <1>4, GreatestNumber
    <3>2. \A y \in T : x >= y
      BY <1>4, <3>1
    <3> QED BY <3>2
  <2>3. Mimicry!Max(T) = CHOOSE x \in T : \A y \in T : x >= y
    BY MimicrySets
  <2> QED BY <2>1, <2>2, <2>3
<1>6. Mimicry!Longest \in Nat /\ \A d \in T : d \in 0..Mimicry!Longest
  <2> HIDE DEF T
  <2> QED BY <1>4, <1>5
<1> QED BY <1>3, <1>6

LEMMA ConnectionFields ==
  ASSUME Mimicry!MimicryTypeOK, NEW c \in pool
  PROVE  /\ c.id \in MimicryIds /\ c.status \in {"creating", "sending", "receiving"}
         /\ c.send \in 0..Mimicry!Longest /\ c.left \in 0..Mimicry!Longest /\ c.up \in BOOLEAN
         /\ c.id \in Mimicry!IdsIn(pool)
         /\ c \in Mimicry!Connection
<1>1. c \in Mimicry!Connection
  BY DEF Mimicry!MimicryTypeOK
<1> QED BY <1>1 DEF Mimicry!Connection, Mimicry!IdsIn

LEMMA MakingFields ==
  ASSUME Mimicry!MimicryTypeOK
  PROVE  /\ making.stage \in {"none", "connecting", "ready"}
         /\ making.id \in MimicryIds \cup {0}
         /\ making.send \in 0..Mimicry!Longest /\ making.left \in 0..Mimicry!Longest
         /\ making.age \in 0..MimicryMax
         /\ making.needSend \in 0..PerType /\ making.needRecv \in 0..PerType
<1>1. making \in Mimicry!Making
  BY DEF Mimicry!MimicryTypeOK
<1> QED BY <1>1 DEF Mimicry!Making

LEMMA IdleMaking == Mimicry!Idle \in Mimicry!Making
<1>1. 0 \in 0..Mimicry!Longest /\ 0 \in 0..MimicryMax /\ 0 \in 0..PerType
  BY MimicryFacts
<1> QED BY <1>1 DEF Mimicry!Idle, Mimicry!Making

LEMMA MimicryStart == ASSUME Mimicry!MimicryInit PROVE MimicryInv
<1>1. /\ pool = {} /\ senders = {} /\ receivers = {} /\ closing = {} /\ open = {}
      /\ making = Mimicry!Idle /\ failed = 0 /\ lost = 0
      /\ running = TRUE /\ told = FALSE /\ managed = FALSE
  BY DEF Mimicry!MimicryInit
<1>2. IsFiniteSet({}) /\ Cardinality({}) = 0 /\ Mimicry!Cardinality({}) = 0 /\ 0 <= MaxPool
  BY FS_EmptySet, MimicrySets, MimicryFacts
<1>3. Mimicry!MimicryTypeOK
  <2>1. 0 \in 0..MaxFailed /\ 0 \in 0..MaxLost
    BY MimicryFacts
  <2> QED BY <1>1, <2>1, IdleMaking DEF Mimicry!MimicryTypeOK
<1>4. Mimicry!ListsFollowPool
  BY <1>1 DEF Mimicry!ListsFollowPool, Mimicry!IdsIn
<1>5. Mimicry!PoolOwnsOpen
  BY <1>1, <1>2 DEF Mimicry!PoolOwnsOpen
<1>6. DistinctIds /\ MakingFits /\ ClosedBefore
  BY <1>1, <1>2 DEF DistinctIds, MakingFits, ClosedBefore, Mimicry!Idle
<1> QED BY <1>1, <1>2, <1>3, <1>4, <1>5, <1>6 DEF MimicryInv

LEMMA SomePool ==
  ASSUME MimicryInv
  PROVE  /\ IsFiniteSet(pool) /\ Cardinality(pool) \in Nat /\ Cardinality(pool) <= MaxPool
         /\ \A P : P \subseteq pool =>
              /\ IsFiniteSet(P) /\ Cardinality(P) \in Nat /\ Cardinality(P) <= Cardinality(pool)
<1>1. IsFiniteSet(pool) /\ Mimicry!Cardinality(pool) <= MaxPool
  BY DEF MimicryInv, Mimicry!PoolOwnsOpen
<1>2. Cardinality(pool) \in Nat /\ Cardinality(pool) <= MaxPool
  BY <1>1, FS_CardinalityType, MimicrySets
<1>3. ASSUME NEW P, P \subseteq pool
      PROVE  IsFiniteSet(P) /\ Cardinality(P) \in Nat /\ Cardinality(P) <= Cardinality(pool)
  BY <1>1, <1>3, FS_Subset, FS_CardinalityType
<1> QED BY <1>1, <1>2, <1>3

LEMMA ConnectionIds ==
  ASSUME NEW P, IsFiniteSet(P)
  PROVE  /\ IsFiniteSet(Mimicry!IdsIn(P)) /\ Cardinality(Mimicry!IdsIn(P)) <= Cardinality(P)
         /\ Cardinality(Mimicry!IdsIn(P)) \in Nat
<1> DEFINE f == [c \in P |-> c.id]
<1>1. Mimicry!IdsIn(P) = {f[c] : c \in P}
  BY DEF Mimicry!IdsIn
<1> HIDE DEF f
<1>2. IsFiniteSet(Mimicry!IdsIn(P)) /\ Cardinality(Mimicry!IdsIn(P)) <= Cardinality(P)
  BY <1>1, ImageBound
<1> QED BY <1>2, FS_CardinalityType

\* An id that nothing refers to is at hand while the pool is not full.
LEMMA FreshMimicryId ==
  ASSUME NEW U, IsFiniteSet(U), Cardinality(U) < 2 * MaxPool,
         Mimicry!Used \cap MimicryIds \subseteq U
  PROVE  Mimicry!Min(MimicryIds \ Mimicry!Used) \in MimicryIds \ Mimicry!Used
<1> DEFINE free == MimicryIds \ Mimicry!Used
<1>1. free # {}
  <2> SUFFICES ASSUME free = {} PROVE FALSE
    OBVIOUS
  <2>1. MimicryIds \in SUBSET U
    OBVIOUS
  <2>2. Cardinality(MimicryIds) <= Cardinality(U)
    BY <2>1, FS_Subset
  <2>3. /\ Cardinality(MimicryIds) \in Nat /\ Cardinality(U) \in Nat
        /\ Cardinality(MimicryIds) >= 2 * MaxPool /\ MaxPool \in Nat
    BY MimicryFacts, FS_CardinalityType
  <2> QED BY <2>2, <2>3
<1>2. free \in SUBSET Nat
  BY MimicryFacts
<1>3. Mimicry!Min(free) \in free
  <2> HIDE DEF free
  <2>1. \E x \in free : \A y \in free : x <= y
    BY <1>1, <1>2, LeastNumber
  <2>2. Mimicry!Min(free) = CHOOSE x \in free : \A y \in free : x <= y
    BY MimicrySets
  <2> QED BY <2>1, <2>2
<1> QED BY <1>3

\* The two ways a creation goes on: the next one, with an id of its own, or none.
LEMMA BeginFacts ==
  ASSUME NEW P, NEW needSend \in 0..PerType, NEW needRecv \in 0..PerType,
         MimicryInv, Mimicry!Begin(P, needSend, needRecv),
         NEW U, IsFiniteSet(U), Mimicry!Used \cap MimicryIds \subseteq U,
         Cardinality(P) < MaxPool => Cardinality(U) < 2 * MaxPool
  PROVE  \/ /\ making' \in Mimicry!Making /\ making'.stage # "none"
            /\ making'.id \in MimicryIds \ Mimicry!Used
            /\ Cardinality(P) < MaxPool
            /\ open' = open \cup {making'.id}
            /\ UNCHANGED <<running, told, managed>>
         \/ /\ making' = Mimicry!Idle /\ managed' = TRUE
            /\ running' \in BOOLEAN /\ told' \in BOOLEAN
            /\ open' = open
<1>1. Mimicry!Cardinality(P) = Cardinality(P)
  BY MimicrySets
<1>2. CASE needSend + needRecv > 0 /\ Cardinality(P) < MaxPool
  <2> DEFINE id == Mimicry!Min(MimicryIds \ Mimicry!Used)
  <2>1. PICK ttl \in Ttls, send \in IF needSend > 0 THEN SendTimes ELSE {MinSending} :
          /\ making' = [stage |-> "connecting", id |-> id, send |-> send,
                        left |-> ttl, age |-> 0, needSend |-> Mimicry!Less(needSend),
                        needRecv |-> IF needSend > 0 THEN needRecv ELSE Mimicry!Less(needRecv)]
          /\ open' = open \cup {id}
          /\ UNCHANGED <<running, told, managed>>
    BY <1>1, <1>2 DEF Mimicry!Begin
  <2>2. id \in MimicryIds \ Mimicry!Used
    BY <1>2, FreshMimicryId
  <2> HIDE DEF id
  <2>3. send \in 0..Mimicry!Longest /\ ttl \in 0..Mimicry!Longest
    BY <2>1, MimicryFacts
  <2>4. 0 \in 0..MimicryMax
    BY MimicryFacts
  <2>5. \A k \in 0..PerType : Mimicry!Less(k) \in 0..PerType
    BY MimicryFacts DEF Mimicry!Less
  <2>6. making' \in Mimicry!Making
    BY <2>1, <2>2, <2>3, <2>4, <2>5 DEF Mimicry!Making
  <2> QED BY <1>2, <2>1, <2>2, <2>6
<1>3. CASE ~(needSend + needRecv > 0 /\ Cardinality(P) < MaxPool)
  <2>1. /\ making' = Mimicry!Idle /\ managed' = TRUE
        /\ running' = (running /\ P # {})
        /\ told' = (told \/ (\E c \in P : c.up))
        /\ open' = open
    BY <1>1, <1>3 DEF Mimicry!Begin
  <2>2. running' \in BOOLEAN /\ told' \in BOOLEAN
    BY <2>1
  <2> QED BY <2>1, <2>2
<1> QED BY <1>2, <1>3

\* How many connections of a role are missing is at most what a role has.
LEMMA MissingRange ==
  ASSUME NEW P, IsFiniteSet(P), NEW status
  PROVE  Mimicry!Missing(P, status) \in 0..PerType
<1> DEFINE counted == {c \in P : /\ c.status = status
                                 /\ IF status = "sending" THEN c.send > MimicryLead
                                                          ELSE c.left > MimicryLead}
<1>1. IsFiniteSet(counted) /\ Cardinality(counted) \in Nat
  BY FS_Subset, FS_CardinalityType
<1>2. Mimicry!Counted(P, status) = Mimicry!Cardinality(counted)
  BY DEF Mimicry!Counted
<1> HIDE DEF counted
<1>3. Mimicry!Counted(P, status) \in Nat
  BY <1>1, <1>2, MimicrySets
<1> QED BY <1>3, MimicryFacts DEF Mimicry!Missing

\* Members of the pool that are replaced one by one, ids and all.
LEMMA ReplacedConnections ==
  ASSUME NEW P, P \subseteq pool, MimicryInv, NEW f, NEW Q,
         \A q \in Q : \E c \in P : q = f[c],
         \A c \in P : f[c] \in Q /\ f[c] \in Mimicry!Connection /\ f[c].id = c.id
  PROVE  /\ Q \subseteq Mimicry!Connection
         /\ IsFiniteSet(Q) /\ Cardinality(Q) \in Nat /\ Cardinality(Q) <= Cardinality(pool)
         /\ \A c, d \in Q : c.id = d.id => c = d
         /\ Mimicry!IdsIn(Q) = Mimicry!IdsIn(P)
<1>1. IsFiniteSet(P) /\ Cardinality(P) \in Nat /\ Cardinality(P) <= Cardinality(pool)
  BY SomePool
<1>2. IsFiniteSet(Q) /\ Cardinality(Q) <= Cardinality(P)
  <2>1. Q = {f[c] : c \in P}
    OBVIOUS
  <2> QED BY <1>1, <2>1, ImageBound
<1>3. Cardinality(Q) \in Nat /\ Cardinality(pool) \in Nat
  BY <1>2, SomePool, FS_CardinalityType
<1>4. \A c, d \in Q : c.id = d.id => c = d
  BY DEF MimicryInv, DistinctIds
<1>5. Mimicry!IdsIn(Q) = Mimicry!IdsIn(P)
  BY DEF Mimicry!IdsIn
<1> QED BY <1>1, <1>2, <1>3, <1>4, <1>5

LEMMA ReplacedPool ==
  ASSUME MimicryInv, NEW f, NEW Q,
         \A q \in Q : \E c \in pool : q = f[c],
         \A c \in pool : f[c] \in Q /\ f[c] \in Mimicry!Connection /\ f[c].id = c.id
  PROVE  /\ Q \subseteq Mimicry!Connection
         /\ IsFiniteSet(Q) /\ Cardinality(Q) \in Nat /\ Cardinality(Q) <= Cardinality(pool)
         /\ \A c, d \in Q : c.id = d.id => c = d
         /\ Mimicry!IdsIn(Q) = Mimicry!IdsIn(pool)
<1> pool \subseteq pool
  OBVIOUS
<1> QED BY ReplacedConnections

\* The roles after UpdateConnectionsStatus: a change leads into a list.
LEMMA NextStatusFacts ==
  ASSUME NEW c, c.status \in {"creating", "sending", "receiving"}
  PROVE  /\ Mimicry!NextStatus(c) \in {"creating", "sending", "receiving"}
         /\ Mimicry!NextStatus(c) # c.status => Mimicry!NextStatus(c) \in {"sending", "receiving"}
BY DEF Mimicry!NextStatus, Mimicry!Due

\* A list follows the pool through the turn of the manager: the expired leave
\* it, those whose role changed leave it or enter it.
LEMMA ListFollows ==
  ASSUME MimicryInv, NEW status \in {"sending", "receiving"}, NEW list,
         list = Mimicry!IdsIn({c \in pool : c.status = status}),
         NEW alive, alive = pool \ Mimicry!Expired(pool)
  PROVE  LET moved == Mimicry!Moved(alive, "sending") \cup Mimicry!Moved(alive, "receiving")
         IN  (Mimicry!ListsDrop(list, Mimicry!Expired(pool)) \ moved)
               \cup Mimicry!Moved(alive, status)
             = Mimicry!IdsIn({c \in alive : Mimicry!NextStatus(c) = status})
<1> DEFINE dead == Mimicry!Expired(pool)
           moved == Mimicry!Moved(alive, "sending") \cup Mimicry!Moved(alive, "receiving")
           left == (Mimicry!ListsDrop(list, dead) \ moved) \cup Mimicry!Moved(alive, status)
           right == Mimicry!IdsIn({c \in alive : Mimicry!NextStatus(c) = status})
<1>1. \A c, d \in pool : c.id = d.id => c = d
  BY DEF MimicryInv, DistinctIds
<1>2. alive \subseteq pool /\ dead \subseteq pool /\ alive \cap dead = {} /\ pool = alive \cup dead
  BY DEF Mimicry!Expired
<1>3. \A c \in alive : /\ Mimicry!NextStatus(c) # c.status
                          => Mimicry!NextStatus(c) \in {"sending", "receiving"}
  BY <1>2, ConnectionFields, NextStatusFacts DEF MimicryInv
<1>4. \A i : i \in moved <=> \E c \in alive : i = c.id /\ Mimicry!NextStatus(c) # c.status
  BY <1>3 DEF Mimicry!Moved, Mimicry!IdsIn
<1>5. \A i : i \in Mimicry!Moved(alive, status)
               <=> \E c \in alive : /\ i = c.id /\ Mimicry!NextStatus(c) # c.status
                                    /\ Mimicry!NextStatus(c) = status
  BY DEF Mimicry!Moved, Mimicry!IdsIn
<1>6. \A i : i \in Mimicry!ListsDrop(list, dead)
               <=> /\ \E c \in pool : i = c.id /\ c.status = status
                   /\ ~\E c \in dead : i = c.id
  BY DEF Mimicry!ListsDrop, Mimicry!IdsIn
<1>7. \A i : i \in right <=> \E c \in alive : i = c.id /\ Mimicry!NextStatus(c) = status
  BY DEF Mimicry!IdsIn
<1> HIDE DEF dead, moved, right
<1>8. ASSUME NEW i \in left PROVE i \in right
  <2>1. CASE i \in Mimicry!Moved(alive, status)
    BY <1>5, <1>7, <2>1
  <2>2. CASE i \in Mimicry!ListsDrop(list, dead) /\ i \notin moved
    <3>1. PICK c \in pool : i = c.id /\ c.status = status
      BY <1>6, <2>2
    <3>2. c \in alive
      BY <1>2, <1>6, <2>2, <3>1
    <3> QED BY <1>4, <1>7, <2>2, <3>1, <3>2
  <2> QED BY <1>8, <2>1, <2>2
<1>9. ASSUME NEW i \in right PROVE i \in left
  <2>1. PICK c \in alive : i = c.id /\ Mimicry!NextStatus(c) = status
    BY <1>7, <1>9
  <2>2. CASE Mimicry!NextStatus(c) # c.status
    BY <1>5, <2>1, <2>2
  <2>3. CASE Mimicry!NextStatus(c) = c.status
    <3>1. c \in pool /\ c.status = status
      BY <1>2, <2>1, <2>3
    <3>2. ~\E d \in dead : i = d.id
      BY <1>1, <1>2, <2>1
    <3>3. i \in Mimicry!ListsDrop(list, dead)
      BY <1>6, <2>1, <3>1, <3>2
    <3>4. i \notin moved
      BY <1>1, <1>2, <1>4, <2>1, <2>3
    <3> QED BY <3>3, <3>4
  <2> QED BY <2>2, <2>3
<1>10. left = right
  BY <1>8, <1>9
<1> QED BY <1>10 DEF left, right, moved, dead

LEMMA MimicryManageKeeps ==
  ASSUME MimicryInv, Mimicry!Manage
  PROVE  MimicryInv'
<1> DEFINE dead == Mimicry!Expired(pool)
           alive == pool \ dead
           moved == Mimicry!Moved(alive, "sending") \cup Mimicry!Moved(alive, "receiving")
           after == Mimicry!Updated(alive)
           moves(c) == [c EXCEPT !.status = Mimicry!NextStatus(c)]
           f == [c \in alive |-> moves(c)]
<1>1. /\ running /\ ~managed /\ making.stage = "none"
      /\ pool' = after
      /\ closing' = closing \cup Mimicry!IdsIn(dead)
      /\ senders' = (Mimicry!ListsDrop(senders, dead) \ moved) \cup Mimicry!Moved(alive, "sending")
      /\ receivers' = (Mimicry!ListsDrop(receivers, dead) \ moved)
                        \cup Mimicry!Moved(alive, "receiving")
      /\ Mimicry!Begin(after, Mimicry!Missing(after, "sending"), Mimicry!Missing(after, "receiving"))
      /\ failed' = failed /\ lost' = lost
  BY DEF Mimicry!Manage
<1>2. alive \subseteq pool /\ dead \subseteq pool /\ pool = alive \cup dead
  BY DEF Mimicry!Expired
<1>3. \A c \in alive : /\ moves(c) \in Mimicry!Connection
                       /\ moves(c).id = c.id /\ moves(c).status = Mimicry!NextStatus(c)
  <2> TAKE c \in alive
  <2>1. c \in Mimicry!Connection /\ c.status \in {"creating", "sending", "receiving"}
    BY ConnectionFields DEF MimicryInv
  <2>2. Mimicry!NextStatus(c) \in {"creating", "sending", "receiving"}
    BY <2>1, NextStatusFacts
  <2> QED BY <2>1, <2>2 DEF Mimicry!Connection
<1>4. after = {moves(c) : c \in alive}
  BY DEF Mimicry!Updated
<1> HIDE DEF moves
<1>5. /\ \A q \in after : \E c \in alive : q = f[c]
      /\ \A c \in alive : /\ f[c] \in after /\ f[c] \in Mimicry!Connection
                          /\ f[c].id = c.id /\ f[c].status = Mimicry!NextStatus(c)
  BY <1>3, <1>4
<1>6. /\ senders = Mimicry!IdsIn({c \in pool : c.status = "sending"})
      /\ receivers = Mimicry!IdsIn({c \in pool : c.status = "receiving"})
  BY DEF MimicryInv, Mimicry!ListsFollowPool
<1>7. /\ senders' = Mimicry!IdsIn({c \in alive : Mimicry!NextStatus(c) = "sending"})
      /\ receivers' = Mimicry!IdsIn({c \in alive : Mimicry!NextStatus(c) = "receiving"})
  BY <1>1, <1>6, ListFollows
<1> HIDE DEF f, alive, dead, moved, after
<1>8. /\ after \subseteq Mimicry!Connection
      /\ IsFiniteSet(after) /\ Cardinality(after) \in Nat /\ Cardinality(after) <= Cardinality(pool)
      /\ \A c, d \in after : c.id = d.id => c = d
      /\ Mimicry!IdsIn(after) = Mimicry!IdsIn(alive)
  <2>1. /\ \A q \in after : \E c \in alive : q = f[c]
        /\ \A c \in alive : f[c] \in after /\ f[c] \in Mimicry!Connection /\ f[c].id = c.id
    BY <1>5
  <2>2. alive \subseteq pool
    BY <1>2
  <2> QED BY <2>1, <2>2, ReplacedConnections, ZenonT(30)
<1>9. Mimicry!Idle = making /\ making.id = 0 /\ closing = {}
  BY <1>1 DEF MimicryInv, MakingFits, ClosedBefore, Mimicry!Idle
<1> DEFINE U == Mimicry!IdsIn(pool)
<1>10. /\ IsFiniteSet(pool) /\ Cardinality(pool) \in Nat /\ Cardinality(pool) <= MaxPool
       /\ MaxPool \in Nat \ {0}
  BY SomePool, MimicryFacts
<1>11. IsFiniteSet(U) /\ Cardinality(U) < 2 * MaxPool
  <2>1. IsFiniteSet(U) /\ Cardinality(U) <= Cardinality(pool) /\ Cardinality(U) \in Nat
    BY <1>10, ConnectionIds
  <2> HIDE DEF U
  <2> QED BY <1>10, <2>1
<1>12. Mimicry!Used \cap MimicryIds \subseteq U /\ open \subseteq U \cup {0} /\ 0 \notin MimicryIds
  <2>1. open \subseteq U \cup {0}
    BY <1>9 DEF MimicryInv, Mimicry!PoolOwnsOpen
  <2>2. 0 \notin MimicryIds
    BY MimicryFacts
  <2> QED BY <1>9, <2>1, <2>2 DEF Mimicry!Used
<1>13. \/ /\ making' \in Mimicry!Making /\ making'.stage # "none"
          /\ making'.id \in MimicryIds \ Mimicry!Used
          /\ Cardinality(after) < MaxPool
          /\ open' = open \cup {making'.id}
          /\ UNCHANGED <<running, told, managed>>
       \/ /\ making' = Mimicry!Idle /\ managed' = TRUE
          /\ running' \in BOOLEAN /\ told' \in BOOLEAN
          /\ open' = open
  <2>1. /\ Mimicry!Missing(after, "sending") \in 0..PerType
        /\ Mimicry!Missing(after, "receiving") \in 0..PerType
    BY <1>8, MissingRange
  <2> HIDE DEF U
  <2> QED BY <1>1, <1>11, <1>12, <2>1, BeginFacts
<1>14. Mimicry!IdsIn(alive) \cup Mimicry!IdsIn(dead) = U /\ U \subseteq MimicryIds
  BY <1>2, ConnectionFields DEF MimicryInv, Mimicry!IdsIn
<1> HIDE DEF U
<1>15. Mimicry!MimicryTypeOK'
  <2>1. senders' \subseteq MimicryIds /\ receivers' \subseteq MimicryIds
    BY <1>7, <1>14 DEF Mimicry!IdsIn
  <2>2. making' \in Mimicry!Making /\ open' \subseteq MimicryIds
    BY <1>13, IdleMaking DEF MimicryInv, Mimicry!MimicryTypeOK
  <2>3. closing' \subseteq MimicryIds
    BY <1>1, <1>14, <1>9
  <2>4. running' \in BOOLEAN /\ told' \in BOOLEAN /\ managed' \in BOOLEAN
    BY <1>13 DEF MimicryInv, Mimicry!MimicryTypeOK
  <2> QED BY <1>1, <1>8, <2>1, <2>2, <2>3, <2>4 DEF MimicryInv, Mimicry!MimicryTypeOK
<1>16. Mimicry!ListsFollowPool'
  <2>1. ASSUME NEW status \in {"sending", "receiving"}
        PROVE  Mimicry!IdsIn({c \in alive : Mimicry!NextStatus(c) = status})
                 = Mimicry!IdsIn({c \in after : c.status = status})
    BY <1>5 DEF Mimicry!IdsIn
  <2> QED BY <1>1, <1>7, <2>1 DEF Mimicry!ListsFollowPool, Mimicry!IdsIn
<1>17. Mimicry!PoolOwnsOpen'
  <2>1. Mimicry!Cardinality(pool') <= MaxPool
    <3>1. Cardinality(after) <= MaxPool
      BY <1>8, <1>10
    <3> QED BY <1>1, <3>1, MimicrySets
  <2>2. U \subseteq Mimicry!IdsIn(pool') \cup closing'
    BY <1>1, <1>8, <1>14
  <2>3. open' \subseteq U \cup {making'.id}
    BY <1>12, <1>13 DEF MimicryInv, Mimicry!MimicryTypeOK
  <2> QED BY <2>1, <2>2, <2>3 DEF Mimicry!PoolOwnsOpen
<1>18. DistinctIds'
  BY <1>1, <1>8 DEF DistinctIds
<1>19. MakingFits'
  <2>1. CASE making' = Mimicry!Idle
    BY <2>1 DEF MakingFits, Mimicry!Idle
  <2>2. CASE /\ making'.stage # "none" /\ making'.id \in MimicryIds \ Mimicry!Used
             /\ Cardinality(after) < MaxPool
    <3>1. Mimicry!IdsIn(pool') \subseteq Mimicry!Used
      BY <1>1, <1>8, <1>14 DEF Mimicry!Used, U
    <3> QED BY <1>1, <2>2, <3>1 DEF MakingFits
  <2> QED BY <1>13, <2>1, <2>2
<1>20. ClosedBefore'
  <2>1. closing' = Mimicry!IdsIn(dead)
    BY <1>1, <1>9
  <2>2. /\ IsFiniteSet(dead) /\ Cardinality(dead) \in Nat /\ Cardinality(dead) <= MaxPool
    BY <1>2, <1>10, SomePool
  <2>3. IsFiniteSet(closing') /\ Cardinality(closing') <= MaxPool
    BY <1>10, <2>1, <2>2, ConnectionIds
  <2>4. ~(making'.stage = "none" /\ ~managed')
    BY <1>13
  <2> QED BY <2>3, <2>4 DEF ClosedBefore
<1> QED BY <1>1, <1>8, <1>15, <1>16, <1>17, <1>18, <1>19, <1>20 DEF MimicryInv

\* The connection that is made was started.
LEMMA IsMadeKeeps ==
  ASSUME MimicryInv, Mimicry!IsMade
  PROVE  MimicryInv'
<1>1. /\ making.stage = "connecting"
      /\ making' = [making EXCEPT !.stage = "ready"]
      /\ UNCHANGED <<running, pool, senders, receivers, closing, open, told, managed,
                     failed, lost>>
  BY DEF Mimicry!IsMade
<1>2. making \in Mimicry!Making
  BY DEF MimicryInv, Mimicry!MimicryTypeOK
<1>3. making' \in Mimicry!Making /\ making'.stage = "ready" /\ making'.id = making.id
  BY <1>1, <1>2 DEF Mimicry!Making
<1>4. Mimicry!MimicryTypeOK'
  BY <1>1, <1>3 DEF MimicryInv, Mimicry!MimicryTypeOK
<1>5. Mimicry!ListsFollowPool' /\ Mimicry!PoolOwnsOpen'
  BY <1>1, <1>3 DEF MimicryInv, Mimicry!ListsFollowPool, Mimicry!PoolOwnsOpen
<1>6. MakingFits' /\ ClosedBefore' /\ DistinctIds'
  BY <1>1, <1>3 DEF MimicryInv, MakingFits, ClosedBefore, DistinctIds
<1> QED BY <1>1, <1>4, <1>5, <1>6 DEF MimicryInv

\* The creation that was begun is over, without a client.
LEMMA CreateFailsKeeps ==
  ASSUME MimicryInv, Mimicry!CreateFails
  PROVE  MimicryInv'
<1>1. /\ making.stage = "connecting"
      /\ failed < MaxFailed /\ failed' = failed + 1
      /\ open' = open \ {making.id} /\ making' = Mimicry!Idle
      /\ managed' = TRUE /\ running' = (pool # {}) /\ told' = (told \/ Mimicry!IsReady)
      /\ UNCHANGED <<pool, senders, receivers, closing, lost>>
  BY DEF Mimicry!CreateFails
<1>2. failed' \in 0..MaxFailed
  BY <1>1, MimicryFacts DEF MimicryInv, Mimicry!MimicryTypeOK
<1>3. Mimicry!MimicryTypeOK'
  <2>1. running' \in BOOLEAN /\ told' \in BOOLEAN /\ managed' \in BOOLEAN
    BY <1>1
  <2> QED BY <1>1, <1>2, <2>1, IdleMaking DEF MimicryInv, Mimicry!MimicryTypeOK
<1>4. Mimicry!ListsFollowPool' /\ Mimicry!PoolOwnsOpen'
  BY <1>1 DEF MimicryInv, Mimicry!ListsFollowPool, Mimicry!PoolOwnsOpen
<1>5. MakingFits' /\ ClosedBefore' /\ DistinctIds'
  BY <1>1 DEF MimicryInv, MakingFits, ClosedBefore, DistinctIds, Mimicry!Idle
<1> QED BY <1>1, <1>3, <1>4, <1>5 DEF MimicryInv

\* A connection enters the pool with an id that nothing in it has, and without
\* a role yet; the next one is begun or none.
LEMMA EnterPoolKeeps ==
  ASSUME MimicryInv, Mimicry!EnterPool
  PROVE  MimicryInv'
<1> DEFINE new == [id |-> making.id, status |-> "creating", send |-> making.send,
                   left |-> making.left, up |-> TRUE]
           after == pool \cup {new}
           U == Mimicry!IdsIn(after) \cup closing
<1>1. /\ making.stage = "ready" /\ pool' = after
      /\ Mimicry!Begin(after, making.needSend, making.needRecv)
      /\ UNCHANGED <<senders, receivers, closing, failed, lost>>
  BY DEF Mimicry!EnterPool
<1>2. /\ making.id \in MimicryIds /\ making.id \notin Mimicry!IdsIn(pool)
      /\ Cardinality(pool) < MaxPool
  BY <1>1 DEF MimicryInv, MakingFits
<1>3. /\ new \in Mimicry!Connection /\ new.id = making.id /\ new.status = "creating"
  BY <1>2, MakingFields DEF MimicryInv, Mimicry!Connection
<1> HIDE DEF new
<1>4. /\ IsFiniteSet(pool) /\ Cardinality(pool) \in Nat /\ MaxPool \in Nat \ {0}
  BY SomePool, MimicryFacts
<1>5. IsFiniteSet(after) /\ Cardinality(after) <= MaxPool /\ Cardinality(after) \in Nat
  <2>1. /\ IsFiniteSet(after)
        /\ Cardinality(after) = Cardinality(pool) \/ Cardinality(after) = Cardinality(pool) + 1
    BY <1>4, FS_AddElement
  <2> QED BY <1>2, <1>4, <2>1
<1>6. Mimicry!IdsIn(after) = Mimicry!IdsIn(pool) \cup {making.id}
  BY <1>3 DEF Mimicry!IdsIn
<1> HIDE DEF after
<1>7. IsFiniteSet(U) /\ (Cardinality(after) < MaxPool => Cardinality(U) < 2 * MaxPool)
  <2>1. /\ IsFiniteSet(Mimicry!IdsIn(after))
        /\ Cardinality(Mimicry!IdsIn(after)) <= Cardinality(after)
        /\ Cardinality(Mimicry!IdsIn(after)) \in Nat
    BY <1>5, ConnectionIds
  <2>2. IsFiniteSet(closing) /\ Cardinality(closing) <= MaxPool
    BY DEF MimicryInv, ClosedBefore
  <2>3. Cardinality(closing) \in Nat
    BY <2>2, FS_CardinalityType
  <2>4. /\ IsFiniteSet(U)
        /\ Cardinality(U) <= Cardinality(Mimicry!IdsIn(after)) + Cardinality(closing)
    <3>1. IsFiniteSet(Mimicry!IdsIn(after) \cap closing)
      BY <2>1, FS_Intersection
    <3>2. Cardinality(Mimicry!IdsIn(after) \cap closing) \in Nat
      BY <3>1, FS_CardinalityType
    <3>3. /\ IsFiniteSet(U)
          /\ Cardinality(U) = Cardinality(Mimicry!IdsIn(after)) + Cardinality(closing)
                                - Cardinality(Mimicry!IdsIn(after) \cap closing)
      BY <2>1, <2>2, FS_Union
    <3> HIDE DEF U
    <3> QED BY <2>1, <2>3, <3>2, <3>3
  <2>5. Cardinality(U) \in Nat
    BY <2>4, FS_CardinalityType
  <2> HIDE DEF U
  <2> QED BY <1>4, <1>5, <2>1, <2>2, <2>3, <2>4, <2>5
<1>8. Mimicry!Used \subseteq U
  BY <1>6 DEF MimicryInv, Mimicry!PoolOwnsOpen, Mimicry!Used
<1>9. \/ /\ making' \in Mimicry!Making /\ making'.stage # "none"
         /\ making'.id \in MimicryIds \ Mimicry!Used
         /\ Cardinality(after) < MaxPool
         /\ open' = open \cup {making'.id}
         /\ UNCHANGED <<running, told, managed>>
      \/ /\ making' = Mimicry!Idle /\ managed' = TRUE
         /\ running' \in BOOLEAN /\ told' \in BOOLEAN
         /\ open' = open
  <2>1. making.needSend \in 0..PerType /\ making.needRecv \in 0..PerType
    BY MakingFields DEF MimicryInv
  <2>2. Mimicry!Used \cap MimicryIds \subseteq U
    BY <1>8
  <2> HIDE DEF U
  <2> QED BY <1>1, <1>7, <2>1, <2>2, BeginFacts
<1>10. Mimicry!MimicryTypeOK'
  <2>1. making' \in Mimicry!Making /\ open' \subseteq MimicryIds
    BY <1>9, IdleMaking DEF MimicryInv, Mimicry!MimicryTypeOK
  <2>2. running' \in BOOLEAN /\ told' \in BOOLEAN /\ managed' \in BOOLEAN
    BY <1>9 DEF MimicryInv, Mimicry!MimicryTypeOK
  <2>3. pool' \subseteq Mimicry!Connection
    BY <1>1, <1>3 DEF MimicryInv, Mimicry!MimicryTypeOK, after
  <2> QED BY <1>1, <2>1, <2>2, <2>3 DEF MimicryInv, Mimicry!MimicryTypeOK
<1>11. Mimicry!ListsFollowPool'
  <2>1. ASSUME NEW status \in {"sending", "receiving"}
        PROVE  {c \in pool' : c.status = status} = {c \in pool : c.status = status}
    BY <1>1, <1>3, <2>1 DEF after
  <2> QED BY <1>1, <2>1 DEF MimicryInv, Mimicry!ListsFollowPool
<1>12. Mimicry!PoolOwnsOpen'
  <2>1. Mimicry!Cardinality(pool') <= MaxPool
    BY <1>1, <1>5, MimicrySets
  <2>2. open' \subseteq Mimicry!IdsIn(pool') \cup closing' \cup {making'.id}
    BY <1>1, <1>6, <1>9 DEF MimicryInv, Mimicry!PoolOwnsOpen
  <2> QED BY <2>1, <2>2 DEF Mimicry!PoolOwnsOpen
<1>13. DistinctIds'
  <2>1. \A c \in pool : c.id # new.id
    BY <1>2, <1>3 DEF Mimicry!IdsIn
  <2> QED BY <1>1, <2>1 DEF MimicryInv, DistinctIds, after
<1>14. MakingFits'
  <2>1. CASE making' = Mimicry!Idle
    BY <2>1 DEF MakingFits, Mimicry!Idle
  <2>2. CASE /\ making'.stage # "none" /\ making'.id \in MimicryIds \ Mimicry!Used
             /\ Cardinality(after) < MaxPool
    <3>1. making'.id \notin Mimicry!IdsIn(pool')
      BY <1>1, <1>6, <2>2 DEF Mimicry!Used
    <3> QED BY <1>1, <2>2, <3>1 DEF MakingFits
  <2> QED BY <1>9, <2>1, <2>2
<1>15. ClosedBefore'
  <2>1. ~(making'.stage = "none" /\ ~managed')
    BY <1>9
  <2> QED BY <1>1, <2>1 DEF MimicryInv, ClosedBefore
<1> QED BY <1>1, <1>5, <1>10, <1>11, <1>12, <1>13, <1>14, <1>15 DEF MimicryInv

\* A closing coroutine runs.
LEMMA MimicryCloseKeeps ==
  ASSUME MimicryInv, NEW id \in MimicryIds, Mimicry!CloseClient(id)
  PROVE  MimicryInv'
<1>1. /\ id \in closing /\ closing' = closing \ {id} /\ open' = open \ {id}
      /\ UNCHANGED <<running, pool, senders, receivers, making, told, managed, failed, lost>>
  BY DEF Mimicry!CloseClient
<1>2. Mimicry!MimicryTypeOK'
  BY <1>1 DEF MimicryInv, Mimicry!MimicryTypeOK
<1>3. Mimicry!ListsFollowPool' /\ Mimicry!PoolOwnsOpen'
  BY <1>1 DEF MimicryInv, Mimicry!ListsFollowPool, Mimicry!PoolOwnsOpen
<1>4. ClosedBefore'
  <2>1. /\ IsFiniteSet(closing) /\ closing' \subseteq closing
        /\ Cardinality(closing) <= MaxPool
    BY <1>1 DEF MimicryInv, ClosedBefore
  <2>2. /\ IsFiniteSet(closing') /\ Cardinality(closing') <= Cardinality(closing)
    BY <2>1, FS_Subset
  <2>3. Cardinality(closing') \in Nat /\ Cardinality(closing) \in Nat /\ MaxPool \in Nat
    BY <2>1, <2>2, FS_CardinalityType, MimicryFacts
  <2>4. Cardinality(closing') <= MaxPool
    BY <2>1, <2>2, <2>3
  <2> QED BY <1>1, <2>2, <2>4 DEF MimicryInv, ClosedBefore
<1>5. MakingFits' /\ DistinctIds'
  BY <1>1 DEF MimicryInv, MakingFits, DistinctIds
<1> QED BY <1>1, <1>2, <1>3, <1>4, <1>5 DEF MimicryInv

\* A pool whose members are others, with the same ids and roles, keeps all of
\* the invariant that a turn of the manager and its rest do not touch.
LEMMA PoolReplaced ==
  ASSUME MimicryInv,
         pool' \subseteq Mimicry!Connection, IsFiniteSet(pool'), Cardinality(pool') \in Nat,
         Cardinality(pool') <= Cardinality(pool),
         \A c, d \in pool' : c.id = d.id => c = d,
         Mimicry!IdsIn(pool') = Mimicry!IdsIn(pool),
         \A status : Mimicry!IdsIn({c \in pool' : c.status = status})
                       = Mimicry!IdsIn({c \in pool : c.status = status}),
         making' \in Mimicry!Making, making'.id = making.id, making'.stage = making.stage,
         making.stage = "none" => making' = making,
         managed' \in BOOLEAN, managed' \/ ~managed \/ closing = {}, lost' \in 0..MaxLost,
         UNCHANGED <<running, senders, receivers, closing, open, told, failed>>
  PROVE  MimicryInv'
<1>1. /\ Cardinality(pool) \in Nat /\ Cardinality(pool) <= MaxPool /\ MaxPool \in Nat
  BY SomePool, MimicryFacts
<1>2. Mimicry!MimicryTypeOK'
  BY DEF MimicryInv, Mimicry!MimicryTypeOK
<1>3. Mimicry!ListsFollowPool'
  BY DEF MimicryInv, Mimicry!ListsFollowPool
<1>4. Mimicry!PoolOwnsOpen'
  <2>1. Cardinality(pool') <= MaxPool
    BY <1>1
  <2>2. Mimicry!Cardinality(pool') <= MaxPool
    BY <2>1, MimicrySets
  <2> QED BY <2>2 DEF MimicryInv, Mimicry!PoolOwnsOpen
<1>5. DistinctIds'
  BY DEF DistinctIds
<1>6. MakingFits'
  <2>1. CASE making.stage = "none"
    BY <2>1 DEF MimicryInv, MakingFits
  <2>2. CASE making.stage # "none"
    <3>1. making.id \in MimicryIds \ Mimicry!IdsIn(pool) /\ Cardinality(pool) < MaxPool
      BY <2>2 DEF MimicryInv, MakingFits
    <3>2. Cardinality(pool') < MaxPool
      BY <1>1, <3>1
    <3> QED BY <2>2, <3>1, <3>2 DEF MakingFits
  <2> QED BY <2>1, <2>2
<1>7. ClosedBefore'
  BY DEF MimicryInv, ClosedBefore, Mimicry!MimicryTypeOK
<1> QED BY <1>2, <1>3, <1>4, <1>5, <1>6, <1>7 DEF MimicryInv

\* A connection that is lost stays where it is.
LEMMA MimicryLoseKeeps ==
  ASSUME MimicryInv, NEW k \in pool, Mimicry!Lose(k)
  PROVE  MimicryInv'
<1> DEFINE down == [k EXCEPT !.up = FALSE]
           f == [c \in pool |-> IF c = k THEN down ELSE c]
           after == pool'
<1>1. /\ lost < MaxLost /\ lost' = lost + 1
      /\ pool' = (pool \ {k}) \cup {down}
      /\ UNCHANGED <<running, senders, receivers, making, closing, open, told, managed, failed>>
  BY DEF Mimicry!Lose
<1>2. down \in Mimicry!Connection /\ down.id = k.id /\ down.status = k.status
  BY ConnectionFields DEF MimicryInv, Mimicry!Connection
<1> HIDE DEF down
<1>3. \A q \in after : \E c \in pool : q = f[c]
  BY <1>1
<1>4. \A c \in pool : /\ f[c] \in after /\ f[c] \in Mimicry!Connection
                       /\ f[c].id = c.id /\ f[c].status = c.status
  BY <1>1, <1>2, ConnectionFields DEF MimicryInv
<1> HIDE DEF f
<1>5. /\ after \subseteq Mimicry!Connection
      /\ IsFiniteSet(after) /\ Cardinality(after) \in Nat /\ Cardinality(after) <= Cardinality(pool)
      /\ \A c, d \in after : c.id = d.id => c = d
      /\ Mimicry!IdsIn(after) = Mimicry!IdsIn(pool)
  <2>1. /\ \A q \in after : \E c \in pool : q = f[c]
        /\ \A c \in pool : f[c] \in after /\ f[c] \in Mimicry!Connection /\ f[c].id = c.id
    BY <1>3, <1>4
  <2> HIDE DEF after
  <2> QED BY <2>1, ReplacedPool
<1>6. \A status : Mimicry!IdsIn({c \in after : c.status = status})
                    = Mimicry!IdsIn({c \in pool : c.status = status})
  BY <1>3, <1>4 DEF Mimicry!IdsIn
<1>7. lost' \in 0..MaxLost
  BY <1>1, MimicryFacts DEF MimicryInv, Mimicry!MimicryTypeOK
<1>8. /\ making' \in Mimicry!Making /\ managed' \in BOOLEAN
      /\ making'.id = making.id /\ making'.stage = making.stage /\ making' = making
  BY <1>1 DEF MimicryInv, Mimicry!MimicryTypeOK
<1>9. managed' \/ ~managed \/ closing = {}
  BY <1>1 DEF MimicryInv, Mimicry!MimicryTypeOK
<1> QED BY <1>1, <1>5, <1>6, <1>7, <1>8, <1>9, PoolReplaced

\* A tick brings every deadline one closer.
LEMMA MimicryTickKeeps ==
  ASSUME MimicryInv, Mimicry!Tick
  PROVE  MimicryInv'
<1> DEFINE aged(c) == [c EXCEPT !.send = Mimicry!Less(@), !.left = Mimicry!Less(@)]
           f == [c \in pool |-> aged(c)]
           after == pool'
<1>1. /\ closing = {} /\ pool' = {aged(c) : c \in pool}
      /\ IF making.stage = "none" THEN managed
           ELSE making.stage = "connecting" /\ making.age < MimicryMax
      /\ making' = IF making.stage = "none" THEN making
                     ELSE [making EXCEPT !.send = Mimicry!Less(@), !.left = Mimicry!Less(@),
                                         !.age = @ + 1]
      /\ managed' = FALSE
      /\ UNCHANGED <<running, senders, receivers, closing, open, told, failed, lost>>
  BY DEF Mimicry!Tick
<1>2. \A n \in 0..Mimicry!Longest : Mimicry!Less(n) \in 0..Mimicry!Longest
  BY MimicryFacts DEF Mimicry!Less
<1>3. \A c \in pool : /\ aged(c) \in Mimicry!Connection
                       /\ aged(c).id = c.id /\ aged(c).status = c.status
  <2> TAKE c \in pool
  <2>1. /\ c \in Mimicry!Connection
        /\ Mimicry!Less(c.send) \in 0..Mimicry!Longest
        /\ Mimicry!Less(c.left) \in 0..Mimicry!Longest
    BY <1>2, ConnectionFields DEF MimicryInv
  <2> QED BY <2>1 DEF Mimicry!Connection
<1> HIDE DEF aged
<1>4. /\ \A q \in after : \E c \in pool : q = f[c]
      /\ \A c \in pool : /\ f[c] \in after /\ f[c] \in Mimicry!Connection
                          /\ f[c].id = c.id /\ f[c].status = c.status
  BY <1>1, <1>3
<1> HIDE DEF f
<1>5. /\ after \subseteq Mimicry!Connection
      /\ IsFiniteSet(after) /\ Cardinality(after) \in Nat /\ Cardinality(after) <= Cardinality(pool)
      /\ \A c, d \in after : c.id = d.id => c = d
      /\ Mimicry!IdsIn(after) = Mimicry!IdsIn(pool)
  <2>1. /\ \A q \in after : \E c \in pool : q = f[c]
        /\ \A c \in pool : f[c] \in after /\ f[c] \in Mimicry!Connection /\ f[c].id = c.id
    BY <1>4
  <2> HIDE DEF after
  <2> QED BY <2>1, ReplacedPool
<1>6. \A status : Mimicry!IdsIn({c \in after : c.status = status})
                    = Mimicry!IdsIn({c \in pool : c.status = status})
  BY <1>4 DEF Mimicry!IdsIn
<1>7. /\ making' \in Mimicry!Making /\ making'.id = making.id
      /\ making'.stage = making.stage
      /\ making.stage = "none" => making' = making
  <2>1. making \in Mimicry!Making
    BY DEF MimicryInv, Mimicry!MimicryTypeOK
  <2>2. CASE making.stage = "none"
    BY <1>1, <2>1, <2>2
  <2>3. CASE making.stage # "none"
    <3>1. /\ Mimicry!Less(making.send) \in 0..Mimicry!Longest
          /\ Mimicry!Less(making.left) \in 0..Mimicry!Longest
      BY <1>2, MakingFields DEF MimicryInv
    <3>2. making.age + 1 \in 0..MimicryMax
      BY <1>1, <2>3, MakingFields, MimicryFacts DEF MimicryInv
    <3>3. making' = [making EXCEPT !.send = Mimicry!Less(@), !.left = Mimicry!Less(@),
                                   !.age = @ + 1]
      BY <1>1, <2>3
    <3> QED BY <2>1, <2>3, <3>1, <3>2, <3>3 DEF Mimicry!Making
  <2> QED BY <2>2, <2>3
<1>8. managed' \in BOOLEAN /\ lost' \in 0..MaxLost
  BY <1>1 DEF MimicryInv, Mimicry!MimicryTypeOK
<1> QED BY <1>1, <1>5, <1>6, <1>7, <1>8, PoolReplaced

\* Stop empties the pool; what is closing or made goes on.
LEMMA MimicryStopKeeps ==
  ASSUME MimicryInv, Mimicry!Stop
  PROVE  MimicryInv'
<1>1. /\ running' = FALSE /\ open' = open \ Mimicry!IdsIn(pool)
      /\ pool' = {} /\ senders' = {} /\ receivers' = {}
      /\ UNCHANGED <<making, closing, told, managed, failed, lost>>
  BY DEF Mimicry!Stop
<1>2. IsFiniteSet({}) /\ Cardinality({}) = 0 /\ 0 < MaxPool
  BY FS_EmptySet, MimicryFacts
<1>3. Mimicry!MimicryTypeOK'
  BY <1>1 DEF MimicryInv, Mimicry!MimicryTypeOK
<1>4. Mimicry!ListsFollowPool'
  BY <1>1 DEF Mimicry!ListsFollowPool, Mimicry!IdsIn
<1>5. Mimicry!PoolOwnsOpen'
  <2>1. Mimicry!Cardinality(pool') <= MaxPool
    BY <1>1, <1>2, MimicrySets, MimicryFacts
  <2> QED BY <1>1, <2>1 DEF MimicryInv, Mimicry!PoolOwnsOpen
<1>6. MakingFits' /\ ClosedBefore' /\ DistinctIds'
  BY <1>1, <1>2 DEF MimicryInv, MakingFits, ClosedBefore, DistinctIds, Mimicry!IdsIn
<1> QED BY <1>1, <1>2, <1>3, <1>4, <1>5, <1>6 DEF MimicryInv

LEMMA MimicryStep ==
  ASSUME MimicryInv, Mimicry!MimicryNext
  PROVE  MimicryInv'
<1>1. CASE Mimicry!Manage
  BY <1>1, MimicryManageKeeps
<1>2. CASE Mimicry!IsMade
  BY <1>2, IsMadeKeeps
<1>3. CASE Mimicry!CreateFails
  BY <1>3, CreateFailsKeeps
<1>4. CASE Mimicry!EnterPool
  BY <1>4, EnterPoolKeeps
<1>5. CASE \E id \in MimicryIds : Mimicry!CloseClient(id)
  BY <1>5, MimicryCloseKeeps
<1>6. CASE \E c \in pool : Mimicry!Lose(c)
  BY <1>6, MimicryLoseKeeps
<1>7. CASE Mimicry!Tick
  BY <1>7, MimicryTickKeeps
<1>8. CASE Mimicry!Stop
  BY <1>8, MimicryStopKeeps
<1> QED
  BY <1>1, <1>2, <1>3, <1>4, <1>5, <1>6, <1>7, <1>8 DEF Mimicry!MimicryNext, Mimicry!MakeStep
-----------------------------------------------------------------------------
(* One client: the invariant *)

\* What the flags tell of the coroutines: they begin when the client is
\* initialised, which nothing of connecting comes after, and one that is over
\* has taken back the mark of a connected client.
ClientInv ==
  /\ Client!ClientTypeOK
  /\ flags.inited => phase \in {"up", "failed"}
  /\ reader # "none" \/ sender # "none" => flags.inited
  /\ reader = "over" \/ sender = "over" => ~flags.connected

Flags == [running : BOOLEAN, connected : BOOLEAN, stopped : BOOLEAN, inited : BOOLEAN]

LEMMA ClientStart == ASSUME Client!ClientInit PROVE ClientInv
<1>1. MaxQueue \in Nat \ {0}
  BY PartsAssumption DEF Client!QueueAssumption
<1>2. Client!ClientTypeOK
  <2>1. flags \in Flags
    BY DEF Client!ClientInit, Flags
  <2>2. queue \in 0..MaxQueue
    BY <1>1 DEF Client!ClientInit
  <2> QED BY <2>1, <2>2 DEF Client!ClientInit, Client!ClientTypeOK, Client!Phases, Flags
<1> QED BY <1>2 DEF Client!ClientInit, ClientInv

\* A client that stops says so in three flags and keeps the fourth.
LEMMA StoppedFlags ==
  ASSUME ClientInv
  PROVE  /\ flags \in Flags
         /\ Client!MarkStopped \in Flags
         /\ Client!MarkStopped.inited = flags.inited
         /\ Client!MarkStopped.connected = FALSE
BY DEF ClientInv, Client!ClientTypeOK, Client!MarkStopped, Flags

\* The teardown wakes a sender that waits, and does nothing else to it.
LEMMA TeardownFacts ==
  ASSUME ClientInv, Client!DoStop \/ Client!CancelAndClose
  PROVE  /\ link' \in {"none", "open", "down", "closed"}
         /\ sender' \in {"none", "ready", "receiving", "writing", "over"}
         /\ sender' # "none" => sender # "none"
         /\ sender' = "over" => sender = "over"
<1>1. CASE Client!CancelAndClose
  BY <1>1 DEF ClientInv, Client!ClientTypeOK, Client!CancelAndClose
<1>2. CASE Client!DoStop /\ ~Client!CancelAndClose
  BY <1>2 DEF ClientInv, Client!ClientTypeOK, Client!DoStop
<1> QED BY <1>1, <1>2

LEMMA ConnectingKeeps ==
  ASSUME ClientInv,
         Client!Run \/ Client!Advance \/ Client!BecomeUp \/ Client!ConnectFails
  PROVE  ClientInv'
<1>1. /\ flags \in Flags /\ Client!MarkStopped \in Flags
      /\ Client!MarkStopped.inited = flags.inited /\ Client!MarkStopped.connected = FALSE
  BY StoppedFlags
<1>2. CASE Client!Run
  <2>1. /\ phase = "new" /\ phase' = "spawned"
        /\ flags' = [flags EXCEPT !.running = TRUE]
        /\ UNCHANGED <<torn, stopper, posted, reader, sender, watchdog, queue, link,
                       held, driven, gone>>
    BY <1>2 DEF Client!Run
  <2>2. flags' \in Flags /\ flags'.inited = flags.inited /\ flags'.connected = flags.connected
    BY <1>1, <2>1 DEF Flags
  <2> QED BY <2>1, <2>2 DEF ClientInv, Client!ClientTypeOK, Client!Phases, Flags
<1>3. CASE Client!Advance
  <2>1. /\ phase \notin {"up", "failed"} /\ phase' \in Client!Phases
        /\ link' = IF phase = "tcp" THEN "open" ELSE link
        /\ flags' = IF phase = "websocket" THEN [flags EXCEPT !.connected = TRUE] ELSE flags
        /\ UNCHANGED <<torn, stopper, posted, reader, sender, watchdog, queue, held,
                       driven, gone>>
    BY <1>3 DEF Client!Advance, Client!PerformFakeHandshake, Client!After, Client!Phases
  <2>2. flags' \in Flags /\ flags'.inited = flags.inited
    BY <1>1, <2>1 DEF Flags
  <2>3. ~flags.inited /\ reader = "none" /\ sender = "none"
    BY <2>1 DEF ClientInv
  <2> QED BY <2>1, <2>2, <2>3 DEF ClientInv, Client!ClientTypeOK, Flags
<1>4. CASE Client!BecomeUp
  <2>1. /\ phase' = "up" /\ watchdog' = flags.running
        /\ flags' = [flags EXCEPT !.inited = TRUE]
        /\ reader' = "ready" /\ sender' = "ready"
        /\ UNCHANGED <<torn, stopper, posted, queue, link, held, driven, gone>>
    BY <1>4 DEF Client!BecomeUp, Client!ReceiveIPAssignment
  <2>2. flags' \in Flags /\ flags'.inited /\ watchdog' \in BOOLEAN
    BY <1>1, <2>1 DEF Flags
  <2> QED BY <2>1, <2>2 DEF ClientInv, Client!ClientTypeOK, Client!Phases, Flags
<1>5. CASE Client!ConnectFails
  <2>1. /\ phase \notin {"new", "spawned", "up", "failed"} /\ phase' = "failed"
        /\ Client!StopHere
        /\ UNCHANGED <<stopper, posted, reader, queue, held, driven, gone>>
    BY <1>5 DEF Client!ConnectFails, Client!Connecting
  <2>2. ~flags.inited /\ reader = "none" /\ sender = "none"
    BY <2>1 DEF ClientInv
  <2>3. CASE flags.running
    <3>1. flags' = Client!MarkStopped /\ Client!DoStop
      BY <2>1, <2>3 DEF Client!StopHere
    <3>2. /\ link' \in {"none", "open", "down", "closed"} /\ sender' = "none"
      BY <2>2, <3>1, TeardownFacts
    <3>3. torn' \in BOOLEAN /\ watchdog' \in BOOLEAN
      BY <3>1 DEF Client!DoStop, ClientInv, Client!ClientTypeOK
    <3> QED BY <1>1, <2>1, <2>2, <3>1, <3>2, <3>3
            DEF ClientInv, Client!ClientTypeOK, Client!Phases, Flags
  <2>4. CASE ~flags.running
    <3>1. UNCHANGED <<flags, torn, watchdog, sender, link>>
      BY <2>1, <2>4 DEF Client!StopHere
    <3> QED BY <2>1, <3>1 DEF ClientInv, Client!ClientTypeOK, Client!Phases
  <2> QED BY <2>3, <2>4
<1> QED BY <1>2, <1>3, <1>4, <1>5

LEMMA StoppingKeeps ==
  ASSUME ClientInv,
         \/ Client!Stop \/ Client!PostTeardown \/ Client!Teardown \/ Client!WatchdogFires
         \/ Client!Destroy
  PROVE  ClientInv'
<1>1. /\ flags \in Flags /\ Client!MarkStopped \in Flags
      /\ Client!MarkStopped.inited = flags.inited /\ Client!MarkStopped.connected = FALSE
  BY StoppedFlags
<1>2. CASE Client!Stop
  <2>1. /\ flags' = Client!MarkStopped /\ stopper' = "marked"
        /\ UNCHANGED <<torn, posted, phase, reader, sender, watchdog, queue, link,
                       held, driven, gone>>
    BY <1>2 DEF Client!Stop
  <2> QED BY <1>1, <2>1 DEF ClientInv, Client!ClientTypeOK, Flags
<1>3. CASE Client!PostTeardown
  BY <1>3 DEF ClientInv, Client!ClientTypeOK, Client!PostTeardown
<1>4. CASE Client!Teardown
  <2>1. /\ posted' = FALSE /\ Client!DoStop
        /\ UNCHANGED <<flags, stopper, phase, reader, queue, held, driven, gone>>
    BY <1>4 DEF Client!Teardown
  <2>2. torn' \in BOOLEAN /\ watchdog' \in BOOLEAN
    BY <2>1 DEF Client!DoStop, ClientInv, Client!ClientTypeOK
  <2> QED BY <2>1, <2>2, TeardownFacts DEF ClientInv, Client!ClientTypeOK
<1>5. CASE Client!WatchdogFires
  <2>1. UNCHANGED <<stopper, posted, phase, reader, queue, held, driven, gone>>
    BY <1>5 DEF Client!WatchdogFires
  <2>2. CASE flags.running /\ flags.connected
    <3>1. UNCHANGED <<flags, torn, watchdog, sender, link>>
      BY <1>5, <2>2 DEF Client!WatchdogFires, Client!StillStanding
    <3> QED BY <2>1, <3>1 DEF ClientInv, Client!ClientTypeOK
  <2>3. CASE flags.running /\ ~flags.connected
    <3>1. /\ watchdog' = FALSE /\ flags' = Client!MarkStopped /\ torn' = TRUE
          /\ Client!CancelAndClose
      BY <1>5, <2>3 DEF Client!WatchdogFires
    <3> QED BY <1>1, <2>1, <3>1, TeardownFacts DEF ClientInv, Client!ClientTypeOK, Flags
  <2>4. CASE ~flags.running
    <3>1. watchdog' \in BOOLEAN /\ UNCHANGED <<flags, torn, sender, link>>
      BY <1>5, <2>4 DEF Client!WatchdogFires
    <3>2. Client!ClientTypeOK'
      BY <2>1, <3>1 DEF ClientInv, Client!ClientTypeOK
    <3> QED BY <2>1, <3>1, <3>2 DEF ClientInv
  <2> QED BY <2>2, <2>3, <2>4
<1>6. CASE Client!Destroy
  <2>1. /\ flags' = Client!MarkStopped
        /\ gone' = TRUE /\ torn' = TRUE /\ posted' = FALSE /\ watchdog' = FALSE
        /\ link' = IF link = "none" THEN "none" ELSE "closed"
        /\ phase' = IF Client!Connecting THEN "failed" ELSE phase
        /\ reader' = IF reader = "none" THEN "none" ELSE "over"
        /\ sender' = IF sender = "none" THEN "none" ELSE "over"
        /\ UNCHANGED <<stopper, queue, held, driven>>
    BY <1>6 DEF Client!Destroy
  <2>2. Client!ClientTypeOK'
    BY <1>1, <2>1 DEF ClientInv, Client!ClientTypeOK, Client!Phases, Flags
  <2> QED BY <1>1, <2>1, <2>2 DEF ClientInv, Client!Connecting
<1> QED BY <1>2, <1>3, <1>4, <1>5, <1>6

\* A coroutine that ends takes back the mark of a connected client.
LEMMA WorkingKeeps ==
  ASSUME ClientInv, Client!ReaderTurn \/ Client!SenderTurn
  PROVE  ClientInv'
<1>1. flags \in Flags
  BY StoppedFlags
<1> DEFINE off == [flags EXCEPT !.connected = FALSE]
<1>2. off \in Flags /\ off.inited = flags.inited /\ off.connected = FALSE
  BY <1>1 DEF Flags
<1>3. CASE Client!ReaderTurn
  <2>1. /\ UNCHANGED <<torn, stopper, posted, phase, sender, watchdog, queue, link,
                       held, driven, gone>>
        /\ reader \in {"ready", "reading"}
        /\ \/ reader' \in {"ready", "reading"} /\ flags' = flags
           \/ reader' = "over" /\ flags' = off
    BY <1>3 DEF Client!ReaderTurn
  <2> HIDE DEF off
  <2>2. CASE reader' \in {"ready", "reading"} /\ flags' = flags
    <3>1. Client!ClientTypeOK'
      BY <2>1, <2>2 DEF ClientInv, Client!ClientTypeOK
    <3> QED BY <2>1, <2>2, <3>1 DEF ClientInv
  <2>3. CASE reader' = "over" /\ flags' = off
    BY <1>2, <2>1, <2>3 DEF ClientInv, Client!ClientTypeOK, Flags
  <2> QED BY <2>1, <2>2, <2>3
<1>4. CASE Client!SenderTurn
  <2>1. /\ UNCHANGED <<torn, stopper, posted, phase, reader, watchdog, link,
                       held, driven, gone>>
        /\ sender \in {"ready", "receiving", "writing"}
        /\ queue' = queue \/ queue' = 0
        /\ \/ sender' \in {"ready", "receiving", "writing"} /\ flags' = flags
           \/ sender' = "over" /\ flags' = off
    BY <1>4 DEF Client!SenderTurn, Client!LeaveLoop
  <2>2. queue' \in 0..MaxQueue
    BY <2>1, PartsAssumption DEF ClientInv, Client!ClientTypeOK, Client!QueueAssumption
  <2> HIDE DEF off
  <2>3. CASE sender' \in {"ready", "receiving", "writing"} /\ flags' = flags
    <3>1. Client!ClientTypeOK'
      BY <2>1, <2>2, <2>3 DEF ClientInv, Client!ClientTypeOK
    <3> QED BY <2>1, <2>3, <3>1 DEF ClientInv
  <2>4. CASE sender' = "over" /\ flags' = off
    BY <1>2, <2>1, <2>2, <2>4 DEF ClientInv, Client!ClientTypeOK, Flags
  <2> QED BY <2>1, <2>3, <2>4
<1> QED BY <1>3, <1>4

LEMMA UsingKeeps ==
  ASSUME ClientInv, Client!Send \/ Client!Lose \/ Client!Release \/ Client!StopDriving
  PROVE  ClientInv'
<1>1. CASE Client!Send
  <2>1. queue < MaxQueue /\ queue' = queue + 1
    BY <1>1 DEF Client!Send
  <2>2. queue \in 0..MaxQueue /\ MaxQueue \in Nat
    BY PartsAssumption DEF ClientInv, Client!ClientTypeOK, Client!QueueAssumption
  <2>3. queue' \in 0..MaxQueue
    BY <2>1, <2>2
  <2> QED BY <1>1, <2>3 DEF ClientInv, Client!ClientTypeOK, Client!Send
<1>2. CASE Client!Lose
  BY <1>2 DEF ClientInv, Client!ClientTypeOK, Client!Lose
<1>3. CASE Client!Release
  <2>1. held' \in BOOLEAN /\ UNCHANGED <<flags, torn, stopper, posted, phase, reader, sender,
                                     watchdog, queue, link, driven, gone>>
    BY <1>3 DEF Client!Release
  <2>2. Client!ClientTypeOK'
    BY <2>1 DEF ClientInv, Client!ClientTypeOK
  <2> QED BY <2>1, <2>2 DEF ClientInv
<1>4. CASE Client!StopDriving
  <2>1. driven' \in BOOLEAN /\ UNCHANGED <<flags, torn, stopper, posted, phase, reader, sender,
                                       watchdog, queue, link, held, gone>>
    BY <1>4 DEF Client!StopDriving
  <2>2. Client!ClientTypeOK'
    BY <2>1 DEF ClientInv, Client!ClientTypeOK
  <2> QED BY <2>1, <2>2 DEF ClientInv
<1> QED BY <1>1, <1>2, <1>3, <1>4

LEMMA ClientStep ==
  ASSUME ClientInv, Client!ClientNext
  PROVE  ClientInv'
<1>1. CASE Client!Run \/ Client!ConnectStep
  BY <1>1, ConnectingKeeps DEF Client!ConnectStep
<1>2. CASE \/ Client!Stop \/ Client!PostTeardown \/ Client!Teardown
           \/ Client!WatchdogFires \/ Client!Destroy
  BY <1>2, StoppingKeeps
<1>3. CASE Client!ReaderTurn \/ Client!SenderTurn
  BY <1>3, WorkingKeeps
<1>4. CASE Client!Send \/ Client!Lose \/ Client!Release \/ Client!StopDriving
  BY <1>4, UsingKeeps
<1> QED BY <1>1, <1>2, <1>3, <1>4 DEF Client!ClientNext

LEMMA ClientServes == ASSUME ClientInv PROVE Client!StartedIsServed
BY DEF ClientInv, Client!StartedIsServed, Client!IsStarted
-----------------------------------------------------------------------------
(* The strategy that was chosen *)

TransportInv ==
  /\ kind \in Kinds
  /\ \A t \in Tunnels : kind = t => TunnelInv(t)
  /\ kind = "mimicry" => MimicryInv
  /\ kind = "client" => ClientInv

LEMMA TransportStart == Init => TransportInv
<1> SUFFICES ASSUME Init PROVE TransportInv
  OBVIOUS
<1>1. kind \in Kinds
  BY DEF Init
<1>2. CASE \E t \in Tunnels : kind = t /\ Tunnel(t)!Init
  BY <1>1, <1>2, TunnelInit DEF TransportInv, Tunnels
<1>3. CASE kind = "mimicry" /\ Mimicry!MimicryInit
  BY <1>1, <1>3, MimicryStart DEF TransportInv, Tunnels
<1>4. CASE kind = "client" /\ Client!ClientInit
  BY <1>1, <1>4, ClientStart DEF TransportInv, Tunnels
<1> QED BY <1>2, <1>3, <1>4 DEF Init

LEMMA TransportStep == TransportInv /\ [Next]_vars => TransportInv'
<1> SUFFICES ASSUME TransportInv, [Next]_vars PROVE TransportInv'
  OBVIOUS
<1>1. CASE (\E t \in Tunnels : kind = t /\ Tunnel(t)!Next) /\ OfTunnel
  <2>1. kind' = kind
    BY <1>1 DEF OfTunnel
  <2>2. PICK t \in Tunnels : kind = t /\ Tunnel(t)!Next
    BY <1>1
  <2>3. TunnelInv(t)'
    BY <2>2, TunnelStep DEF TransportInv
  <2> QED BY <2>1, <2>2, <2>3 DEF TransportInv, Tunnels
<1>2. CASE kind = "mimicry" /\ Mimicry!MimicryNext /\ OfMimicry
  <2>1. kind' = kind
    BY <1>2 DEF OfMimicry
  <2>2. MimicryInv'
    BY <1>2, MimicryStep DEF TransportInv
  <2> QED BY <1>2, <2>1, <2>2 DEF TransportInv, Tunnels
<1>3. CASE kind = "client" /\ Client!ClientNext /\ OfClient
  <2>1. kind' = kind
    BY <1>3 DEF OfClient
  <2>2. ClientInv'
    BY <1>3, ClientStep DEF TransportInv
  <2> QED BY <1>3, <2>1, <2>2 DEF TransportInv, Tunnels
<1>4. CASE UNCHANGED vars
  <2>1. UNCHANGED <<kind, running, pool, closing, open, managed, failed, lost, repair, since,
                    senders, receivers, making, told, flags, torn, stopper, posted, phase,
                    reader, sender, watchdog, queue, link, held, driven, gone>>
    BY <1>4 DEF vars, poolVars, tunnelVars, browserVars, clientVars
  <2>2. \A t \in Tunnels : TunnelInv(t) => TunnelInv(t)'
    BY <2>1 DEF TunnelInv, Tunnel!TypeOK, Tunnel!OpenAreOwned, Tunnel!ClosesOneAtATime,
                NoneOverdue, FewClosing, RepairFits
  <2>3. MimicryInv => MimicryInv'
    BY <2>1 DEF MimicryInv, Mimicry!MimicryTypeOK, Mimicry!ListsFollowPool,
                Mimicry!PoolOwnsOpen, DistinctIds, MakingFits, ClosedBefore
  <2>4. ClientInv => ClientInv'
    BY <2>1 DEF ClientInv, Client!ClientTypeOK
  <2> QED BY <2>1, <2>2, <2>3, <2>4 DEF TransportInv
<1> QED BY <1>1, <1>2, <1>3, <1>4 DEF Next

\* The strategy that was chosen keeps its invariant, whatever its template
\* arguments and its durations are.
THEOREM TransportInvariant == Spec => []TransportInv
BY TransportStart, TransportStep, PTL DEF Spec

\* Every variable has its type.
LEMMA TypesFollow == TransportInv => TransportTypeOK
BY DEF TransportInv, TransportTypeOK, TunnelInv, MimicryInv, ClientInv

\* No client is leaked: by a replacement, a loss, or a Stop between the two
\* halves of one, every client that is open is in the pool, about to enter it,
\* or closing (rolling_tunnel.h:301-335, browser_mimicry.cpp:235-248, 339-347).
THEOREM NoClientLeaks == Spec => []OpenAreOwned
<1>1. TransportInv => OpenAreOwned
  BY TypesFollow DEF TransportInv, OpenAreOwned, TunnelInv, MimicryInv
<1> QED BY <1>1, TransportInvariant, PTL

\* The deadlines of a rolling tunnel stay apart, for every life, lead and
\* stagger the template arguments may have (rolling_tunnel.h:345-346, 376-390).
THEOREM DeadlinesStayApart == Spec => []DeadlinesApart
<1>1. TransportInv => DeadlinesApart
  BY ReadyLives DEF TransportInv, DeadlinesApart, TunnelInv
<1> QED BY <1>1, TransportInvariant, PTL

\* A connection that Send may draw is in the pool with the role of its list,
\* and a client that says it is started has both its coroutines
\* (browser_mimicry.cpp:226-229, 272-290; websocket_client.cpp:643, 709).
THEOREM StartedServes == Spec => []StartedIsServed
<1>1. TransportInv => StartedIsServed
  BY ClientServes DEF TransportInv, StartedIsServed, MimicryInv
<1> QED BY <1>1, TransportInvariant, PTL
-----------------------------------------------------------------------------
(* Rolling tunnels: replacements come in time *)

\* The deadlines of started connections are further apart than the lead, so
\* that only one of them is due at a time.  A connection on its own is left
\* out: its deadline has nothing to be apart from.
SpacedOut(t) ==
  /\ \A ch, other \in Tunnel(t)!Started : ch # other => Apart(ch.left, other.left)
  /\ repair.stage # "none" /\ CountOf[t] > 1 =>
       \A ch \in Tunnel(t)!Started : Apart(ch.left, repair.left)

\* The ticks before a repair may start.
Wait(t) ==
  IF since < StaggerOf[t] THEN StaggerOf[t] - since ELSE IF managed THEN 1 ELSE 0

\* The ticks that the failures still to come may take.
Retries(t) == (MaxFailed - failed) * Tunnel(t)!Retry

\* The ticks until a connection that is due is replaced, at the latest.
Remaining(t, ch) ==
  IF repair.stage = "none"
    THEN Wait(t) + ConnectMax + Retries(t)
    ELSE ConnectMax - repair.age + Retries(t)
           + IF repair.replaced = ch.id THEN 0 ELSE Tunnel(t)!Retry

InTime(t) == \A ch \in Tunnel(t)!Started : ch.left <= Lead => Remaining(t, ch) < ch.left

\* Where there is one connection, it lives from the end of a repair to the
\* next one, and the stagger is over long before it is due.
AloneFits(t) ==
  CountOf[t] = 1 =>
    /\ repair.stage # "none" => repair.left + repair.age >= Lifetime
    /\ \A ch \in Tunnel(t)!Started : ch.left > Lead =>
         /\ repair.stage = "none"
         /\ since < StaggerOf[t] => ch.left + since + ConnectMax >= Lifetime

OnTime(t) == SpacedOut(t) /\ InTime(t) /\ AloneFits(t)

LEMMA RetryFacts ==
  ASSUME NEW t \in Tunnels
  PROVE  /\ Tunnel(t)!Retry \in Nat /\ Tunnel(t)!Retry > ConnectMax
         /\ Tunnel(t)!Retry >= ConnectMax + StaggerOf[t]
         /\ ConnectMax + MaxFailed * Tunnel(t)!Retry < Lead
         /\ CountOf[t] > 1 => ConnectMax + (MaxFailed + 1) * Tunnel(t)!Retry <= Lead
         /\ CountOf[t] = 1 => StaggerOf[t] + ConnectMax + Lead <= Lifetime
<1>1. StaggerOf[t] \in Nat /\ ConnectMax \in Nat
  BY TunnelFacts
<1>2. Tunnel(t)!LeadFits
  BY TimesAssumption
<1>3. Tunnel(t)!Retry = ConnectMax + IF StaggerOf[t] > 0 THEN StaggerOf[t] ELSE 1
  BY DEF Tunnel!Retry
<1>4. /\ ConnectMax + MaxFailed * Tunnel(t)!Retry < Lead
      /\ CountOf[t] > 1 => ConnectMax + (MaxFailed + 1) * Tunnel(t)!Retry <= Lead
      /\ CountOf[t] = 1 => StaggerOf[t] + ConnectMax + Lead <= Lifetime
  BY <1>2 DEF Tunnel!LeadFits
<1> QED BY <1>1, <1>3, <1>4

LEMMA Products ==
  ASSUME NEW k \in Nat, NEW m \in Nat, NEW n \in Nat, n <= m
  PROVE  /\ (m - n) * k \in Nat /\ (m - n) * k <= m * k
         /\ (m + 1) * k = m * k + k
         /\ n < m => (m - (n + 1)) * k + k = (m - n) * k
<1>1. (m + 1) * k = m * k + k
  OBVIOUS
<1>2. m - n \in Nat
  OBVIOUS
<1>3. \A d \in Nat : d * k \in Nat
  OBVIOUS
<1>4. m * k = (m - n) * k + n * k
  BY <1>2
<1>5. n < m => (m - (n + 1)) * k + k = (m - n) * k
  OBVIOUS
<1> QED BY <1>1, <1>2, <1>3, <1>4, <1>5

LEMMA RetriesFacts ==
  ASSUME NEW t \in Tunnels, Tunnel(t)!TypeOK
  PROVE  /\ Retries(t) \in Nat /\ ConnectMax + Retries(t) < Lead
         /\ CountOf[t] > 1 => ConnectMax + Retries(t) + Tunnel(t)!Retry <= Lead
<1>1. MaxFailed \in Nat /\ failed \in Nat /\ failed <= MaxFailed /\ ConnectMax \in Nat /\ Lead \in Nat
  BY TunnelFacts DEF Tunnel!TypeOK
<1> DEFINE k == Tunnel(t)!Retry
<1>2. /\ k \in Nat /\ ConnectMax + MaxFailed * k < Lead
      /\ CountOf[t] > 1 => ConnectMax + (MaxFailed + 1) * k <= Lead
  BY RetryFacts
<1>3. Retries(t) = (MaxFailed - failed) * k
  BY DEF Retries
<1> HIDE DEF k
<1>4. /\ (MaxFailed - failed) * k \in Nat /\ (MaxFailed - failed) * k <= MaxFailed * k
      /\ (MaxFailed + 1) * k = MaxFailed * k + k /\ MaxFailed * k \in Nat
  BY <1>1, <1>2, Products
<1>5. /\ Retries(t) \in Nat /\ ConnectMax + Retries(t) < Lead
      /\ CountOf[t] > 1 => ConnectMax + Retries(t) + k <= Lead
  BY <1>1, <1>2, <1>3, <1>4
<1> QED BY <1>5 DEF k

\* What the started connections are, and what is known of the counters.
LEMMA StartedFacts ==
  ASSUME NEW t \in Tunnels, TunnelInv(t)
  PROVE  /\ Tunnel(t)!Started \subseteq pool
         /\ \A ch \in Tunnel(t)!Started : ch.left \in Nat /\ ch.up
         /\ since \in Nat /\ since <= StaggerOf[t] /\ managed \in BOOLEAN
         /\ Wait(t) \in Nat
         /\ \A ch \in Tunnel(t)!Started : Remaining(t, ch) \in Nat
<1>1. Tunnel(t)!Started \subseteq pool /\ \A ch \in Tunnel(t)!Started : ch.left \in Nat /\ ch.up
  BY ChannelFields DEF TunnelInv, Tunnel!Started
<1>2. since \in Nat /\ since <= StaggerOf[t] /\ managed \in BOOLEAN /\ StaggerOf[t] \in Nat
  BY TunnelFacts DEF TunnelInv, Tunnel!TypeOK
<1>3. Wait(t) \in Nat
  BY <1>2 DEF Wait
<1>4. /\ Retries(t) \in Nat /\ Tunnel(t)!Retry \in Nat /\ ConnectMax \in Nat
      /\ repair.age \in Nat /\ repair.age <= ConnectMax
  BY RetriesFacts, RetryFacts, RepairFields, TunnelFacts DEF TunnelInv
<1>5. \A ch \in Tunnel(t)!Started : Remaining(t, ch) \in Nat
  BY <1>3, <1>4 DEF Remaining
<1> QED BY <1>1, <1>2, <1>3, <1>5

\* A pool of one has one connection, which is the one that a repair replaces.
LEMMA AloneInPool ==
  ASSUME NEW t \in Tunnels, TunnelInv(t), CountOf[t] = 1
  PROVE  /\ \A ch, other \in pool : ch = other
         /\ repair.stage # "none" => \A ch \in pool : ch.id = repair.replaced
<1>1. IsFiniteSet(pool) /\ Cardinality(pool) \in Nat /\ Cardinality(pool) <= 1
  BY SmallerPool
<1>2. \A ch, other \in pool : ch = other
  <2>1. CASE pool = {}
    BY <2>1
  <2>2. CASE pool # {}
    <3>1. Cardinality(pool) = 1
      BY <1>1, <2>2, FS_EmptySet
    <3>2. \E x : pool = {x}
      BY <1>1, <3>1, FS_Singleton
    <3> QED BY <3>2
  <2> QED BY <2>1, <2>2
<1>3. ASSUME repair.stage # "none", NEW ch \in pool PROVE ch.id = repair.replaced
  <2>1. repair.replaced \in Tunnel(t)!IdsOf(pool) \/ Cardinality(pool) < 1
    BY <1>3 DEF TunnelInv, RepairFits
  <2>2. Cardinality(pool) # 0
    BY <1>1, <1>3, FS_EmptySet
  <2>3. PICK other \in pool : repair.replaced = other.id
    BY <1>1, <2>1, <2>2 DEF Tunnel!IdsOf
  <2> QED BY <1>2, <1>3, <2>3
<1> QED BY <1>2, <1>3

\* Steps that start no connection and take no time.
LEMMA FewerStarted ==
  ASSUME NEW t \in Tunnels, OnTime(t), Tunnel(t)!Started' \subseteq Tunnel(t)!Started,
         repair'.stage = "none" <=> repair.stage = "none",
         repair'.left = repair.left, repair'.age = repair.age,
         repair'.replaced = repair.replaced,
         UNCHANGED <<since, managed, failed>>
  PROVE  OnTime(t)'
<1>1. SpacedOut(t)' /\ AloneFits(t)'
  BY DEF OnTime, SpacedOut, AloneFits, Apart
<1>2. Tunnel(t)!Retry' = Tunnel(t)!Retry
  BY DEF Tunnel!Retry
<1>3. Wait(t)' = Wait(t) /\ Retries(t)' = Retries(t)
  BY <1>2 DEF Wait, Retries
<1>4. \A ch : Remaining(t, ch)' = Remaining(t, ch)
  BY <1>2, <1>3 DEF Remaining
<1>5. InTime(t)'
  BY <1>4 DEF OnTime, InTime
<1> QED BY <1>1, <1>5 DEF OnTime

LEMMA OnTimeStart == ASSUME NEW t \in Tunnels, Tunnel(t)!Init PROVE OnTime(t)
<1>1. pool = {} /\ repair.stage = "none"
  BY DEF Tunnel!Init, Tunnel!NoRepair
<1> QED BY <1>1 DEF OnTime, SpacedOut, InTime, AloneFits, Tunnel!Started

LEMMA ManageOnTime ==
  ASSUME NEW t \in Tunnels, TunnelInv(t), OnTime(t), Tunnel(t)!Manage
  PROVE  OnTime(t)'
<1> DEFINE alive == {ch \in pool : ~Tunnel(t)!IsDead(ch)}
           healthy == {ch \in alive : ch.up /\ ch.left > Lead}
           new == Tunnel(t)!NextLifetime({ch.left : ch \in alive} \cap 1..Lifetime)
<1>1. /\ ~managed /\ pool' = alive /\ managed'
      /\ since' = since /\ failed' = failed
  BY DEF Tunnel!Manage
<1>2. \/ ~Tunnel(t)!NeedsRepair(alive) /\ UNCHANGED repair
      \/ /\ Tunnel(t)!NeedsRepair(alive)
         /\ repair' = [stage |-> "connecting", id |-> repair'.id, left |-> new, age |-> 0,
                       replaced |-> Tunnel(t)!ToReplace(alive)]
  BY DEF Tunnel!Manage
<1>3. alive \subseteq pool /\ \A ch \in alive : ch.up /\ ch.left > 0
  <2>1. \A ch \in pool : ch.left \in Nat
    BY ChannelFields DEF TunnelInv
  <2> QED BY <2>1 DEF Tunnel!IsDead
<1>4. Tunnel(t)!Started' = alive /\ alive \subseteq Tunnel(t)!Started
  BY <1>1, <1>3 DEF Tunnel!Started
<1>5. /\ \A ch \in alive : ch.left \in Nat
      /\ since \in Nat /\ since <= StaggerOf[t] /\ StaggerOf[t] \in Nat
      /\ Retries(t) \in Nat /\ ConnectMax \in Nat /\ Lead \in Nat /\ CountOf[t] \in Nat \ {0}
  BY <1>4, StartedFacts, RetriesFacts, TunnelFacts DEF TunnelInv
<1>6. Tunnel(t)!NeedsRepair(alive) <=>
        /\ repair.stage = "none"
        /\ Cardinality(healthy) < CountOf[t]
        /\ since >= StaggerOf[t]
  <2>1. healthy \subseteq pool
    BY <1>3
  <2>2. Tunnel(t)!Cardinality(healthy) = Cardinality(healthy)
    BY <2>1, SmallerPool
  <2> QED BY <2>2 DEF Tunnel!NeedsRepair, Tunnel!InFlight
<1>7. ASSUME NEW ch \in alive, ch.left <= Lead PROVE Cardinality(healthy) < CountOf[t]
  <2>1. healthy \subseteq pool /\ healthy # pool
    BY <1>3, <1>5, <1>7
  <2>2. Cardinality(pool) \in Nat /\ Cardinality(healthy) \in Nat
    BY <2>1, SmallerPool
  <2> HIDE DEF healthy
  <2> QED BY <1>5, <2>1, <2>2, SmallerPool
<1>8. Tunnel(t)!Retry' = Tunnel(t)!Retry /\ Retries(t)' = Retries(t)
  BY <1>1 DEF Tunnel!Retry, Retries
<1> HIDE DEF alive, new, healthy
<1>9. CASE ~Tunnel(t)!NeedsRepair(alive) /\ UNCHANGED repair
  <2>1. SpacedOut(t)' /\ AloneFits(t)'
    BY <1>1, <1>4, <1>9 DEF OnTime, SpacedOut, AloneFits, Apart
  <2>2. ASSUME NEW ch \in alive, ch.left <= Lead PROVE Remaining(t, ch)' = Remaining(t, ch)
    <3>1. repair.stage # "none" \/ since < StaggerOf[t]
      BY <1>5, <1>6, <1>7, <1>9, <2>2
    <3>2. since < StaggerOf[t] => Wait(t)' = Wait(t)
      BY <1>1 DEF Wait
    <3> QED BY <1>8, <1>9, <3>1, <3>2 DEF Remaining
  <2>3. InTime(t)'
    BY <1>4, <2>2 DEF OnTime, InTime
  <2> QED BY <2>1, <2>3 DEF OnTime
<1>10. CASE /\ Tunnel(t)!NeedsRepair(alive)
            /\ repair' = [stage |-> "connecting", id |-> repair'.id, left |-> new, age |-> 0,
                          replaced |-> Tunnel(t)!ToReplace(alive)]
  <2>1. /\ repair'.stage = "connecting" /\ repair'.left = new /\ repair'.age = 0
        /\ repair'.replaced = Tunnel(t)!ToReplace(alive)
    BY <1>10
  <2>2. /\ new \in Nat
        /\ CountOf[t] > 1 => \A ch \in alive : Apart(ch.left, new)
        /\ CountOf[t] = 1 => new = Lifetime
    BY <1>3, <1>10, RepairStartsFit DEF new
  <2>3. SpacedOut(t)'
    BY <1>4, <2>1, <2>2 DEF OnTime, SpacedOut, Apart
  <2>4. repair.stage = "none" /\ since >= StaggerOf[t] /\ Cardinality(healthy) < CountOf[t]
    BY <1>6, <1>10
  <2>5. ASSUME NEW ch \in alive, ch.left <= Lead PROVE Remaining(t, ch)' < ch.left
    <3>1. PICK other \in alive : other.left <= Lead /\ Tunnel(t)!ToReplace(alive) = other.id
      BY <1>3, <1>5, <2>5, ReplacesOneDue
    <3>2. ch = other
      <4>1. 0 < ch.left /\ 0 < other.left
        BY <1>3
      <4>2. ch # other => Apart(ch.left, other.left)
        BY <1>4 DEF OnTime, SpacedOut
      <4> QED BY <1>5, <2>5, <3>1, <4>1, <4>2 DEF Apart
    <3>3. Remaining(t, ch)' = ConnectMax + Retries(t)
      BY <1>5, <1>8, <2>1, <3>1, <3>2 DEF Remaining
    <3>4. Wait(t) = 0
      BY <1>1, <1>5, <2>4 DEF Wait
    <3>5. Remaining(t, ch) = ConnectMax + Retries(t)
      BY <1>5, <2>4, <3>4 DEF Remaining
    <3>6. Remaining(t, ch) < ch.left
      BY <1>4, <2>5 DEF OnTime, InTime
    <3> QED BY <3>3, <3>5, <3>6
  <2>6. InTime(t)'
    BY <1>4, <2>5 DEF InTime
  <2>7. AloneFits(t)'
    <3>1. CountOf[t] = 1 => healthy = {}
      <4>1. healthy \subseteq pool
        BY <1>3 DEF healthy
      <4>2. IsFiniteSet(healthy) /\ Cardinality(healthy) \in Nat
        BY <4>1, SmallerPool
      <4> QED BY <2>4, <4>2, FS_EmptySet
    <3>2. CountOf[t] = 1 => \A ch \in alive : ~(ch.left > Lead)
      BY <1>3, <3>1 DEF healthy
    <3>3. CountOf[t] = 1 => new + 0 >= Lifetime
      BY <2>2, TunnelFacts
    <3> QED BY <1>4, <2>1, <3>2, <3>3 DEF AloneFits
  <2> QED BY <2>3, <2>6, <2>7 DEF OnTime
<1> QED BY <1>2, <1>9, <1>10

LEMMA RepairPlacesOnTime ==
  ASSUME NEW t \in Tunnels, TunnelInv(t), OnTime(t), Tunnel(t)!RepairPlaces
  PROVE  OnTime(t)'
<1> DEFINE new == [id |-> repair.id, left |-> repair.left, up |-> TRUE]
           kept == {ch \in pool : ch.id # repair.replaced}
<1>1. /\ repair.stage = "ready" /\ pool' = kept \cup {new}
      /\ repair' = Tunnel(t)!NoRepair /\ since' = 0
      /\ managed' = managed /\ failed' = failed
  BY DEF Tunnel!RepairPlaces, Tunnel!RepairIdle
<1>2. repair'.stage = "none"
  BY <1>1 DEF Tunnel!NoRepair
<1>3. /\ \A ch \in Tunnel(t)!Started' : ch = new \/ ch \in kept
      /\ \A ch \in Tunnel(t)!Started' : ch # new => ch \in Tunnel(t)!Started /\ ch.id # repair.replaced
  BY <1>1 DEF Tunnel!Started
<1>4. /\ new.left = repair.left /\ repair.left \in Nat /\ repair.left > Lead
      /\ repair.age \in Nat /\ repair.age <= ConnectMax
  BY <1>1, RepairFields, ReadyLives DEF TunnelInv, Tunnel!LivesLongEnough
<1>5. /\ \A ch \in Tunnel(t)!Started : ch.left \in Nat
      /\ Retries(t) \in Nat /\ ConnectMax \in Nat /\ Lead \in Nat /\ CountOf[t] \in Nat \ {0}
      /\ StaggerOf[t] \in Nat /\ managed \in BOOLEAN /\ Lifetime \in Nat
  BY StartedFacts, RetriesFacts, TunnelFacts DEF TunnelInv
<1>6. CountOf[t] = 1 => kept = {}
  BY <1>1, AloneInPool
<1>7. Retries(t)' = Retries(t)
  BY <1>1 DEF Retries, Tunnel!Retry
<1> HIDE DEF new, kept
<1>8. SpacedOut(t)'
  <2> SUFFICES ASSUME NEW ch \in Tunnel(t)!Started', NEW other \in Tunnel(t)!Started', ch # other
               PROVE  Apart(ch.left, other.left)
    BY <1>2 DEF SpacedOut, Apart
  <2>1. CASE CountOf[t] = 1
    BY <1>3, <1>6, <2>1
  <2>2. CASE CountOf[t] > 1
    <3>1. \A c \in Tunnel(t)!Started : Apart(c.left, repair.left)
      BY <1>1, <2>2 DEF OnTime, SpacedOut
    <3>2. \A c, d \in Tunnel(t)!Started : c # d => Apart(c.left, d.left)
      BY DEF OnTime, SpacedOut
    <3> QED BY <1>3, <1>4, <3>1, <3>2 DEF Apart
  <2> QED BY <1>5, <2>1, <2>2
<1>9. InTime(t)'
  <2> SUFFICES ASSUME NEW ch \in Tunnel(t)!Started', ch.left <= Lead
               PROVE  Remaining(t, ch)' < ch.left
    BY DEF InTime
  <2>1. ch \in Tunnel(t)!Started /\ ch.id # repair.replaced
    BY <1>3, <1>4, <1>5
  <2>2. Remaining(t, ch) = ConnectMax - repair.age + Retries(t) + Tunnel(t)!Retry
    BY <1>1, <2>1 DEF Remaining
  <2>3. Remaining(t, ch) < ch.left
    BY <2>1 DEF OnTime, InTime
  <2>4. Wait(t)' = IF 0 < StaggerOf[t] THEN StaggerOf[t] - 0 ELSE IF managed THEN 1 ELSE 0
    BY <1>1 DEF Wait
  <2>5. Wait(t)' \in Nat /\ Wait(t)' + ConnectMax <= Tunnel(t)!Retry /\ Tunnel(t)!Retry \in Nat
    BY <1>5, <2>4, RetryFacts
  <2>6. Remaining(t, ch)' = Wait(t)' + ConnectMax + Retries(t)
    BY <1>2, <1>7 DEF Remaining
  <2> QED BY <1>4, <1>5, <2>1, <2>2, <2>3, <2>5, <2>6
<1>10. AloneFits(t)'
  <2>1. CountOf[t] = 1 => repair.left + repair.age >= Lifetime
    BY <1>1 DEF OnTime, AloneFits
  <2>2. CountOf[t] = 1 => repair.left + 0 + ConnectMax >= Lifetime
    BY <1>4, <1>5, <2>1
  <2>3. CountOf[t] = 1 => \A ch \in Tunnel(t)!Started' : ch.left = repair.left
    BY <1>3, <1>4, <1>6
  <2> QED BY <1>1, <1>2, <2>2, <2>3 DEF AloneFits
<1> QED BY <1>8, <1>9, <1>10 DEF OnTime

LEMMA RepairFailsOnTime ==
  ASSUME NEW t \in Tunnels, TunnelInv(t), OnTime(t), Tunnel(t)!RepairFails
  PROVE  OnTime(t)'
<1>1. /\ repair.stage = "connecting" /\ pool' = pool
      /\ repair' = Tunnel(t)!NoRepair /\ since' = 0
      /\ managed' = managed /\ failed' = failed + 1 /\ failed < MaxFailed
  BY DEF Tunnel!RepairFails, Tunnel!RepairIdle
<1>2. repair'.stage = "none" /\ Tunnel(t)!Started' = Tunnel(t)!Started
  BY <1>1 DEF Tunnel!NoRepair, Tunnel!Started
<1>3. SpacedOut(t)' /\ AloneFits(t)'
  BY <1>1, <1>2 DEF OnTime, SpacedOut, AloneFits, Apart
<1>4. Retries(t)' + Tunnel(t)!Retry = Retries(t) /\ Retries(t)' \in Nat /\ Tunnel(t)!Retry \in Nat
  <2> DEFINE k == Tunnel(t)!Retry
  <2>1. k \in Nat /\ MaxFailed \in Nat /\ failed \in Nat
    BY RetryFacts, TunnelFacts DEF TunnelInv, Tunnel!TypeOK
  <2>2. Retries(t) = (MaxFailed - failed) * k /\ Retries(t)' = (MaxFailed - (failed + 1)) * k
    BY <1>1 DEF Retries, Tunnel!Retry
  <2> HIDE DEF k
  <2>3. (MaxFailed - (failed + 1)) * k + k = (MaxFailed - failed) * k
    BY <1>1, <2>1, Products
  <2>4. (MaxFailed - (failed + 1)) * k \in Nat
    BY <1>1, <2>1, Products
  <2> QED BY <2>1, <2>2, <2>3, <2>4 DEF k
<1>5. /\ repair.age \in Nat /\ repair.age <= ConnectMax /\ ConnectMax \in Nat
      /\ StaggerOf[t] \in Nat /\ managed \in BOOLEAN
      /\ \A ch \in Tunnel(t)!Started : ch.left \in Nat
  BY RepairFields, StartedFacts, TunnelFacts DEF TunnelInv
<1>6. InTime(t)'
  <2> SUFFICES ASSUME NEW ch \in Tunnel(t)!Started, ch.left <= Lead
               PROVE  Remaining(t, ch)' < ch.left
    BY <1>2 DEF InTime
  <2>1. Remaining(t, ch) < ch.left
    BY DEF OnTime, InTime
  <2>2. Remaining(t, ch) = ConnectMax - repair.age + Retries(t)
                             + IF repair.replaced = ch.id THEN 0 ELSE Tunnel(t)!Retry
    BY <1>1 DEF Remaining
  <2>3. Wait(t)' = IF 0 < StaggerOf[t] THEN StaggerOf[t] - 0 ELSE IF managed THEN 1 ELSE 0
    BY <1>1 DEF Wait
  <2>4. Wait(t)' \in Nat /\ Wait(t)' + ConnectMax <= Tunnel(t)!Retry
    BY <1>5, <2>3, RetryFacts
  <2>5. Remaining(t, ch)' = Wait(t)' + ConnectMax + Retries(t)'
    BY <1>2 DEF Remaining
  <2> QED BY <1>4, <1>5, <2>1, <2>2, <2>4, <2>5
<1> QED BY <1>3, <1>6 DEF OnTime

LEMMA TickOnTime ==
  ASSUME NEW t \in Tunnels, TunnelInv(t), OnTime(t), Tunnel(t)!Tick
  PROVE  OnTime(t)'
<1> DEFINE older(ch) == [ch EXCEPT !.left = @ - 1]
<1>1. /\ managed /\ pool' = {older(ch) : ch \in pool}
      /\ repair' = IF repair.stage # "none"
                     THEN [repair EXCEPT !.left = @ - 1, !.age = @ + 1] ELSE repair
      /\ since' = IF since < StaggerOf[t] THEN since + 1 ELSE since
      /\ managed' = FALSE /\ failed' = failed
  BY DEF Tunnel!Tick, Tunnel!InFlight
<1>2. ASSUME NEW q \in Tunnel(t)!Started'
      PROVE  \E ch \in Tunnel(t)!Started : q.left = ch.left - 1 /\ q.id = ch.id /\ q = older(ch)
  <2>1. PICK ch \in pool : q = older(ch)
    BY <1>1, <1>2 DEF Tunnel!Started
  <2>2. ch = [id |-> ch.id, left |-> ch.left, up |-> ch.up]
    BY ChannelFields DEF TunnelInv
  <2>3. q.left = ch.left - 1 /\ q.id = ch.id /\ q.up = ch.up
    BY <2>1, <2>2
  <2>4. q.up
    BY <1>2 DEF Tunnel!Started
  <2> QED BY <2>1, <2>3, <2>4 DEF Tunnel!Started
<1> HIDE DEF older
<1>3. /\ repair'.stage = repair.stage /\ repair'.replaced = repair.replaced
      /\ repair.stage # "none" => repair'.left = repair.left - 1 /\ repair'.age = repair.age + 1
  <2>1. repair = [stage |-> repair.stage, id |-> repair.id, left |-> repair.left,
                  age |-> repair.age, replaced |-> repair.replaced]
    BY RepairFields DEF TunnelInv
  <2> QED BY <1>1, <2>1
<1>4. /\ \A ch \in Tunnel(t)!Started : ch.left \in Nat /\ Remaining(t, ch) \in Nat
      /\ repair.left \in Nat /\ repair.age \in Nat /\ repair.age <= ConnectMax
      /\ since \in Nat /\ since <= StaggerOf[t] /\ StaggerOf[t] \in Nat
      /\ Retries(t) \in Nat /\ ConnectMax \in Nat /\ Lead \in Nat /\ CountOf[t] \in Nat \ {0}
      /\ Lifetime \in Nat /\ Tunnel(t)!Retry \in Nat /\ Wait(t) \in Nat
  BY StartedFacts, RepairFields, RetriesFacts, RetryFacts, TunnelFacts DEF TunnelInv
<1>5. Tunnel(t)!Retry' = Tunnel(t)!Retry /\ Retries(t)' = Retries(t)
  BY <1>1 DEF Retries, Tunnel!Retry
<1>6. SpacedOut(t)'
  <2>1. ASSUME NEW q \in Tunnel(t)!Started', NEW r \in Tunnel(t)!Started', q # r
        PROVE  Apart(q.left, r.left)
    <3>1. PICK ch \in Tunnel(t)!Started, other \in Tunnel(t)!Started :
            /\ q.left = ch.left - 1 /\ q = older(ch)
            /\ r.left = other.left - 1 /\ r = older(other)
      BY <1>2
    <3>2. Apart(ch.left, other.left)
      BY <2>1, <3>1 DEF OnTime, SpacedOut
    <3> QED BY <1>4, <3>1, <3>2 DEF Apart
  <2>2. ASSUME repair.stage # "none", CountOf[t] > 1, NEW q \in Tunnel(t)!Started'
        PROVE  Apart(q.left, repair'.left)
    <3>1. PICK ch \in Tunnel(t)!Started : q.left = ch.left - 1
      BY <1>2
    <3>2. Apart(ch.left, repair.left)
      BY <2>2 DEF OnTime, SpacedOut
    <3> QED BY <1>3, <1>4, <2>2, <3>1, <3>2 DEF Apart
  <2> QED BY <1>3, <2>1, <2>2 DEF SpacedOut, Apart
<1>7. /\ Wait(t)' = IF since < StaggerOf[t] THEN StaggerOf[t] - (since + 1) ELSE 0
      /\ Wait(t) = IF since < StaggerOf[t] THEN StaggerOf[t] - since ELSE 1
  BY <1>1, <1>4 DEF Wait
<1>8. InTime(t)'
  <2> SUFFICES ASSUME NEW q \in Tunnel(t)!Started', q.left <= Lead
               PROVE  Remaining(t, q)' < q.left
    BY DEF InTime
  <2>1. PICK ch \in Tunnel(t)!Started : q.left = ch.left - 1 /\ q.id = ch.id
    BY <1>2
  <2>2. Remaining(t, q)' = IF repair.stage = "none"
                             THEN Wait(t)' + ConnectMax + Retries(t)
                             ELSE ConnectMax - (repair.age + 1) + Retries(t)
                                    + IF repair.replaced = ch.id THEN 0 ELSE Tunnel(t)!Retry
    BY <1>3, <1>5, <2>1 DEF Remaining
  <2>3. CASE ch.left <= Lead
    <3>1. Remaining(t, ch) < ch.left
      BY <2>3 DEF OnTime, InTime
    <3>2. Remaining(t, q)' = Remaining(t, ch) - 1
      <4>1. CASE repair.stage = "none"
        <5>1. Wait(t)' = Wait(t) - 1
          BY <1>4, <1>7
        <5>2. Remaining(t, ch) = Wait(t) + ConnectMax + Retries(t)
          BY <4>1 DEF Remaining
        <5> QED BY <1>4, <2>2, <4>1, <5>1, <5>2
      <4>2. CASE repair.stage # "none"
        BY <1>4, <2>2, <4>2 DEF Remaining
      <4> QED BY <4>1, <4>2
    <3> QED BY <1>4, <2>1, <3>1, <3>2
  <2>4. CASE ch.left > Lead
    <3>1. q.left = Lead /\ ch.left = Lead + 1
      BY <1>4, <2>1, <2>4
    <3>2. CASE CountOf[t] > 1
      <4>1. ConnectMax + Retries(t) + Tunnel(t)!Retry <= Lead
        BY <3>2, RetriesFacts DEF TunnelInv
      <4>2. Wait(t)' + ConnectMax < Tunnel(t)!Retry
        BY <1>4, <1>7, RetryFacts
      <4>3. Wait(t)' \in Nat
        BY <1>4, <1>7
      <4> QED BY <1>4, <2>2, <3>1, <4>1, <4>2, <4>3
    <3>3. CASE CountOf[t] = 1
      <4>1. /\ repair.stage = "none"
            /\ since < StaggerOf[t] => Lead + 1 + since + ConnectMax >= Lifetime
        BY <2>4, <3>1, <3>3 DEF OnTime, AloneFits
      <4>2. StaggerOf[t] + ConnectMax + Lead <= Lifetime
        BY <3>3, RetryFacts
      <4>3. Wait(t)' = 0
        BY <1>4, <1>7, <4>1, <4>2
      <4>4. ConnectMax + Retries(t) < Lead
        BY RetriesFacts DEF TunnelInv
      <4> QED BY <1>4, <2>2, <3>1, <4>1, <4>3, <4>4
    <3> QED BY <1>4, <3>2, <3>3
  <2> QED BY <1>4, <2>3, <2>4
<1>9. AloneFits(t)'
  <2> SUFFICES ASSUME CountOf[t] = 1 PROVE AloneFits(t)'
    BY DEF AloneFits
  <2>1. repair.stage # "none" => repair'.left + repair'.age >= Lifetime
    <3>1. repair.stage # "none" => repair.left + repair.age >= Lifetime
      BY DEF OnTime, AloneFits
    <3> QED BY <1>3, <1>4, <3>1
  <2>2. ASSUME NEW q \in Tunnel(t)!Started', q.left > Lead
        PROVE  /\ repair.stage = "none"
               /\ since' < StaggerOf[t] => q.left + since' + ConnectMax >= Lifetime
    <3>1. PICK ch \in Tunnel(t)!Started : q.left = ch.left - 1
      BY <1>2
    <3>2. ch.left > Lead
      BY <1>4, <2>2, <3>1
    <3>3. /\ repair.stage = "none"
          /\ since < StaggerOf[t] => ch.left + since + ConnectMax >= Lifetime
      BY <3>2 DEF OnTime, AloneFits
    <3> QED BY <1>1, <1>4, <3>1, <3>3
  <2> QED BY <1>3, <2>1, <2>2 DEF AloneFits
<1> QED BY <1>6, <1>8, <1>9 DEF OnTime

\* Every step of a rolling tunnel keeps to the times.
LEMMA TunnelOnTime ==
  ASSUME NEW t \in Tunnels, TunnelInv(t), OnTime(t), Tunnel(t)!Next
  PROVE  OnTime(t)'
<1>1. CASE Tunnel(t)!RepairChecks
  <2>1. /\ repair.stage = "connecting" /\ repair' = [repair EXCEPT !.stage = "ready"]
        /\ UNCHANGED <<pool, since, managed, failed>>
    BY <1>1 DEF Tunnel!RepairChecks
  <2>2. repair = [stage |-> repair.stage, id |-> repair.id, left |-> repair.left,
                  age |-> repair.age, replaced |-> repair.replaced]
    BY RepairFields DEF TunnelInv
  <2>3. /\ repair'.stage = "ready" /\ repair'.left = repair.left
        /\ repair'.age = repair.age /\ repair'.replaced = repair.replaced
    BY <2>1, <2>2
  <2>4. Tunnel(t)!Started' = Tunnel(t)!Started
    BY <2>1 DEF Tunnel!Started
  <2> QED BY <2>1, <2>3, <2>4, FewerStarted
<1>2. CASE \E id \in RollingIds : Tunnel(t)!CloseClient(id)
  <2>1. UNCHANGED <<pool, repair, since, managed, failed>>
    BY <1>2 DEF Tunnel!CloseClient
  <2>2. Tunnel(t)!Started' = Tunnel(t)!Started
    BY <2>1 DEF Tunnel!Started
  <2> QED BY <2>1, <2>2, FewerStarted
<1>3. CASE \E ch \in pool : Tunnel(t)!Lose(ch)
  <2>1. PICK ch \in pool : Tunnel(t)!Lose(ch)
    BY <1>3
  <2>2. /\ pool' = (pool \ {ch}) \cup {[ch EXCEPT !.up = FALSE]}
        /\ UNCHANGED <<repair, since, managed, failed>>
    BY <2>1 DEF Tunnel!Lose
  <2>3. ch = [id |-> ch.id, left |-> ch.left, up |-> ch.up]
    BY ChannelFields DEF TunnelInv
  <2>4. ~[ch EXCEPT !.up = FALSE].up
    BY <2>3
  <2>5. Tunnel(t)!Started' \subseteq Tunnel(t)!Started
    BY <2>2, <2>4 DEF Tunnel!Started
  <2> QED BY <2>2, <2>5, FewerStarted
<1>4. CASE Tunnel(t)!Stop
  <2>1. pool' = {} /\ UNCHANGED <<repair, since, managed, failed>>
    BY <1>4 DEF Tunnel!Stop
  <2>2. Tunnel(t)!Started' \subseteq Tunnel(t)!Started
    BY <2>1 DEF Tunnel!Started
  <2> QED BY <2>1, <2>2, FewerStarted
<1> QED BY <1>1, <1>2, <1>3, <1>4, ManageOnTime, RepairPlacesOnTime, RepairFailsOnTime, TickOnTime
        DEF Tunnel!Next

\* Only the manager takes connections out of a running pool, and one that is
\* started and due has time left until it is replaced.
LEMMA TunnelKeepsOne ==
  ASSUME NEW t \in Tunnels, TunnelInv(t), OnTime(t), Tunnel(t)!Next
  PROVE  Tunnel(t)!KeepsOne
<1> SUFFICES ASSUME running', Tunnel(t)!Started # {}, pool' = {} PROVE FALSE
  BY DEF Tunnel!KeepsOne
<1>1. PICK ch \in Tunnel(t)!Started : TRUE
  OBVIOUS
<1>2. ch \in pool /\ ch.up /\ ch.left \in Nat
  BY StartedFacts
<1>3. CASE Tunnel(t)!Manage
  <2>1. pool' = {c \in pool : ~Tunnel(t)!IsDead(c)}
    BY <1>3 DEF Tunnel!Manage
  <2>2. ch.left <= 0
    BY <1>2, <2>1 DEF Tunnel!IsDead
  <2>3. Lead \in Nat /\ Remaining(t, ch) \in Nat
    BY StartedFacts, TunnelFacts
  <2>4. Remaining(t, ch) < ch.left
    BY <1>2, <2>2, <2>3 DEF OnTime, InTime
  <2> QED BY <1>2, <2>2, <2>3, <2>4
<1>4. CASE Tunnel(t)!RepairChecks
  BY <1>2, <1>4 DEF Tunnel!RepairChecks
<1>5. CASE Tunnel(t)!RepairPlaces
  BY <1>5 DEF Tunnel!RepairPlaces
<1>6. CASE Tunnel(t)!RepairFails
  BY <1>2, <1>6 DEF Tunnel!RepairFails
<1>7. CASE \E id \in RollingIds : Tunnel(t)!CloseClient(id)
  BY <1>2, <1>7 DEF Tunnel!CloseClient
<1>8. CASE \E c \in pool : Tunnel(t)!Lose(c)
  BY <1>8 DEF Tunnel!Lose
<1>9. CASE Tunnel(t)!Tick
  BY <1>2, <1>9 DEF Tunnel!Tick
<1>10. CASE Tunnel(t)!Stop
  BY <1>10 DEF Tunnel!Stop
<1> QED BY <1>3, <1>4, <1>5, <1>6, <1>7, <1>8, <1>9, <1>10 DEF Tunnel!Next
-----------------------------------------------------------------------------
(* Browser mimicry: replacements come in time *)

\* While nothing is lost or fails, one connection at least outlives the next
\* turn of the manager, unless the pool is full; and one that is made will.
LivesOn ==
  running /\ failed + lost = 0 =>
    /\ \A c \in pool : c.up
    /\ managed => Cardinality(pool) = MaxPool \/ \E c \in pool : c.left > 1
    /\ ~managed /\ making.stage = "none" =>
         \/ pool = {} \/ Cardinality(pool) = MaxPool
         \/ \E c \in pool : c.left > 0
    /\ making.stage # "none" => ~managed /\ making.left + making.age > MimicryMax + 1

LEMMA LivesFacts ==
  /\ MimicryLead \in Nat /\ MimicryLead > 0 /\ MimicryMax \in Nat
  /\ \A ttl \in Ttls : ttl \in Nat /\ ttl > MimicryMax + 1
<1>1. Mimicry!LivesFit
  BY TimesAssumption
<1> QED BY <1>1, MimicryFacts DEF Mimicry!LivesFit

LEMMA LivesOnStart == ASSUME Mimicry!MimicryInit PROVE LivesOn
<1>1. pool = {} /\ making.stage = "none" /\ managed = FALSE
  BY DEF Mimicry!MimicryInit, Mimicry!Idle
<1> QED BY <1>1 DEF LivesOn

\* The next creation brings a new life; if there is none, the pool is full or
\* nothing is missing.
LEMMA BeginLives ==
  ASSUME NEW P, NEW needSend \in Nat, NEW needRecv \in Nat,
         Mimicry!Begin(P, needSend, needRecv)
  PROVE  \/ /\ making'.stage # "none" /\ making'.age = 0 /\ making'.left \in Ttls
            /\ UNCHANGED <<running, managed>>
         \/ /\ making' = Mimicry!Idle /\ managed' = TRUE /\ (running' => running)
            /\ needSend + needRecv = 0 \/ ~(Cardinality(P) < MaxPool)
<1>1. Mimicry!Cardinality(P) = Cardinality(P)
  BY MimicrySets
<1>2. CASE needSend + needRecv > 0 /\ Cardinality(P) < MaxPool
  <2>1. PICK ttl \in Ttls, send \in IF needSend > 0 THEN SendTimes ELSE {MinSending} :
          /\ making' = [stage |-> "connecting", id |-> Mimicry!Min(MimicryIds \ Mimicry!Used),
                        send |-> send, left |-> ttl, age |-> 0,
                        needSend |-> Mimicry!Less(needSend),
                        needRecv |-> IF needSend > 0 THEN needRecv ELSE Mimicry!Less(needRecv)]
          /\ UNCHANGED <<running, managed>>
    BY <1>1, <1>2 DEF Mimicry!Begin
  <2> QED BY <2>1
<1>3. CASE ~(needSend + needRecv > 0 /\ Cardinality(P) < MaxPool)
  <2>1. making' = Mimicry!Idle /\ managed' = TRUE /\ running' = (running /\ P # {})
    BY <1>1, <1>3 DEF Mimicry!Begin
  <2>2. needSend + needRecv = 0 \/ ~(Cardinality(P) < MaxPool)
    BY <1>3
  <2> QED BY <2>1, <2>2
<1> QED BY <1>2, <1>3

\* While none is missing that receives, one will live on.
LEMMA NoneMissing ==
  ASSUME NEW P, IsFiniteSet(P), Mimicry!Missing(P, "receiving") = 0
  PROVE  \E c \in P : c.left > MimicryLead
<1> DEFINE counted == {c \in P : /\ c.status = "receiving"
                                 /\ IF "receiving" = "sending" THEN c.send > MimicryLead
                                                               ELSE c.left > MimicryLead}
<1>1. IsFiniteSet(counted) /\ Cardinality(counted) \in Nat
  BY FS_Subset, FS_CardinalityType
<1>2. Mimicry!Counted(P, "receiving") = Mimicry!Cardinality(counted)
  BY DEF Mimicry!Counted
<1>3. \A c \in counted : c \in P /\ c.left > MimicryLead
  OBVIOUS
<1> HIDE DEF counted
<1>4. Mimicry!Counted(P, "receiving") = Cardinality(counted)
  BY <1>2, MimicrySets
<1>5. ~(Cardinality(counted) < PerType)
  BY <1>1, <1>4, MimicryFacts DEF Mimicry!Missing
<1>6. Cardinality(counted) # 0
  BY <1>5, MimicryFacts
<1>7. counted # {}
  BY <1>6, FS_EmptySet
<1> QED BY <1>3, <1>7

LEMMA MimicryCounts ==
  ASSUME MimicryInv
  PROVE  /\ failed \in Nat /\ lost \in Nat
         /\ making.left \in Nat /\ making.age \in Nat /\ making.age <= MimicryMax
         /\ making.needSend \in Nat /\ making.needRecv \in Nat
         /\ making \in Mimicry!Making
         /\ \A c \in pool : c.left \in Nat
<1>1. failed \in Nat /\ lost \in Nat /\ making \in Mimicry!Making
  BY MimicryFacts DEF MimicryInv, Mimicry!MimicryTypeOK
<1>2. /\ making.left \in 0..Mimicry!Longest /\ making.age \in 0..MimicryMax
      /\ making.needSend \in 0..PerType /\ making.needRecv \in 0..PerType
  BY MakingFields DEF MimicryInv
<1>3. \A c \in pool : c.left \in 0..Mimicry!Longest
  BY ConnectionFields DEF MimicryInv
<1> QED BY <1>1, <1>2, <1>3, MimicryFacts

LEMMA MimicryManageLives ==
  ASSUME MimicryInv, MimicryInv', LivesOn, Mimicry!Manage
  PROVE  LivesOn'
<1> SUFFICES ASSUME running', failed' + lost' = 0 PROVE LivesOn'
  BY DEF LivesOn
<1> DEFINE alive == pool \ Mimicry!Expired(pool)
           needSend == Mimicry!Missing(pool', "sending")
           needRecv == Mimicry!Missing(pool', "receiving")
<1>1. /\ running /\ ~managed
      /\ pool' = {[c EXCEPT !.status = Mimicry!NextStatus(c)] : c \in alive}
      /\ Mimicry!Begin(pool', needSend, needRecv)
      /\ failed' = failed /\ lost' = lost
  BY DEF Mimicry!Manage, Mimicry!Updated
<1>2. \A c \in pool : c.up
  BY <1>1 DEF LivesOn
<1>3. ASSUME NEW q \in pool' PROVE q.up
  <2>1. PICK c \in alive : q = [c EXCEPT !.status = Mimicry!NextStatus(c)]
    BY <1>1
  <2>2. c \in Mimicry!Connection /\ c \in pool
    BY ConnectionFields DEF MimicryInv
  <2> QED BY <1>2, <2>1, <2>2 DEF Mimicry!Connection
<1>4. IsFiniteSet(pool') /\ Cardinality(pool') \in Nat /\ Cardinality(pool') <= MaxPool
  <2>1. IsFiniteSet(pool') /\ Mimicry!Cardinality(pool') <= MaxPool
    BY DEF MimicryInv, Mimicry!PoolOwnsOpen
  <2> QED BY <2>1, FS_CardinalityType, MimicrySets
<1>5. needSend \in Nat /\ needRecv \in Nat
  <2>1. needSend \in 0..PerType /\ needRecv \in 0..PerType
    BY <1>4, MissingRange
  <2> QED BY <2>1, MimicryFacts
<1> HIDE DEF alive, needSend, needRecv
<1>6. CASE /\ making'.stage # "none" /\ making'.age = 0 /\ making'.left \in Ttls
           /\ UNCHANGED <<running, managed>>
  <2>1. making'.left + making'.age > MimicryMax + 1
    BY <1>6, LivesFacts
  <2> QED BY <1>1, <1>3, <1>6, <2>1 DEF LivesOn
<1>7. CASE /\ making' = Mimicry!Idle /\ managed' = TRUE
           /\ needSend + needRecv = 0 \/ ~(Cardinality(pool') < MaxPool)
  <2>1. Cardinality(pool') = MaxPool \/ \E q \in pool' : q.left > 1
    <3>1. CASE needSend + needRecv = 0
      <4>1. needRecv = 0
        BY <1>5, <3>1
      <4>2. \E q \in pool' : q.left > MimicryLead
        BY <1>4, <4>1, NoneMissing DEF needRecv
      <4>3. \A q \in pool' : q.left \in Nat
        BY ConnectionFields, MimicryFacts DEF MimicryInv, Mimicry!MimicryTypeOK, Mimicry!Connection
      <4> QED BY <4>2, <4>3, LivesFacts
    <3>2. CASE ~(Cardinality(pool') < MaxPool)
      BY <1>4, <3>2, MimicryFacts
    <3> QED BY <1>7, <3>1, <3>2
  <2>2. making'.stage = "none"
    BY <1>7 DEF Mimicry!Idle
  <2> QED BY <1>3, <1>7, <2>1, <2>2 DEF LivesOn
<1> QED BY <1>1, <1>5, <1>6, <1>7, BeginLives

LEMMA EnterPoolLives ==
  ASSUME MimicryInv, MimicryInv', LivesOn, Mimicry!EnterPool
  PROVE  LivesOn'
<1> SUFFICES ASSUME running', failed' + lost' = 0 PROVE LivesOn'
  BY DEF LivesOn
<1> DEFINE new == [id |-> making.id, status |-> "creating", send |-> making.send,
                   left |-> making.left, up |-> TRUE]
<1>1. /\ making.stage = "ready" /\ pool' = pool \cup {new}
      /\ Mimicry!Begin(pool', making.needSend, making.needRecv)
      /\ failed' = failed /\ lost' = lost
  BY DEF Mimicry!EnterPool
<1>2. \/ /\ making'.stage # "none" /\ making'.age = 0 /\ making'.left \in Ttls
         /\ UNCHANGED <<running, managed>>
      \/ making' = Mimicry!Idle /\ managed' = TRUE /\ (running' => running)
  BY <1>1, MimicryCounts, BeginLives
<1>3. running /\ failed + lost = 0
  BY <1>1, <1>2
<1>4. /\ \A c \in pool : c.up
      /\ ~managed /\ making.left + making.age > MimicryMax + 1
  BY <1>1, <1>3 DEF LivesOn
<1>5. new.up /\ new.left > 1
  BY <1>4, MimicryCounts, LivesFacts
<1>6. \A c \in pool' : c.up
  BY <1>1, <1>4, <1>5
<1>7. CASE /\ making'.stage # "none" /\ making'.age = 0 /\ making'.left \in Ttls
           /\ UNCHANGED <<running, managed>>
  <2>1. making'.left + making'.age > MimicryMax + 1
    BY <1>7, LivesFacts
  <2> QED BY <1>4, <1>6, <1>7, <2>1 DEF LivesOn
<1>8. CASE making' = Mimicry!Idle /\ managed' = TRUE
  <2>1. making'.stage = "none"
    BY <1>8 DEF Mimicry!Idle
  <2>2. \E c \in pool' : c.left > 1
    BY <1>1, <1>5
  <2> QED BY <1>6, <1>8, <2>1, <2>2 DEF LivesOn
<1> QED BY <1>2, <1>7, <1>8

LEMMA MimicryTickLives ==
  ASSUME MimicryInv, MimicryInv', LivesOn, Mimicry!Tick
  PROVE  LivesOn'
<1> SUFFICES ASSUME running', failed' + lost' = 0 PROVE LivesOn'
  BY DEF LivesOn
<1> DEFINE older(c) == [c EXCEPT !.send = Mimicry!Less(@), !.left = Mimicry!Less(@)]
<1>1. /\ running
      /\ IF making.stage = "none" THEN managed
           ELSE making.stage = "connecting" /\ making.age < MimicryMax
      /\ pool' = {older(c) : c \in pool}
      /\ making' = IF making.stage = "none" THEN making
                     ELSE [making EXCEPT !.send = Mimicry!Less(@), !.left = Mimicry!Less(@),
                                         !.age = @ + 1]
      /\ managed' = FALSE /\ failed' = failed /\ lost' = lost
  BY DEF Mimicry!Tick
<1>2. \A c \in pool : /\ older(c).up = c.up /\ older(c).id = c.id
                       /\ older(c).left = Mimicry!Less(c.left)
  BY ConnectionFields DEF MimicryInv, Mimicry!Connection
<1> HIDE DEF older
<1>3. failed + lost = 0
  BY <1>1
<1>4. \A c \in pool' : c.up
  BY <1>1, <1>2, <1>3 DEF LivesOn
<1>5. Cardinality(pool) = MaxPool => Cardinality(pool') = MaxPool
  <2>1. /\ IsFiniteSet(pool') /\ Cardinality(pool') \in Nat /\ Cardinality(pool') <= MaxPool
    <3>1. IsFiniteSet(pool') /\ Mimicry!Cardinality(pool') <= MaxPool
      BY DEF MimicryInv, Mimicry!PoolOwnsOpen
    <3> QED BY <3>1, FS_CardinalityType, MimicrySets
  <2> DEFINE Q == pool'
             back == [q \in Q |-> CHOOSE c \in pool : c.id = q.id]
  <2>2. \A c \in pool : older(c) \in Q /\ back[older(c)] = c
    <3> TAKE c \in pool
    <3>1. older(c) \in Q /\ older(c).id = c.id
      BY <1>1, <1>2
    <3>2. \A d \in pool : d.id = c.id => d = c
      BY DEF MimicryInv, DistinctIds
    <3> QED BY <3>1, <3>2
  <2>3. \A q \in Q : back[q] \in pool
    <3> TAKE q \in Q
    <3>1. PICK c \in pool : q = older(c)
      BY <1>1
    <3> QED BY <2>2, <3>1
  <2> HIDE DEF back, Q
  <2>4. pool = {back[q] : q \in Q}
    BY <2>2, <2>3
  <2>5. IsFiniteSet(Q)
    BY <2>1 DEF Q
  <2>6. Cardinality(pool) <= Cardinality(Q)
    BY <2>4, <2>5, ImageBound
  <2>7. Cardinality(pool) <= Cardinality(pool')
    BY <2>6 DEF Q
  <2> QED BY <2>1, <2>7, SomePool, MimicryFacts
<1>6. CASE making.stage = "none"
  <2>1. Cardinality(pool) = MaxPool \/ \E c \in pool : c.left > 1
    BY <1>1, <1>3, <1>6 DEF LivesOn
  <2>2. (\E c \in pool : c.left > 1) => \E c \in pool' : c.left > 0
    <3> SUFFICES ASSUME NEW c \in pool, c.left > 1 PROVE \E q \in pool' : q.left > 0
      OBVIOUS
    <3>1. older(c).left = c.left - 1
      BY <1>2, MimicryCounts DEF Mimicry!Less
    <3>2. older(c).left > 0
      BY <3>1, MimicryCounts
    <3> QED BY <1>1, <3>2
  <2>3. making'.stage = "none"
    BY <1>1, <1>6
  <2> QED BY <1>1, <1>4, <1>5, <2>1, <2>2, <2>3 DEF LivesOn
<1>7. CASE making.stage # "none"
  <2>1. making.left + making.age > MimicryMax + 1
    BY <1>1, <1>3, <1>7 DEF LivesOn
  <2>2. /\ making'.stage = making.stage /\ making'.left = Mimicry!Less(making.left)
        /\ making'.age = making.age + 1
    BY <1>1, <1>7, MimicryCounts DEF Mimicry!Making
  <2>3. Mimicry!Less(making.left) = making.left - 1
    BY <2>1, MimicryCounts, LivesFacts DEF Mimicry!Less
  <2>4. making'.left + making'.age > MimicryMax + 1
    BY <2>1, <2>2, <2>3, MimicryCounts, LivesFacts
  <2> QED BY <1>1, <1>4, <1>7, <2>2, <2>4 DEF LivesOn
<1> QED BY <1>6, <1>7

\* Every step of a mimicry pool keeps that.
LEMMA MimicryLives ==
  ASSUME MimicryInv, LivesOn, Mimicry!MimicryNext
  PROVE  LivesOn'
<1>0. MimicryInv'
  BY MimicryStep
<1>1. CASE Mimicry!Manage
  BY <1>0, <1>1, MimicryManageLives
<1>2. CASE Mimicry!IsMade
  <2>1. making' = [making EXCEPT !.stage = "ready"] /\ making.stage = "connecting"
    BY <1>2 DEF Mimicry!IsMade
  <2>2. making'.left = making.left /\ making'.age = making.age /\ making'.stage = "ready"
    BY <2>1, MimicryCounts DEF Mimicry!Making
  <2> QED BY <1>2, <2>1, <2>2 DEF LivesOn, Mimicry!IsMade
<1>3. CASE Mimicry!CreateFails
  <2>1. failed' = failed + 1 /\ lost' = lost
    BY <1>3 DEF Mimicry!CreateFails
  <2>2. failed' + lost' # 0
    BY <2>1, MimicryCounts
  <2> QED BY <2>2 DEF LivesOn
<1>4. CASE Mimicry!EnterPool
  BY <1>0, <1>4, EnterPoolLives
<1>5. CASE \E id \in MimicryIds : Mimicry!CloseClient(id)
  BY <1>5 DEF LivesOn, Mimicry!CloseClient
<1>6. CASE \E c \in pool : Mimicry!Lose(c)
  <2>1. lost' = lost + 1 /\ failed' = failed
    BY <1>6 DEF Mimicry!Lose
  <2>2. failed' + lost' # 0
    BY <2>1, MimicryCounts
  <2> QED BY <2>2 DEF LivesOn
<1>7. CASE Mimicry!Tick
  BY <1>0, <1>7, MimicryTickLives
<1>8. CASE Mimicry!Stop
  BY <1>8 DEF LivesOn, Mimicry!Stop
<1> QED BY <1>1, <1>2, <1>3, <1>4, <1>5, <1>6, <1>7, <1>8
        DEF Mimicry!MimicryNext, Mimicry!MakeStep

\* Only the manager takes connections out of the lists of a running pool, and
\* one that lives on has a role after it.
LEMMA MimicryKeepsSendPool ==
  ASSUME MimicryInv, LivesOn, Mimicry!MimicryNext
  PROVE  Mimicry!KeepsSendPool
<1> SUFFICES ASSUME running', Mimicry!SendPool # {}, failed + lost = 0,
                    Cardinality(pool) # MaxPool, Mimicry!SendPool' = {}
             PROVE  FALSE
  BY MimicrySets DEF Mimicry!KeepsSendPool
<1>0. MimicryInv'
  BY MimicryStep
<1>1. senders # {} \/ receivers # {}
  BY DEF Mimicry!SendPool
<1>2. senders' = {} /\ receivers' = {}
  BY DEF Mimicry!SendPool
<1>3. CASE Mimicry!Manage
  <2>1. /\ running /\ ~managed /\ making.stage = "none"
        /\ pool' = {[c EXCEPT !.status = Mimicry!NextStatus(c)] :
                      c \in pool \ Mimicry!Expired(pool)}
    BY <1>3 DEF Mimicry!Manage, Mimicry!Updated
  <2>2. pool # {}
    BY <1>1 DEF MimicryInv, Mimicry!ListsFollowPool, Mimicry!IdsIn
  <2>3. PICK c \in pool : c.left > 0
    BY <2>1, <2>2 DEF LivesOn
  <2>4. c.up
    BY <2>1 DEF LivesOn
  <2>5. c.left # 0
    BY <2>3, MimicryCounts
  <2>6. c \in pool \ Mimicry!Expired(pool) /\ c \in Mimicry!Connection
    BY <2>5, ConnectionFields DEF Mimicry!Expired, MimicryInv
  <2>7. Mimicry!NextStatus(c) \in {"sending", "receiving"}
    BY <2>4, <2>6, ConnectionFields DEF Mimicry!NextStatus, Mimicry!Due, MimicryInv
  <2> DEFINE q == [c EXCEPT !.status = Mimicry!NextStatus(c)]
  <2>8. q \in pool' /\ q.status \in {"sending", "receiving"}
    BY <2>1, <2>6, <2>7 DEF Mimicry!Connection
  <2> HIDE DEF q
  <2> QED BY <1>0, <1>2, <2>8 DEF MimicryInv, Mimicry!ListsFollowPool, Mimicry!IdsIn
<1>4. CASE Mimicry!Stop
  BY <1>4 DEF Mimicry!Stop
<1>5. CASE UNCHANGED <<senders, receivers>>
  BY <1>1, <1>2, <1>5
<1> QED BY <1>3, <1>4, <1>5 DEF Mimicry!MimicryNext, Mimicry!MakeStep, Mimicry!IsMade,
        Mimicry!CreateFails, Mimicry!EnterPool, Mimicry!CloseClient, Mimicry!Lose, Mimicry!Tick
-----------------------------------------------------------------------------
(* The strategy that was chosen keeps to its times *)

TimesInv ==
  /\ \A t \in Tunnels : kind = t => OnTime(t)
  /\ kind = "mimicry" => LivesOn

LEMMA TimesStart == Init => TimesInv
<1> SUFFICES ASSUME Init PROVE TimesInv
  OBVIOUS
<1>1. CASE \E t \in Tunnels : kind = t /\ Tunnel(t)!Init
  BY <1>1, OnTimeStart DEF TimesInv, Tunnels
<1>2. CASE kind = "mimicry" /\ Mimicry!MimicryInit
  BY <1>2, LivesOnStart DEF TimesInv, Tunnels
<1>3. CASE kind = "client"
  BY <1>3 DEF TimesInv, Tunnels
<1> QED BY <1>1, <1>2, <1>3 DEF Init

LEMMA TimesStep ==
  ASSUME TransportInv, TimesInv, [Next]_vars
  PROVE  TimesInv'
<1>1. CASE (\E t \in Tunnels : kind = t /\ Tunnel(t)!Next) /\ OfTunnel
  <2>1. kind' = kind
    BY <1>1 DEF OfTunnel
  <2>2. PICK t \in Tunnels : kind = t /\ Tunnel(t)!Next
    BY <1>1
  <2>3. OnTime(t)'
    BY <2>2, TunnelOnTime DEF TransportInv, TimesInv
  <2> QED BY <2>1, <2>2, <2>3 DEF TimesInv, Tunnels
<1>2. CASE kind = "mimicry" /\ Mimicry!MimicryNext /\ OfMimicry
  <2>1. kind' = kind
    BY <1>2 DEF OfMimicry
  <2>2. LivesOn'
    BY <1>2, MimicryLives DEF TransportInv, TimesInv
  <2> QED BY <1>2, <2>1, <2>2 DEF TimesInv, Tunnels
<1>3. CASE kind = "client" /\ OfClient
  <2>1. kind' = kind
    BY <1>3 DEF OfClient
  <2> QED BY <1>3, <2>1 DEF TimesInv, Tunnels
<1>4. CASE UNCHANGED vars
  <2>1. UNCHANGED <<kind, running, pool, managed, failed, lost, repair, since, making>>
    BY <1>4 DEF vars, poolVars, tunnelVars, browserVars
  <2>2. \A t \in Tunnels : OnTime(t) => OnTime(t)'
    BY <2>1 DEF OnTime, SpacedOut, InTime, AloneFits, Tunnel!Started, Apart, Remaining, Wait,
                Retries, Tunnel!Retry
  <2>3. LivesOn => LivesOn'
    BY <2>1 DEF LivesOn
  <2> QED BY <2>1, <2>2, <2>3 DEF TimesInv
<1> QED BY <1>1, <1>2, <1>3, <1>4 DEF Next

\* A step of the strategy that was chosen leaves it a connection to send on.
LEMMA StepLeavesOne ==
  ASSUME TransportInv, TimesInv, [Next]_vars
  PROVE  [ /\ \A t \in Tunnels : kind = t => Tunnel(t)!KeepsOne
           /\ kind = "mimicry" => Mimicry!KeepsSendPool ]_vars
<1>1. CASE (\E t \in Tunnels : kind = t /\ Tunnel(t)!Next) /\ OfTunnel
  BY <1>1, TunnelKeepsOne DEF TransportInv, TimesInv, Tunnels
<1>2. CASE kind = "mimicry" /\ Mimicry!MimicryNext /\ OfMimicry
  BY <1>2, MimicryKeepsSendPool DEF TransportInv, TimesInv, Tunnels
<1>3. CASE kind = "client" /\ OfClient
  BY <1>3 DEF Tunnels
<1> QED BY <1>1, <1>2, <1>3 DEF Next

\* Deadlines alone never cut the traffic: in a running tunnel the last
\* connection is not dropped while it works, for as many failed starts as the
\* lead has room for; and while none fails, a mimicry pool that is not full
\* has one to send on (rolling_tunnel.h:149-154, browser_mimicry.cpp:300-330).
THEOREM DeadlinesLeaveNoGap == Spec => NoGap
<1>1. TransportInv /\ TimesInv /\ [Next]_vars => TimesInv'
  BY TimesStep
<1>2. TransportInv /\ TimesInv /\ [Next]_vars
        => [ /\ \A t \in Tunnels : kind = t => Tunnel(t)!KeepsOne
             /\ kind = "mimicry" => Mimicry!KeepsSendPool ]_vars
  BY StepLeavesOne
<1> QED BY <1>1, <1>2, TimesStart, TransportInvariant, PTL DEF Spec, NoGap

\* The fair specification, which the run checks, has these properties too.
COROLLARY FairTransport ==
  FairSpec => [](OpenAreOwned /\ DeadlinesApart /\ StartedIsServed) /\ NoGap
BY NoClientLeaks, DeadlinesStayApart, StartedServes, DeadlinesLeaveNoGap, PTL DEF FairSpec

=============================================================================
