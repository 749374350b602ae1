-------------------------- MODULE WebTrafficProofs --------------------------
(***************************************************************************)
(* Theorems about what moves through the server, in two halves.  The way   *)
(* of a packet to a client, for any number of threads, connections and     *)
(* packets and any sizes of batches and channels: packets stay in the      *)
(* session they were looked up for, and what a channel takes is written in *)
(* its order, whole and once.  The cache of handshakes, for any names,     *)
(* calls and times: what a call returns is due.                            *)
(***************************************************************************)
EXTENDS WebTraffic, FiniteSetTheorems, SequenceTheorems, WellFoundedInduction, TLAPS

(* Sequences of sequences.  What is proved by induction along a sequence   *)
(* rests on the strict subsets of a finite set, which are well-founded.    *)

LEMMA LeastNumber ==
  ASSUME NEW T \in SUBSET Nat, T # {}
  PROVE  \E x \in T : \A y \in T : x <= y
<1>1. PICK m \in T : TRUE
  OBVIOUS
<1> DEFINE S == 0..m
           U == {z \in T : z <= m}
           V == {0..z : z \in U}
<1>2. IsWellFoundedOn(StrictSubsetOrdering(S), SUBSET S)
  <2>1. IsFiniteSet(S)
    BY FS_Interval
  <2> QED BY <2>1, FS_StrictSubsetOrderingWellFounded, FS_FiniteSubsetsOfFinite
<1>3. V \subseteq SUBSET S /\ V # {}
  OBVIOUS
<1>4. PICK I \in V : \A J \in V : ~(<<J, I>> \in StrictSubsetOrdering(S))
  <2> HIDE DEF V, S
  <2> QED BY <1>2, <1>3, WFMin
<1>5. PICK x \in U : I = 0..x
  OBVIOUS
<1>6. ASSUME NEW y \in T, y < x PROVE FALSE
  <2>1. y \in U /\ 0..y \in V
    BY <1>6
  <2>2. 0..y \subseteq I /\ 0..y # I
    <3>1. x \in 0..x /\ x \notin 0..y
      BY <1>6
    <3> QED BY <1>5, <1>6, <3>1
  <2>3. <<0..y, I>> \in StrictSubsetOrdering(S)
    BY <1>3, <2>1, <2>2 DEF StrictSubsetOrdering
  <2> QED BY <1>4, <2>1, <2>3
<1> QED BY <1>6

Accumulated(s, f) == f = [i \in 1..Len(s) |-> IF i = 1 THEN s[i] ELSE f[i - 1] \o s[i]]

\* What the flattening of sequences needs of their concatenation.
Joins(E) ==
  /\ \A x, y \in E : x \o y \in E
  /\ \A x, y, z \in E : (x \o y) \o z = x \o (y \o z)
  /\ \A x \in E : x \o <<>> = x /\ <<>> \o x = x

LEMMA SequencesJoin == \A D : Joins(Seq(D))
BY ConcatProperties, ConcatAssociative, ConcatEmptySeq DEF Joins

LEMMA AccumulatedExists ==
  ASSUME NEW D, NEW s \in Seq(D)
  PROVE  \E f : Accumulated(s, f)
<1> DEFINE Has(n) == \E f : f = [i \in 1..n |-> IF i = 1 THEN s[i] ELSE f[i - 1] \o s[i]]
           Bad == {n \in 0..Len(s) : ~Has(n)}
<1>0. Len(s) \in Nat
  OBVIOUS
<1> SUFFICES Has(Len(s))
  BY DEF Accumulated
<1>1. SUFFICES ASSUME Bad # {} PROVE FALSE
  <2> HIDE DEF Has
  <2> QED BY <1>0
<1>2. PICK n \in Bad : \A m \in Bad : n <= m
  <2>1. Bad \in SUBSET Nat
    <3> HIDE DEF Has
    <3> QED OBVIOUS
  <2> HIDE DEF Bad
  <2> QED BY <1>1, <2>1, LeastNumber
<1>3. n \in 0..Len(s) /\ ~Has(n)
  <2> HIDE DEF Has
  <2> QED OBVIOUS
<1>4. n # 0
  <2>1. Has(0)
    <3>1. <<>> = [i \in 1..0 |-> IF i = 1 THEN s[i] ELSE (<<>>)[i - 1] \o s[i]]
      OBVIOUS
    <3> QED BY <3>1
  <2> HIDE DEF Has
  <2> QED BY <1>3, <2>1
<1>5. Has(n - 1)
  <2>1. n - 1 \in 0..Len(s) /\ ~(n <= n - 1)
    BY <1>3, <1>4
  <2> HIDE DEF Has
  <2> QED BY <1>2, <2>1
<1>6. PICK f : f = [i \in 1..n - 1 |-> IF i = 1 THEN s[i] ELSE f[i - 1] \o s[i]]
  BY <1>5
<1> DEFINE g == [i \in 1..n |-> IF i < n THEN f[i] ELSE IF i = 1 THEN s[i] ELSE f[i - 1] \o s[i]]
<1>7. ASSUME NEW i \in 1..n PROVE g[i] = IF i = 1 THEN s[i] ELSE g[i - 1] \o s[i]
  <2>1. CASE i = n
    BY <1>3, <1>4, <2>1
  <2>2. CASE i < n
    <3>1. i \in 1..n - 1
      BY <1>3, <2>2
    <3>2. f[i] = IF i = 1 THEN s[i] ELSE f[i - 1] \o s[i]
      BY <1>6, <3>1
    <3>3. i # 1 => g[i - 1] = f[i - 1]
      BY <1>3, <2>2
    <3> QED BY <2>2, <3>2, <3>3
  <2> QED BY <1>3, <2>1, <2>2
<1>8. g = [i \in 1..n |-> IF i = 1 THEN s[i] ELSE g[i - 1] \o s[i]]
  <2>1. g = [i \in 1..n |-> g[i]]
    OBVIOUS
  <2> HIDE DEF g
  <2> QED BY <1>7, <2>1
<1> QED
  <2> HIDE DEF g
  <2> QED BY <1>3, <1>8

LEMMA FlattenIsLast ==
  ASSUME NEW D, NEW s \in Seq(D), s # <<>>
  PROVE  \E g : Accumulated(s, g) /\ FlattenSeq(s) = g[Len(s)]
<1> DEFINE h == CHOOSE g : g = [i \in 1..Len(s) |-> IF i = 1 THEN s[i] ELSE g[i - 1] \o s[i]]
<1>1. h = [i \in 1..Len(s) |-> IF i = 1 THEN s[i] ELSE h[i - 1] \o s[i]]
  BY AccumulatedExists DEF Accumulated
<1>2. Len(s) # 0
  OBVIOUS
<1>3. FlattenSeq(s) = h[Len(s)]
  BY <1>2 DEF FlattenSeq
<1> QED BY <1>1, <1>3 DEF Accumulated

\* Induction along a sequence: what holds of 1 and goes on to the next.
LEMMA AlongTo ==
  ASSUME NEW n \in Nat, NEW G \in SUBSET Nat,
         n > 0 => 1 \in G,
         \A i \in 1..n - 1 : i \in G => i + 1 \in G
  PROVE  1..n \subseteq G
<1> DEFINE Bad == (1..n) \ G
<1> SUFFICES ASSUME Bad # {} PROVE FALSE
  OBVIOUS
<1>1. Bad \in SUBSET Nat
  OBVIOUS
<1>2. PICK m \in Bad : \A k \in Bad : m <= k
  <2> HIDE DEF Bad
  <2> QED BY <1>1, LeastNumber
<1>3. m # 1 /\ m - 1 \in 1..n - 1 /\ m - 1 \notin Bad
  BY <1>2
<1>4. m - 1 \in G
  BY <1>3
<1> QED BY <1>3, <1>4

LEMMA AccumulatedSteps ==
  ASSUME NEW s, Len(s) \in Nat, NEW f, Accumulated(s, f)
  PROVE  /\ Len(s) > 0 => f[1] = s[1]
         /\ \A i \in 1..Len(s) - 1 : f[i + 1] = f[i] \o s[i + 1]
<1>1. Len(s) > 0 => f[1] = s[1]
  BY DEF Accumulated
<1>2. ASSUME NEW i \in 1..Len(s) - 1 PROVE f[i + 1] = f[i] \o s[i + 1]
  <2>1. i + 1 \in 1..Len(s) /\ i + 1 # 1 /\ (i + 1) - 1 = i
    OBVIOUS
  <2> QED BY <2>1 DEF Accumulated
<1> QED BY <1>1, <1>2

LEMMA AccumulatedType ==
  ASSUME NEW E, Joins(E), NEW s \in Seq(E), NEW f, Accumulated(s, f)
  PROVE  \A i \in 1..Len(s) : f[i] \in E
<1> DEFINE G == {i \in 1..Len(s) : f[i] \in E}
<1>3. Len(s) \in Nat /\ \A i \in 1..Len(s) : s[i] \in E
  OBVIOUS
<1>4. Len(s) > 0 => 1 \in G
  <2>1. Len(s) > 0 => f[1] = s[1]
    BY <1>3, AccumulatedSteps
  <2> QED BY <1>3, <2>1
<1>5. ASSUME NEW i \in 1..Len(s) - 1, i \in G PROVE i + 1 \in G
  <2>1. f[i + 1] = f[i] \o s[i + 1]
    BY <1>3, AccumulatedSteps
  <2>2. i + 1 \in 1..Len(s)
    BY <1>3
  <2> QED BY <1>3, <1>5, <2>1, <2>2 DEF Joins
<1>6. 1..Len(s) \subseteq G
  <2>1. G \in SUBSET Nat
    OBVIOUS
  <2> HIDE DEF G
  <2> QED BY <1>3, <1>4, <1>5, <2>1, AlongTo
<1> QED BY <1>6

LEMMA FlattenType ==
  ASSUME NEW E, Joins(E), <<>> \in E, NEW s \in Seq(E)
  PROVE  FlattenSeq(s) \in E
<1>1. CASE s = <<>>
  BY <1>1 DEF FlattenSeq
<1>2. CASE s # <<>>
  <2>1. PICK g : Accumulated(s, g) /\ FlattenSeq(s) = g[Len(s)]
    BY <1>2, FlattenIsLast
  <2>2. \A i \in 1..Len(s) : g[i] \in E
    BY <2>1, AccumulatedType
  <2>3. Len(s) \in 1..Len(s)
    BY <1>2
  <2> QED BY <2>1, <2>2, <2>3
<1> QED BY <1>1, <1>2

\* FlattenSeq takes in one more sequence at the end.
LEMMA FlattenAppend ==
  ASSUME NEW E, Joins(E), NEW s \in Seq(E), NEW b \in E
  PROVE  FlattenSeq(Append(s, b)) = FlattenSeq(s) \o b
<1> DEFINE t == Append(s, b)
<1>3. /\ t \in Seq(E) /\ t # <<>>
      /\ Len(s) \in Nat /\ Len(t) = Len(s) + 1
      /\ t[Len(s) + 1] = b /\ \A i \in 1..Len(s) : t[i] = s[i]
  OBVIOUS
<1> HIDE DEF t
<1>4. PICK g : Accumulated(t, g) /\ FlattenSeq(t) = g[Len(t)]
  BY <1>3, FlattenIsLast
<1>5. g[1] = t[1] /\ \A i \in 1..Len(s) : g[i + 1] = g[i] \o t[i + 1]
  <2>1. Len(t) - 1 = Len(s) /\ Len(t) > 0 /\ Len(t) \in Nat
    BY <1>3
  <2> QED BY <1>4, <2>1, AccumulatedSteps
<1>6. CASE s = <<>>
  <2>1. FlattenSeq(s) = s
    BY <1>6 DEF FlattenSeq
  <2>2. Len(t) = 1 /\ t[1] = b
    BY <1>3, <1>6
  <2> QED BY <1>4, <1>5, <1>6, <2>1, <2>2 DEF t, Joins
<1>7. CASE s # <<>>
  <2>1. PICK f : Accumulated(s, f) /\ FlattenSeq(s) = f[Len(s)]
    BY <1>7, FlattenIsLast
  <2>2. Len(s) > 0
    BY <1>7
  <2>3. f[1] = s[1] /\ \A i \in 1..Len(s) - 1 : f[i + 1] = f[i] \o s[i + 1]
    BY <1>3, <2>1, <2>2, AccumulatedSteps
  <2> DEFINE G == {i \in 1..Len(s) : f[i] = g[i]}
  <2>4. 1 \in G
    BY <1>3, <1>5, <2>2, <2>3
  <2>5. ASSUME NEW i \in 1..Len(s) - 1, i \in G PROVE i + 1 \in G
    <3>1. i \in 1..Len(s) /\ i + 1 \in 1..Len(s)
      BY <1>3
    <3> QED BY <1>3, <1>5, <2>3, <2>5, <3>1
  <2>6. 1..Len(s) \subseteq G
    <3>1. G \in SUBSET Nat
      OBVIOUS
    <3> HIDE DEF G
    <3> QED BY <1>3, <2>4, <2>5, <3>1, AlongTo
  <2>7. f[Len(s)] = g[Len(s)] /\ Len(s) \in 1..Len(s)
    BY <1>3, <2>2, <2>6
  <2> QED BY <1>3, <1>4, <1>5, <2>1, <2>7 DEF t
<1> QED BY <1>6, <1>7

\* FlattenSeq gives up its first sequence at the front.
LEMMA FlattenTail ==
  ASSUME NEW E, Joins(E), NEW s \in Seq(E), s # <<>>
  PROVE  FlattenSeq(s) = Head(s) \o FlattenSeq(Tail(s))
<1> DEFINE t == Tail(s)
<1>5. /\ t \in Seq(E) /\ Head(s) = s[1] /\ s[1] \in E
      /\ Len(s) \in Nat /\ Len(t) \in Nat /\ Len(s) = Len(t) + 1
      /\ \A i \in 1..Len(t) : t[i] = s[i + 1] /\ t[i] \in E
  OBVIOUS
<1> HIDE DEF t
<1>6. PICK f : Accumulated(s, f) /\ FlattenSeq(s) = f[Len(s)]
  BY FlattenIsLast
<1>7. f[1] = s[1] /\ \A i \in 1..Len(t) : f[i + 1] = f[i] \o s[i + 1]
  <2>1. Len(s) - 1 = Len(t) /\ Len(s) > 0
    BY <1>5
  <2>2. /\ Len(s) > 0 => f[1] = s[1]
        /\ \A i \in 1..Len(s) - 1 : f[i + 1] = f[i] \o s[i + 1]
    BY <1>5, <1>6, AccumulatedSteps
  <2> QED BY <2>1, <2>2
<1>8. CASE t = <<>>
  <2>1. FlattenSeq(t) = t
    BY <1>8 DEF FlattenSeq
  <2>2. Len(s) = 1
    BY <1>5, <1>8
  <2> QED BY <1>5, <1>6, <1>7, <1>8, <2>1, <2>2 DEF t, Joins
<1>9. CASE t # <<>>
  <2>1. PICK g : Accumulated(t, g) /\ FlattenSeq(t) = g[Len(t)]
    BY <1>5, <1>9, FlattenIsLast
  <2>2. Len(t) > 0
    BY <1>5, <1>9
  <2>3. g[1] = t[1] /\ \A i \in 1..Len(t) - 1 : g[i + 1] = g[i] \o t[i + 1]
    BY <1>5, <2>1, <2>2, AccumulatedSteps
  <2>4. \A i \in 1..Len(t) : g[i] \in E
    BY <1>5, <2>1, AccumulatedType
  <2> DEFINE k == [i \in 1..Len(t) |-> s[1] \o g[i]]
             G == {i \in 1..Len(t) : f[i + 1] = k[i]}
  <2>9. \A i \in 1..Len(t) : k[i] = s[1] \o g[i]
    OBVIOUS
  <2> HIDE DEF k
  <2>5. 1 \in G
    <3>1. 1 \in 1..Len(t) /\ 1 + 1 = 2
      BY <1>5, <2>2
    <3>2. f[1 + 1] = f[1] \o s[1 + 1]
      BY <1>7, <3>1
    <3>3. s[1 + 1] = g[1] /\ f[1] = s[1]
      BY <1>5, <1>7, <2>3, <3>1
    <3>4. f[1 + 1] = k[1]
      BY <2>9, <3>1, <3>2, <3>3
    <3> QED BY <3>1, <3>4
  <2>6. ASSUME NEW i \in 1..Len(t) - 1, i \in G PROVE i + 1 \in G
    <3>1. i \in 1..Len(t) /\ i + 1 \in 1..Len(t)
      BY <1>5
    <3>2. f[(i + 1) + 1] = f[i + 1] \o t[i + 1]
      BY <1>5, <1>7, <3>1
    <3>3. g[i + 1] = g[i] \o t[i + 1]
      BY <2>3
    <3>4. (s[1] \o g[i]) \o t[i + 1] = s[1] \o (g[i] \o t[i + 1])
      BY <1>5, <2>4, <3>1 DEF Joins
    <3> QED BY <2>6, <2>9, <3>1, <3>2, <3>3, <3>4
  <2>7. 1..Len(t) \subseteq G
    <3>1. G \in SUBSET Nat
      OBVIOUS
    <3> HIDE DEF G
    <3> QED BY <1>5, <2>5, <2>6, <3>1, AlongTo
  <2>8. Len(t) \in G
    BY <1>5, <2>2, <2>7
  <2> QED BY <1>5, <1>6, <2>1, <2>8, <2>9 DEF t
<1> QED BY <1>8, <1>9
-----------------------------------------------------------------------------
(* Batches: sequences of marked packets, which the steps below only append *)
(* to, join and cut.                                                       *)

LEMMA BatchesJoin == Joins(Batches)
BY SequencesJoin DEF Batches

LEMMA NoBatch ==
  /\ <<>> \in Batches /\ <<>> \in Seq(Batches) /\ Range(<<>>) = {}
  /\ FlattenSeq(<<>>) = <<>>
BY DEF Batches, FlattenSeq, Range

LEMMA LongerBatch ==
  ASSUME NEW b \in Batches, NEW p \in Marked
  PROVE  Append(b, p) \in Batches /\ Range(Append(b, p)) = Range(b) \cup {p}
<1>1. Append(b, p) \in Batches
  BY DEF Batches
<1>2. DOMAIN b = 1..Len(b) /\ Len(b) \in Nat /\ DOMAIN Append(b, p) = 1..Len(b) + 1
  BY DEF Batches
<1>3. Append(b, p)[Len(b) + 1] = p /\ \A i \in 1..Len(b) : Append(b, p)[i] = b[i]
  BY DEF Batches
<1>4. 1..Len(b) + 1 = 1..Len(b) \cup {Len(b) + 1}
  BY <1>2
<1> QED BY <1>1, <1>2, <1>3, <1>4 DEF Range

LEMMA JoinedBatch ==
  ASSUME NEW a \in Batches, NEW b \in Batches
  PROVE  a \o b \in Batches /\ Range(a \o b) \subseteq Range(a) \cup Range(b)
<1>1. a \o b \in Batches
  BY DEF Batches
<1>2. /\ DOMAIN a = 1..Len(a) /\ DOMAIN b = 1..Len(b) /\ DOMAIN (a \o b) = 1..Len(a) + Len(b)
      /\ Len(a) \in Nat /\ Len(b) \in Nat
  BY DEF Batches
<1>3. ASSUME NEW i \in 1..Len(a) + Len(b) PROVE (a \o b)[i] \in Range(a) \cup Range(b)
  <2>1. CASE i <= Len(a)
    <3>1. i \in 1..Len(a) /\ (a \o b)[i] = a[i]
      BY <1>2, <2>1 DEF Batches
    <3> QED BY <1>2, <3>1 DEF Range
  <2>2. CASE i > Len(a)
    <3>1. i - Len(a) \in 1..Len(b) /\ (a \o b)[i] = b[i - Len(a)]
      BY <1>2, <2>2 DEF Batches
    <3> QED BY <1>2, <3>1 DEF Range
  <2> QED BY <1>2, <2>1, <2>2
<1> QED BY <1>1, <1>2, <1>3 DEF Range

\* What is left when a part of a batch has gone.
LEMMA RestOfBatch ==
  ASSUME NEW b \in Batches, NEW n \in Nat
  PROVE  /\ SubSeq(b, n + 1, Len(b)) \in Batches
         /\ Range(SubSeq(b, n + 1, Len(b))) \subseteq Range(b)
<1> DEFINE r == SubSeq(b, n + 1, Len(b))
<1>1. r \in Batches
  BY DEF Batches
<1>2. DOMAIN b = 1..Len(b) /\ Len(b) \in Nat
  BY DEF Batches
<1>3. \A i \in DOMAIN r : n + i \in 1..Len(b) /\ r[i] = b[n + i]
  BY <1>2 DEF Batches
<1> QED BY <1>1, <1>2, <1>3 DEF Range

LEMMA RestOfJoin ==
  ASSUME NEW a \in Batches, NEW b \in Batches
  PROVE  SubSeq(a \o b, Len(a) + 1, Len(a \o b)) = b
<1> DEFINE r == SubSeq(a \o b, Len(a) + 1, Len(a \o b))
<1>1. /\ Len(a) \in Nat /\ Len(b) \in Nat /\ Len(a \o b) = Len(a) + Len(b) /\ a \o b \in Batches
  BY DEF Batches
<1>2. r \in Batches /\ Len(r) = Len(b) /\ b \in Batches
  BY <1>1 DEF Batches
<1>3. ASSUME NEW i \in 1..Len(b) PROVE r[i] = b[i]
  <2>1. r[i] = (a \o b)[Len(a) + i]
    BY <1>1 DEF Batches
  <2>2. (a \o b)[Len(a) + i] = b[i]
    BY <1>1 DEF Batches
  <2> QED BY <2>1, <2>2
<1> HIDE DEF r
<1>4. r = b
  BY <1>2, <1>3, SeqEqual DEF Batches
<1> QED BY <1>4 DEF r

\* A frame and what is left over are the packets that were merged.
LEMMA FrameAndLeftOver ==
  ASSUME NEW b \in Batches
  PROVE  /\ Frame(b) \in Batches /\ LeftOver(b) \in Batches
         /\ Frame(b) \o LeftOver(b) = b
<1>1. MaxBatchSize \in Nat /\ Len(b) \in Nat
  BY PathAssumption DEF Batches
<1>2. LeftOver(b) \in Batches
  BY <1>1, RestOfBatch DEF LeftOver
<1>3. CASE Len(b) > MaxBatchSize
  <2> DEFINE f == SubSeq(b, 1, MaxBatchSize)
             l == SubSeq(b, MaxBatchSize + 1, Len(b))
  <2>1. f \in Seq(Marked) /\ Len(f) = MaxBatchSize /\ \A i \in 1..MaxBatchSize : f[i] = b[i]
    BY <1>1, <1>3 DEF Batches
  <2>2. /\ l \in Seq(Marked) /\ Len(l) = Len(b) - MaxBatchSize
        /\ \A i \in 1..Len(b) - MaxBatchSize : l[i] = b[MaxBatchSize + i]
    BY <1>1, <1>3 DEF Batches
  <2> HIDE DEF f, l
  <2>3. f \o l \in Seq(Marked) /\ Len(f \o l) = Len(b)
    <3>1. f \in Seq(Marked) /\ l \in Seq(Marked)
      BY <2>1, <2>2
    <3>2. f \o l \in Seq(Marked) /\ Len(f \o l) = Len(f) + Len(l)
      BY <3>1
    <3> QED BY <1>1, <1>3, <2>1, <2>2, <3>2
  <2>4. ASSUME NEW i \in 1..Len(b) PROVE (f \o l)[i] = b[i]
    <3>1. CASE i <= MaxBatchSize
      BY <1>1, <1>3, <2>1, <2>2, <3>1
    <3>2. CASE i > MaxBatchSize
      <4>1. i - MaxBatchSize \in 1..Len(b) - MaxBatchSize
        BY <1>1, <1>3, <3>2
      <4>2. (f \o l)[i] = l[i - MaxBatchSize]
        BY <1>1, <1>3, <2>1, <2>2, <3>2
      <4> QED BY <1>1, <2>2, <4>1, <4>2
    <3>3. i <= MaxBatchSize \/ i > MaxBatchSize
      BY <1>1
    <3> QED BY <3>1, <3>2, <3>3
  <2>5. f \o l = b
    BY <2>3, <2>4, SeqEqual DEF Batches
  <2> QED BY <1>2, <1>3, <2>1, <2>5 DEF f, l, Frame, LeftOver, Batches
<1>4. CASE ~(Len(b) > MaxBatchSize)
  <2>1. LeftOver(b) = <<>>
    BY <1>1, <1>4 DEF LeftOver, Batches
  <2> QED BY <1>2, <1>4, <2>1, BatchesJoin DEF Frame, Joins
<1> QED BY <1>3, <1>4
-----------------------------------------------------------------------------
(* The inductive invariant *)

\* A connection is a member of its multiplexer at most, and has one from Open.
Belong ==
  /\ \A s \in Sessions : receiving[s] \subseteq members[s]
  /\ \A s \in Sessions : \A c \in members[s] : home[c] = s
  /\ \A c \in Clients : state[c] = "new" <=> home[c] = None

\* A round has what its place needs, and chose a connection of its multiplexer.
RoundAgrees(t) ==
  /\ thread[t].pc \in {"lookup", "shape", "choose", "rewrite"} => thread[t].todo # <<>>
  /\ thread[t].pc \in {"shape", "choose", "rewrite"} => thread[t].mplx # None
  /\ thread[t].pc \in {"rewrite", "push"} => thread[t].to # None
  /\ thread[t].pc = "rewrite" => home[thread[t].to] = thread[t].mplx

ThreadsAgree == \A t \in Threads : RoundAgrees(t)

\* A sender merges into an empty pending_, and starts with nothing to write.
SendersAgree ==
  \A c \in Clients :
    /\ sender[c].pc \in {"none", "receive"} => sender[c].packets = <<>>
    /\ sender[c].pc \in {"none", "merge"} => sender[c].pending = <<>>

PathInv == PacketsStayInSession /\ WrittenInOrder /\ Belong /\ ThreadsAgree /\ SendersAgree

-----------------------------------------------------------------------------
(* Types *)

LEMMA RoundParts ==
  ASSUME PathTypeOK, NEW t \in Threads
  PROVE  /\ thread[t] \in Rounds
         /\ thread[t].todo \in Seq(Packets) /\ thread[t].mplx \in Sessions \cup {None}
         /\ thread[t].to \in Clients \cup {None}
         /\ \A c \in Clients : thread[t].batches[c] \in Batches
BY DEF PathTypeOK, Rounds

LEMMA WriterParts ==
  ASSUME PathTypeOK, NEW c \in Clients
  PROVE  /\ sender[c] \in Writers
         /\ sender[c].packets \in Batches /\ sender[c].pending \in Batches
         /\ channel[c] \in Seq(Batches) /\ owed[c] \in Batches
BY DEF PathTypeOK, Writers

\* The next packet of a round that has one, and the rest.
LEMMA PacketParts ==
  ASSUME PathTypeOK, NEW t \in Threads, thread[t].todo # <<>>
  PROVE  Packet(t) \in Packets /\ Tail(thread[t].todo) \in Seq(Packets)
<1>1. thread[t].todo \in Seq(Packets)
  BY RoundParts
<1> QED BY <1>1 DEF Packet

LEMMA DroppedRound ==
  ASSUME PathTypeOK, NEW t \in Threads, thread[t].todo # <<>>
  PROVE  Advanced(thread[t]) \in Rounds
<1>1. Tail(thread[t].todo) \in Seq(Packets) /\ thread[t] \in Rounds
  BY PacketParts, RoundParts
<1> QED BY <1>1 DEF Advanced, Rounds

\* What a round of RunToClient leaves is a round again.
LEMMA RoundStep ==
  ASSUME PathInv, NEW t \in Threads, RunToClient(t)
  PROVE  thread' \in [Threads -> Rounds]
<1> USE DEF PathInv, PacketsStayInSession
<1>0. /\ thread \in [Threads -> Rounds] /\ thread[t] \in Rounds /\ network \in Seq(Packets)
      /\ table \in [Addresses -> Sessions \cup {None}]
      /\ receiving \in [Sessions -> SUBSET Clients]
  BY RoundParts DEF PathTypeOK
<1>1. ASSUME thread[t].todo # <<>>, Drop(t) PROVE thread' \in [Threads -> Rounds]
  <2>1. Advanced(thread[t]) \in Rounds
    BY <1>1, DroppedRound
  <2> QED BY <1>0, <1>1, <2>1 DEF Drop
<1>2. CASE WaitForPackets(t)
  <2>1. PICK n \in 1..Len(network) :
          thread' = [thread EXCEPT ![t].pc = "lookup", ![t].todo = SubSeq(network, 1, n)]
    BY <1>2 DEF WaitForPackets
  <2>2. SubSeq(network, 1, n) \in Seq(Packets)
    BY <1>0
  <2> QED BY <1>0, <2>1, <2>2 DEF Rounds
<1>3. CASE GetMultiplexerByFakeIP(t)
  <2>1. thread[t].todo # <<>> /\ Packet(t).dst \in Addresses
    BY <1>3, PacketParts DEF GetMultiplexerByFakeIP, ThreadsAgree, RoundAgrees, Packets
  <2>2. CASE table[Packet(t).dst] = None
    BY <1>1, <1>3, <2>1, <2>2 DEF GetMultiplexerByFakeIP
  <2>3. CASE table[Packet(t).dst] # None
    <3>1. table[Packet(t).dst] \in Sessions
      BY <1>0, <2>1, <2>3
    <3>2. thread' = [thread EXCEPT ![t].pc = "shape", ![t].mplx = table[Packet(t).dst]]
      BY <1>3, <2>3 DEF GetMultiplexerByFakeIP
    <3> QED BY <1>0, <3>1, <3>2 DEF Rounds
  <2> QED BY <2>2, <2>3
<1>4. CASE Shape(t)
  <2>1. thread[t].todo # <<>>
    BY <1>4 DEF Shape, ThreadsAgree, RoundAgrees
  <2>2. CASE Drop(t)
    BY <1>1, <2>1, <2>2
  <2>3. CASE Goto(t, "choose")
    BY <1>0, <2>3 DEF Goto, Rounds
  <2> QED BY <1>4, <2>2, <2>3 DEF Shape
<1>5. CASE NextReceiverClientId(t)
  <2>1. thread[t].todo # <<>> /\ thread[t].mplx \in Sessions
    BY <1>0, <1>5 DEF NextReceiverClientId, ThreadsAgree, RoundAgrees, Rounds
  <2>2. CASE Drop(t)
    BY <1>1, <2>1, <2>2
  <2>3. ASSUME NEW c \in Receivers(t),
               thread' = [thread EXCEPT ![t].pc = "rewrite", ![t].to = c]
        PROVE  thread' \in [Threads -> Rounds]
    <3>1. c \in Clients
      BY <1>0, <2>1 DEF Receivers
    <3> QED BY <1>0, <2>3, <3>1 DEF Rounds
  <2> QED BY <1>5, <2>2, <2>3 DEF NextReceiverClientId
<1>6. CASE ChangeIPAddressToClientIP(t)
  <2>1. thread[t].todo # <<>> /\ thread[t].mplx \in Sessions /\ thread[t].to \in Clients
    BY <1>0, <1>6 DEF ChangeIPAddressToClientIP, ThreadsAgree, RoundAgrees, Rounds
  <2>2. CASE Drop(t)
    BY <1>1, <2>1, <2>2
  <2> DEFINE c == thread[t].to
             packet == [id |-> Packet(t).id, via |-> thread[t].mplx]
             r == Advanced(thread[t])
  <2>3. CASE thread' = [thread EXCEPT ![t] = [r EXCEPT !.batches[c] = Append(@, packet)]]
    <3>1. Advanced(thread[t]) \in Rounds /\ Advanced(thread[t]).batches = thread[t].batches
      BY <1>0, <2>1, DroppedRound DEF Advanced, Rounds
    <3>2. packet \in Marked
      BY <2>1, PacketParts DEF Packets, Marked
    <3>3. Append(thread[t].batches[c], packet) \in Batches
      BY <2>1, <3>2, RoundParts, LongerBatch
    <3>4. r \in Rounds /\ Append(r.batches[c], packet) \in Batches
      BY <3>1, <3>3
    <3>5. thread' = [thread EXCEPT ![t] = [r EXCEPT !.batches[c] = Append(@, packet)]]
      BY <2>3
    <3> HIDE DEF packet, r
    <3>6. [r EXCEPT !.batches[c] = Append(@, packet)] \in Rounds
      BY <2>1, <3>4 DEF Rounds
    <3> QED BY <1>0, <3>5, <3>6
  <2> QED BY <1>6, <2>2, <2>3 DEF ChangeIPAddressToClientIP
<1>7. CASE FindSession(t)
  <2>1. CASE Goto(t, "wait")
    BY <1>0, <2>1 DEF Goto, Rounds
  <2>2. ASSUME NEW c \in Clients,
               thread' = IF state[c] = "open"
                           THEN [thread EXCEPT ![t].pc = "push", ![t].to = c]
                           ELSE [thread EXCEPT ![t].batches[c] = <<>>]
        PROVE  thread' \in [Threads -> Rounds]
    BY <1>0, <2>2, NoBatch DEF Rounds
  <2> QED BY <1>7, <2>1, <2>2 DEF FindSession
<1>8. CASE TrySend(t)
  <2>1. thread[t].to \in Clients
    BY <1>0, <1>8 DEF TrySend, ThreadsAgree, RoundAgrees, Rounds
  <2>2. thread' = [thread EXCEPT ![t].pc = "send", ![t].to = None,
                                 ![t].batches[thread[t].to] = <<>>]
    BY <1>8 DEF TrySend
  <2> QED BY <1>0, <2>1, <2>2, NoBatch DEF Rounds
<1> QED BY <1>2, <1>3, <1>4, <1>5, <1>6, <1>7, <1>8 DEF RunToClient

WritersOK == /\ channel \in [Clients -> Seq(Batches)] /\ sender \in [Clients -> Writers]
             /\ owed \in [Clients -> Batches]

LEMMA WriterStep ==
  ASSUME PathTypeOK, NEW c \in Clients, RunSender(c)
  PROVE  WritersOK'
<1>0. WritersOK /\ sender[c] \in Writers /\ channel[c] \in Seq(Batches) /\ owed[c] \in Batches
  BY WriterParts DEF PathTypeOK, WritersOK
<1>1. ASSUME channel[c] # <<>>
      PROVE  Head(channel[c]) \in Batches /\ Tail(channel[c]) \in Seq(Batches)
  BY <1>0, <1>1
<1>2. CASE Accepted(c)
  BY <1>0, <1>2 DEF Accepted, WritersOK, Writers
<1>3. CASE Receive(c)
  <2>1. CASE sender[c].pending # <<>>
    <3>1. sender[c].pending \in Batches /\ <<>> \in Batches
      BY WriterParts, NoBatch
    <3>2. /\ sender' = [sender EXCEPT ![c] = [pc |-> "merge", packets |-> sender[c].pending,
                                              pending |-> <<>>]]
          /\ UNCHANGED <<channel, owed>>
      BY <1>3, <2>1 DEF Receive
    <3>3. [pc |-> "merge", packets |-> sender[c].pending, pending |-> <<>>] \in Writers
      BY <3>1 DEF Writers
    <3> QED BY <1>0, <3>2, <3>3 DEF WritersOK
  <2>2. CASE sender[c].pending = <<>>
    <3>1. channel[c] # <<>>
      BY <1>3, <2>2 DEF Receive, HasWork
    <3>2. /\ sender' = [sender EXCEPT ![c].pc = "merge", ![c].packets = Head(channel[c])]
          /\ channel' = [channel EXCEPT ![c] = Tail(channel[c])] /\ owed' = owed
      BY <1>3, <2>2 DEF Receive
    <3> QED BY <1>0, <1>1, <3>1, <3>2 DEF WritersOK, Writers
  <2> QED BY <2>1, <2>2
<1>4. CASE Merge(c)
  <2>1. channel[c] # <<>> /\ sender[c].packets \in Batches
    BY <1>4, WriterParts DEF Merge, MayMerge
  <2>2. sender[c].packets \o Head(channel[c]) \in Batches
    BY <1>1, <2>1, JoinedBatch
  <2>3. /\ sender' = [sender EXCEPT ![c].packets = sender[c].packets \o Head(channel[c])]
        /\ channel' = [channel EXCEPT ![c] = Tail(channel[c])] /\ owed' = owed
    BY <1>0, <1>4 DEF Merge, WritersOK
  <2> QED BY <1>0, <1>1, <2>1, <2>2, <2>3 DEF WritersOK, Writers
<1>5. CASE Split(c)
  <2>1. Frame(sender[c].packets) \in Batches /\ LeftOver(sender[c].packets) \in Batches
    BY WriterParts, FrameAndLeftOver
  <2> QED BY <1>0, <1>5, <2>1 DEF Split, WritersOK, Writers
<1>6. CASE WriteFrame(c)
  <2> DEFINE rest == SubSeq(owed[c], Len(sender[c].packets) + 1, Len(owed[c]))
  <2>1. rest \in Batches
    <3>1. Len(sender[c].packets) \in Nat
      BY WriterParts DEF Batches
    <3> QED BY <1>0, <3>1, RestOfBatch
  <2>2. /\ owed' = [owed EXCEPT ![c] = rest] /\ channel' = channel
        /\ sender' = [sender EXCEPT ![c].pc = "receive", ![c].packets = <<>>]
    BY <1>0, <1>6 DEF WriteFrame, WritersOK
  <2> HIDE DEF rest
  <2> QED BY <1>0, <2>1, <2>2, NoBatch DEF WritersOK, Writers
<1> QED BY <1>2, <1>3, <1>4, <1>5, <1>6 DEF RunSender

\* A batch that finds room goes to the end of the channel.
LEMMA SentStep ==
  ASSUME PathInv, NEW t \in Threads, TrySend(t)
  PROVE  WritersOK'
<1> DEFINE c == thread[t].to
           batch == thread[t].batches[c]
<1>0. PathTypeOK /\ WritersOK
  BY DEF PathInv, PacketsStayInSession, PathTypeOK, WritersOK
<1>1. c \in Clients /\ batch \in Batches
  <2>1. c # None
    BY DEF PathInv, TrySend, ThreadsAgree, RoundAgrees
  <2> QED BY <1>0, <2>1, RoundParts
<1>2. Append(channel[c], batch) \in Seq(Batches) /\ owed[c] \o batch \in Batches
  <2>1. channel[c] \in Seq(Batches) /\ owed[c] \in Batches
    BY <1>0, <1>1, WriterParts
  <2> HIDE DEF batch, c
  <2> QED BY <1>1, <2>1, JoinedBatch
<1>3. /\ sender' = sender
      /\ \/ /\ channel' = [channel EXCEPT ![c] = Append(channel[c], batch)]
            /\ owed' = [owed EXCEPT ![c] = owed[c] \o batch]
         \/ UNCHANGED <<channel, owed>>
  BY <1>0, <1>1 DEF TrySend, WritersOK
<1> HIDE DEF batch, c
<1> QED BY <1>0, <1>1, <1>2, <1>3 DEF WritersOK

\* The table, its multiplexers and the sessions they are for.
NatOK ==
  /\ table \in [Addresses -> Sessions \cup {None}]
  /\ members \in [Sessions -> SUBSET Clients] /\ receiving \in [Sessions -> SUBSET Clients]
  /\ home \in [Clients -> Sessions \cup {None}]
  /\ state \in [Clients -> {"new", "open", "closing", "closed"}]

LEMMA NatStep ==
  ASSUME NatOK, NEW c \in Clients,
         Open(c) \/ Close(c) \/ DoClose(c) \/ StartReceiving(c) \/ Expire(c)
  PROVE  NatOK'
<1>1. CASE Open(c)
  BY <1>1 DEF Open, NatOK
<1>2. CASE Close(c)
  BY <1>2 DEF Close, NatOK, nat
<1>3. CASE DoClose(c)
  <2>1. CASE Released(home[c])
    BY <1>3, <2>1 DEF DoClose, Forget, Drops, Released, NatOK
  <2>2. CASE UNCHANGED table
    BY <1>3, <2>2 DEF DoClose, Forget, Drops, NatOK
  <2> QED BY <1>3, <2>1, <2>2 DEF DoClose, Forget
<1>4. CASE StartReceiving(c)
  BY <1>4 DEF StartReceiving, NatOK
<1>5. CASE Expire(c)
  BY <1>5 DEF Expire, Drops, NatOK
<1> QED BY <1>1, <1>2, <1>3, <1>4, <1>5

LEMMA TypeStep == PathInv /\ [PathNext]_vars => PathTypeOK'
<1> SUFFICES ASSUME PathInv, [PathNext]_vars PROVE PathTypeOK'
  OBVIOUS
<1>0. /\ PathTypeOK /\ NatOK /\ WritersOK /\ thread \in [Threads -> Rounds]
      /\ network \in Seq(Packets) /\ arrived \in 0..MaxPackets
  BY DEF PathInv, PacketsStayInSession, PathTypeOK, NatOK, WritersOK
<1> DEFINE Whole == /\ NatOK /\ WritersOK /\ thread \in [Threads -> Rounds]
                    /\ network \in Seq(Packets) /\ arrived \in 0..MaxPackets
<1> SUFFICES Whole'
  BY DEF PathTypeOK, NatOK, WritersOK
<1>1. ASSUME UNCHANGED <<nat, state>> PROVE NatOK'
  BY <1>0, <1>1 DEF NatOK, nat
<1>2. ASSUME UNCHANGED web PROVE WritersOK'
  BY <1>0, <1>2 DEF WritersOK, web
<1>3. ASSUME UNCHANGED <<network, thread, arrived>>
      PROVE  /\ thread' \in [Threads -> Rounds]
             /\ network' \in Seq(Packets) /\ arrived' \in 0..MaxPackets
  BY <1>0, <1>3
<1>4. ASSUME NEW c \in Clients, Open(c) \/ Close(c) \/ StartReceiving(c) \/ Expire(c)
      PROVE  Whole'
  <2>1. UNCHANGED web /\ UNCHANGED <<network, thread, arrived>>
    BY <1>4 DEF Open, Close, StartReceiving, Expire
  <2> QED BY <1>0, <1>2, <1>3, <1>4, <2>1, NatStep
<1>5. ASSUME NEW c \in Clients, DoClose(c) PROVE Whole'
  <2>1. UNCHANGED <<network, thread, arrived>>
    BY <1>5 DEF DoClose
  <2>2. WritersOK'
    BY <1>0, <1>5, NoBatch DEF DoClose, WritersOK, Idle, Writers
  <2> QED BY <1>0, <1>3, <1>5, <2>1, <2>2, NatStep
<1>6. ASSUME NEW c \in Clients, RunSender(c) PROVE Whole'
  <2>1. UNCHANGED <<nat, state>> /\ UNCHANGED <<network, thread, arrived>>
    BY <1>6 DEF RunSender, Accepted, Receive, Merge, Split, WriteFrame
  <2> QED BY <1>0, <1>1, <1>3, <1>6, <2>1, WriterStep
<1>7. ASSUME NEW s \in Sessions, ReleaseEmptied(s) PROVE Whole'
  <2>1. UNCHANGED web /\ UNCHANGED <<network, thread, arrived>>
    BY <1>7 DEF ReleaseEmptied
  <2>2. NatOK'
    BY <1>0, <1>7 DEF ReleaseEmptied, Released, NatOK
  <2> QED BY <1>2, <1>3, <2>1, <2>2
<1>8. ASSUME NEW a \in Addresses, Arrive(a) PROVE Whole'
  <2>1. UNCHANGED <<nat, state>> /\ UNCHANGED web /\ thread' = thread
    BY <1>8 DEF Arrive
  <2>2. arrived' = arrived + 1 /\ arrived' \in 1..MaxPackets
    <3>1. MaxPackets \in Nat
      BY PathAssumption
    <3> QED BY <1>0, <1>8, <3>1 DEF Arrive
  <2>3. network' \in Seq(Packets)
    <3>1. [id |-> arrived', dst |-> a] \in Packets
      BY <2>2 DEF Packets
    <3> QED BY <1>0, <1>8, <3>1 DEF Arrive
  <2> QED BY <1>0, <1>1, <1>2, <2>1, <2>2, <2>3
<1>9. ASSUME NEW t \in Threads, RunToClient(t) PROVE Whole'
  <2>1. UNCHANGED <<nat, state>> /\ arrived' = arrived
    BY <1>9 DEF RunToClient, WaitForPackets, GetMultiplexerByFakeIP, Shape,
                NextReceiverClientId, ChangeIPAddressToClientIP, FindSession, TrySend
  <2>2. WritersOK'
    <3>1. CASE TrySend(t)
      BY <3>1, SentStep
    <3>2. CASE ~TrySend(t)
      BY <1>2, <1>9, <3>2 DEF RunToClient, WaitForPackets, GetMultiplexerByFakeIP, Shape,
                NextReceiverClientId, ChangeIPAddressToClientIP, FindSession
    <3> QED BY <3>1, <3>2
  <2>3. network' \in Seq(Packets)
    <3>1. CASE WaitForPackets(t)
      <4>1. PICK n \in 1..Len(network) : network' = SubSeq(network, n + 1, Len(network))
        BY <3>1 DEF WaitForPackets
      <4> QED BY <1>0, <4>1
    <3>2. CASE ~WaitForPackets(t)
      BY <1>0, <1>9, <3>2 DEF RunToClient, GetMultiplexerByFakeIP, Shape,
                NextReceiverClientId, ChangeIPAddressToClientIP, FindSession, TrySend
    <3> QED BY <3>1, <3>2
  <2> QED BY <1>0, <1>1, <1>9, <2>1, <2>2, <2>3, RoundStep
<1>10. ASSUME UNCHANGED vars PROVE Whole'
  <2>1. UNCHANGED <<nat, state>> /\ UNCHANGED web /\ UNCHANGED <<network, thread, arrived>>
    BY <1>10 DEF vars
  <2> QED BY <1>1, <1>2, <1>3, <2>1
<1> QED BY <1>4, <1>5, <1>6, <1>7, <1>8, <1>9, <1>10 DEF PathNext
-----------------------------------------------------------------------------
(* Connections, rounds and senders *)

\* A connection keeps the multiplexer it joined.
LEMMA HomeStep ==
  ASSUME PathInv, [PathNext]_vars
  PROVE  \A c \in Clients : home[c] # None => home'[c] = home[c]
<1>0. NatOK /\ Belong
  BY DEF PathInv, PacketsStayInSession, PathTypeOK, NatOK
<1>1. ASSUME NEW c \in Clients, Open(c)
      PROVE  \A d \in Clients : home[d] # None => home'[d] = home[d]
  <2>1. home[c] = None
    BY <1>0, <1>1 DEF Open, Belong
  <2> QED BY <1>0, <1>1, <2>1 DEF Open, NatOK
<1>2. CASE \A c \in Clients : ~Open(c)
  <2>1. home' = home
    BY <1>2 DEF PathNext, vars, nat, Close, DoClose, Forget, StartReceiving, Expire, ReleaseEmptied,
         RunSender, Accepted, Receive, Merge, Split, WriteFrame, Arrive, RunToClient,
         WaitForPackets, GetMultiplexerByFakeIP, Shape, NextReceiverClientId,
         ChangeIPAddressToClientIP, FindSession, TrySend
  <2> QED BY <2>1
<1> QED BY <1>1, <1>2

LEMMA BelongStep == PathInv /\ [PathNext]_vars => Belong'
<1> SUFFICES ASSUME PathInv, [PathNext]_vars PROVE Belong'
  OBVIOUS
<1>0. NatOK /\ Belong
  BY DEF PathInv, PacketsStayInSession, PathTypeOK, NatOK
<1>1. ASSUME UNCHANGED <<members, receiving, home, state>> PROVE Belong'
  BY <1>0, <1>1 DEF Belong
<1>2. ASSUME NEW c \in Clients, Open(c) PROVE Belong'
  <2>1. PICK s \in Sessions :
          /\ home' = [home EXCEPT ![c] = s] /\ members' = [members EXCEPT ![s] = @ \cup {c}]
          /\ \E R \in {{}, {c}} : receiving' = [receiving EXCEPT ![s] = @ \cup R]
    BY <1>2 DEF Open
  <2>2. home[c] = None /\ state' = [state EXCEPT ![c] = "open"]
    BY <1>0, <1>2 DEF Open, Belong
  <2>3. \A r \in Sessions : c \notin members[r]
    BY <1>0, <2>2, PathAssumption DEF Belong
  <2>4. \A r \in Sessions : receiving'[r] \subseteq members'[r]
    BY <1>0, <2>1 DEF Belong, NatOK
  <2>5. \A r \in Sessions : \A d \in members'[r] : home'[d] = r
    BY <1>0, <2>1, <2>3 DEF Belong, NatOK
  <2>6. \A d \in Clients : state'[d] = "new" <=> home'[d] = None
    BY <1>0, <2>1, <2>2, PathAssumption DEF Belong, NatOK
  <2> QED BY <2>4, <2>5, <2>6 DEF Belong
<1>3. ASSUME NEW c \in Clients, Close(c) PROVE Belong'
  BY <1>0, <1>3 DEF Close, Belong, NatOK, nat
<1>4. ASSUME NEW c \in Clients, Drops(c), UNCHANGED home,
             \A d \in Clients : state'[d] = "new" <=> state[d] = "new"
      PROVE  Belong'
  BY <1>0, <1>4 DEF Drops, Belong, NatOK
<1>5. ASSUME NEW c \in Clients, DoClose(c) PROVE Belong'
  <2>1. Drops(c) /\ UNCHANGED home
    BY <1>5 DEF DoClose, Forget
  <2>2. \A d \in Clients : state'[d] = "new" <=> state[d] = "new"
    BY <1>0, <1>5 DEF DoClose, NatOK
  <2> QED BY <1>4, <2>1, <2>2
<1>6. ASSUME NEW c \in Clients, Expire(c) PROVE Belong'
  BY <1>4, <1>6 DEF Expire
<1>7. ASSUME NEW c \in Clients, StartReceiving(c) PROVE Belong'
  BY <1>0, <1>7 DEF StartReceiving, Belong, NatOK
<1>8. CASE UNCHANGED <<members, receiving, home, state>>
  BY <1>1, <1>8
<1>9. (\E c \in Clients : \/ Open(c) \/ Close(c) \/ DoClose(c)
                          \/ StartReceiving(c) \/ Expire(c))
        \/ UNCHANGED <<members, receiving, home, state>>
  BY DEF PathNext, vars, nat, ReleaseEmptied, RunSender, Accepted, Receive, Merge, Split,
         WriteFrame, Arrive, RunToClient, WaitForPackets, GetMultiplexerByFakeIP, Shape,
         NextReceiverClientId, ChangeIPAddressToClientIP, FindSession, TrySend
<1> QED BY <1>2, <1>3, <1>5, <1>6, <1>7, <1>8, <1>9

LEMMA SendersStep == PathInv /\ [PathNext]_vars => SendersAgree'
<1> SUFFICES ASSUME PathInv, [PathNext]_vars PROVE SendersAgree'
  OBVIOUS
<1>0. sender \in [Clients -> Writers] /\ SendersAgree
  BY DEF PathInv, PacketsStayInSession, PathTypeOK
<1>1. CASE UNCHANGED sender
  BY <1>0, <1>1 DEF SendersAgree
<1>2. ASSUME NEW c \in Clients, DoClose(c) PROVE SendersAgree'
  BY <1>0, <1>2 DEF DoClose, Idle, SendersAgree
<1>3. ASSUME NEW c \in Clients, Accepted(c) PROVE SendersAgree'
  BY <1>0, <1>3 DEF Accepted, SendersAgree, Writers
<1>4. ASSUME NEW c \in Clients, Receive(c) PROVE SendersAgree'
  <2>1. CASE sender[c].pending # <<>>
    BY <1>0, <1>4, <2>1 DEF Receive, SendersAgree, Writers
  <2>2. CASE sender[c].pending = <<>>
    <3>1. sender' = [sender EXCEPT ![c].pc = "merge", ![c].packets = Head(channel[c])]
      BY <1>4, <2>2 DEF Receive
    <3> QED BY <1>0, <2>2, <3>1 DEF SendersAgree, Writers
  <2> QED BY <2>1, <2>2
<1>5. ASSUME NEW c \in Clients, Merge(c) PROVE SendersAgree'
  <2>1. sender' = [sender EXCEPT ![c].packets = sender[c].packets \o Head(channel[c])]
    BY <1>0, <1>5 DEF Merge
  <2>2. sender[c].pc = "merge"
    BY <1>5 DEF Merge
  <2> QED BY <1>0, <2>1, <2>2 DEF SendersAgree, Writers
<1>6. ASSUME NEW c \in Clients, Split(c) PROVE SendersAgree'
  BY <1>0, <1>6 DEF Split, SendersAgree, Writers
<1>7. ASSUME NEW c \in Clients, WriteFrame(c) PROVE SendersAgree'
  BY <1>0, <1>7 DEF WriteFrame, SendersAgree, Writers
<1>8. (\E c \in Clients : DoClose(c) \/ RunSender(c)) \/ UNCHANGED sender
  BY DEF PathNext, vars, web, Open, Close, StartReceiving, Expire, ReleaseEmptied, Arrive,
         RunToClient, WaitForPackets, GetMultiplexerByFakeIP, Shape, NextReceiverClientId,
         ChangeIPAddressToClientIP, FindSession, TrySend
<1> QED BY <1>1, <1>2, <1>3, <1>4, <1>5, <1>6, <1>7, <1>8 DEF RunSender

LEMMA ThreadsStep == PathInv /\ [PathNext]_vars => ThreadsAgree'
<1> SUFFICES ASSUME PathInv, [PathNext]_vars PROVE ThreadsAgree'
  OBVIOUS
<1>0. /\ thread \in [Threads -> Rounds] /\ ThreadsAgree /\ Belong
      /\ receiving \in [Sessions -> SUBSET Clients] /\ members \in [Sessions -> SUBSET Clients]
  BY DEF PathInv, PacketsStayInSession, PathTypeOK
<1>1. ASSUME NEW t \in Threads, thread'[t] = thread[t] PROVE RoundAgrees(t)'
  <2>1. RoundAgrees(t) /\ thread[t].to \in Clients \cup {None}
    BY <1>0 DEF ThreadsAgree, Rounds
  <2>2. thread[t].pc = "rewrite" => home'[thread[t].to] = home[thread[t].to]
    BY <2>1, HomeStep DEF RoundAgrees
  <2> QED BY <1>1, <2>1, <2>2 DEF RoundAgrees
<1>2. CASE UNCHANGED thread
  BY <1>1, <1>2 DEF ThreadsAgree
<1>3. ASSUME NEW t \in Threads, RunToClient(t) PROVE ThreadsAgree'
  <2>1. \A u \in Threads \ {t} : thread'[u] = thread[u]
    BY <1>0, <1>3 DEF RunToClient, WaitForPackets, GetMultiplexerByFakeIP, Shape, Drop, Goto,
       NextReceiverClientId, ChangeIPAddressToClientIP, FindSession, TrySend
  <2>2. SUFFICES RoundAgrees(t)'
    BY <1>1, <2>1 DEF ThreadsAgree
  <2>3. ASSUME thread'[t].pc \in {"wait", "send"} PROVE RoundAgrees(t)'
    BY <2>3 DEF RoundAgrees
  <2>4. ASSUME Drop(t) PROVE RoundAgrees(t)'
    <3>1. thread'[t] = Advanced(thread[t])
      BY <1>0, <2>4 DEF Drop
    <3> QED BY <1>0, <3>1 DEF Advanced, RoundAgrees, Rounds
  <2>5. RoundAgrees(t) /\ thread[t] \in Rounds
    BY <1>0 DEF ThreadsAgree
  <2>6. CASE WaitForPackets(t)
    <3>1. PICK n \in 1..Len(network) :
            thread' = [thread EXCEPT ![t].pc = "lookup", ![t].todo = SubSeq(network, 1, n)]
      BY <2>6 DEF WaitForPackets
    <3>2. SubSeq(network, 1, n) # <<>>
      <4>1. network \in Seq(Packets)
        BY DEF PathInv, PacketsStayInSession, PathTypeOK
      <4> QED BY <4>1
    <3> QED BY <1>0, <2>5, <3>1, <3>2 DEF RoundAgrees, Rounds
  <2>7. CASE GetMultiplexerByFakeIP(t)
    <3>1. CASE table[Packet(t).dst] = None
      BY <2>4, <2>7, <3>1 DEF GetMultiplexerByFakeIP
    <3>2. CASE table[Packet(t).dst] # None
      BY <1>0, <2>5, <2>7, <3>2 DEF GetMultiplexerByFakeIP, RoundAgrees, Rounds
    <3> QED BY <3>1, <3>2
  <2>8. CASE Shape(t)
    <3>1. CASE Goto(t, "choose")
      BY <1>0, <2>5, <2>8, <3>1 DEF Shape, Goto, RoundAgrees, Rounds
    <3> QED BY <2>4, <2>8, <3>1 DEF Shape
  <2>9. CASE NextReceiverClientId(t)
    <3>1. ASSUME NEW c \in Receivers(t),
                 thread' = [thread EXCEPT ![t].pc = "rewrite", ![t].to = c]
          PROVE  RoundAgrees(t)'
      <4>1. thread[t].mplx \in Sessions /\ thread[t].todo # <<>>
        BY <2>5, <2>9 DEF NextReceiverClientId, RoundAgrees, Rounds
      <4>2. c \in Clients /\ home[c] = thread[t].mplx
        BY <1>0, <4>1 DEF Receivers, Belong
      <4>3. c # None /\ home[c] # None
        BY <4>1, <4>2, PathAssumption
      <4>4. home'[c] = home[c]
        BY <4>2, <4>3, HomeStep
      <4>5. /\ thread'[t].pc = "rewrite" /\ thread'[t].to = c
            /\ thread'[t].mplx = thread[t].mplx /\ thread'[t].todo = thread[t].todo
        BY <1>0, <2>5, <3>1 DEF Rounds
      <4> QED BY <4>1, <4>2, <4>3, <4>4, <4>5 DEF RoundAgrees
    <3> QED BY <2>4, <2>9, <3>1 DEF NextReceiverClientId
  <2>10. CASE ChangeIPAddressToClientIP(t)
    <3>1. CASE ~Drop(t)
      <4> DEFINE r == Advanced(thread[t])
                 c == thread[t].to
                 packet == [id |-> Packet(t).id, via |-> thread[t].mplx]
      <4>1. thread' = [thread EXCEPT ![t] = [r EXCEPT !.batches[c] = Append(@, packet)]]
        BY <2>10, <3>1 DEF ChangeIPAddressToClientIP
      <4>2. r \in Rounds
        BY <2>5, <2>10, DroppedRound
          DEF ChangeIPAddressToClientIP, RoundAgrees, PathInv, PacketsStayInSession
      <4>3. r.pc = "send" \/ (r.pc = "lookup" /\ r.todo # <<>>)
        BY <2>5 DEF Advanced, Rounds
      <4> HIDE DEF r, c, packet
      <4>4. thread'[t].pc = r.pc /\ thread'[t].todo = r.todo
        BY <1>0, <4>1, <4>2 DEF Rounds
      <4> QED BY <4>3, <4>4 DEF RoundAgrees
    <3> QED BY <2>4, <3>1
  <2>11. CASE FindSession(t)
    <3>1. CASE Goto(t, "wait")
      BY <1>0, <2>3, <2>5, <3>1 DEF Goto, Rounds
    <3>2. ASSUME NEW c \in Clients,
                 thread' = IF state[c] = "open"
                             THEN [thread EXCEPT ![t].pc = "push", ![t].to = c]
                             ELSE [thread EXCEPT ![t].batches[c] = <<>>]
          PROVE  RoundAgrees(t)'
      <4>1. c # None /\ thread[t].pc = "send"
        BY <2>11, PathAssumption DEF FindSession
      <4>2. \/ thread'[t].pc = "push" /\ thread'[t].to = c
            \/ thread'[t].pc = "send"
        BY <1>0, <2>5, <3>2, <4>1 DEF Rounds
      <4> QED BY <4>1, <4>2 DEF RoundAgrees
    <3> QED BY <2>11, <3>1, <3>2 DEF FindSession
  <2>12. CASE TrySend(t)
    <3>1. thread' = [thread EXCEPT ![t].pc = "send", ![t].to = None,
                                   ![t].batches[thread[t].to] = <<>>]
      BY <2>12 DEF TrySend
    <3>2. thread'[t].pc = "send"
      BY <1>0, <2>5, <3>1 DEF Rounds
    <3> QED BY <2>3, <3>2
  <2> QED BY <1>3, <2>6, <2>7, <2>8, <2>9, <2>10, <2>11, <2>12 DEF RunToClient
<1>4. (\E t \in Threads : RunToClient(t)) \/ UNCHANGED thread
  BY DEF PathNext, vars, Open, Close, DoClose, StartReceiving, Expire, ReleaseEmptied,
         RunSender, Accepted, Receive, Merge, Split, WriteFrame, Arrive
<1> QED BY <1>2, <1>3, <1>4
-----------------------------------------------------------------------------
(* Packets stay in their session *)

\* A batch is for the connections of one multiplexer, so nothing is on its way
\* to a connection that has none yet.
LEMMA OwnKept ==
  ASSUME PathInv, [PathNext]_vars, NEW c \in Clients,
         NEW b \in Batches, OfSession(b, home[c])
  PROVE  OfSession(b, home'[c])
<1>1. CASE home[c] # None
  BY <1>1, HomeStep
<1>2. CASE home[c] = None
  <2>1. Range(b) \subseteq Marked
    BY DEF Range, Batches
  <2>2. \A p \in Range(b) : p.via # None
    BY <2>1, PathAssumption DEF Marked
  <2> QED BY <1>2, <2>2 DEF OfSession
<1> QED BY <1>1, <1>2

LEMMA OwedStep ==
  ASSUME PathInv, [PathNext]_vars, NEW c \in Clients
  PROVE  OfSession(owed'[c], home'[c])
<1>0. /\ PathTypeOK /\ OfSession(owed[c], home[c]) /\ owed[c] \in Batches
      /\ owed \in [Clients -> Batches]
  BY WriterParts DEF PathInv, PacketsStayInSession, PathTypeOK
<1>1. CASE owed'[c] = owed[c]
  BY <1>0, <1>1, OwnKept
<1>2. CASE owed'[c] = <<>>
  BY <1>2, NoBatch DEF OfSession
<1>3. ASSUME NEW d \in Clients, DoClose(d) PROVE OfSession(owed'[c], home'[c])
  BY <1>0, <1>1, <1>2, <1>3 DEF DoClose
<1>4. ASSUME NEW d \in Clients, WriteFrame(d) PROVE OfSession(owed'[c], home'[c])
  <2> DEFINE rest == SubSeq(owed[c], Len(sender[c].packets) + 1, Len(owed[c]))
  <2>1. owed'[c] = owed[c] \/ owed'[c] = rest
    BY <1>0, <1>4 DEF WriteFrame
  <2>2. rest \in Batches /\ Range(rest) \subseteq Range(owed[c])
    <3>1. Len(sender[c].packets) \in Nat
      BY <1>0, WriterParts DEF Batches
    <3> QED BY <1>0, <3>1, RestOfBatch
  <2> HIDE DEF rest
  <2>3. OfSession(rest, home[c])
    BY <1>0, <2>2 DEF OfSession
  <2>4. OfSession(rest, home'[c])
    BY <2>2, <2>3, OwnKept
  <2> QED BY <1>1, <2>1, <2>4
<1>5. ASSUME NEW t \in Threads, TrySend(t) PROVE OfSession(owed'[c], home'[c])
  <2> DEFINE batch == thread[t].batches[c]
  <2>1. owed'[c] = owed[c] \/ owed'[c] = owed[c] \o batch
    <3>1. \/ owed' = [owed EXCEPT ![thread[t].to] = @ \o thread[t].batches[thread[t].to]]
          \/ UNCHANGED owed
      BY <1>5 DEF TrySend
    <3> QED BY <1>0, <3>1
  <2>2. batch \in Batches /\ OfSession(batch, home[c])
    BY <1>0, RoundParts DEF PathInv, PacketsStayInSession
  <2> HIDE DEF batch
  <2>3. owed[c] \o batch \in Batches /\ OfSession(owed[c] \o batch, home[c])
    BY <1>0, <2>2, JoinedBatch DEF OfSession
  <2>4. OfSession(owed[c] \o batch, home'[c])
    BY <2>3, OwnKept
  <2> QED BY <1>1, <2>1, <2>4
<1>6. \/ UNCHANGED owed
      \/ \E d \in Clients : DoClose(d) \/ WriteFrame(d)
      \/ \E t \in Threads : TrySend(t)
  BY DEF PathNext, vars, web, Open, Close, StartReceiving, Expire, ReleaseEmptied, Arrive,
         RunSender, Accepted, Receive, Merge, Split, RunToClient, WaitForPackets,
         GetMultiplexerByFakeIP, Shape, NextReceiverClientId, ChangeIPAddressToClientIP, FindSession
<1> QED BY <1>1, <1>3, <1>4, <1>5, <1>6

LEMMA BatchesStep ==
  ASSUME PathInv, [PathNext]_vars, NEW c \in Clients, NEW t \in Threads
  PROVE  OfSession(thread'[t].batches[c], home'[c])
<1> DEFINE batch == thread[t].batches[c]
           batchn == thread'[t].batches[c]
<1>0. /\ batch \in Batches /\ OfSession(batch, home[c])
      /\ thread \in [Threads -> Rounds] /\ thread[t] \in Rounds
  BY RoundParts DEF PathInv, PacketsStayInSession, PathTypeOK
<1>1. CASE batchn = batch
  <2> HIDE DEF batch, batchn
  <2>1. OfSession(batchn, home'[c])
    BY <1>0, <1>1, OwnKept
  <2> QED BY <2>1 DEF batchn
<1>2. CASE batchn = <<>>
  BY <1>2, NoBatch DEF OfSession
<1>3. CASE thread' = thread
  BY <1>1, <1>3
<1>4. ASSUME NEW u \in Threads, RunToClient(u), u # t PROVE thread'[t] = thread[t]
  BY <1>0, <1>4 DEF RunToClient, WaitForPackets, GetMultiplexerByFakeIP, Shape, Drop, Goto,
       NextReceiverClientId, ChangeIPAddressToClientIP, FindSession, TrySend
<1>5. ASSUME RunToClient(t) PROVE OfSession(batchn, home'[c])
  <2>1. ASSUME Drop(t) PROVE batchn = batch
    BY <1>0, <2>1 DEF Drop, Advanced, Rounds
  <2>2. ASSUME WaitForPackets(t) \/ Goto(t, "choose") \/ Goto(t, "wait") PROVE batchn = batch
    BY <1>0, <2>2 DEF WaitForPackets, Goto, Rounds
  <2>3. CASE GetMultiplexerByFakeIP(t)
    <3>1. CASE table[Packet(t).dst] = None
      BY <1>1, <2>1, <2>3, <3>1 DEF GetMultiplexerByFakeIP
    <3>2. CASE table[Packet(t).dst] # None
      BY <1>0, <1>1, <2>3, <3>2 DEF GetMultiplexerByFakeIP, Rounds
    <3> QED BY <3>1, <3>2
  <2>4. CASE Shape(t)
    BY <1>1, <2>1, <2>2, <2>4 DEF Shape
  <2>5. CASE NextReceiverClientId(t)
    <3>1. ASSUME NEW d, thread' = [thread EXCEPT ![t].pc = "rewrite", ![t].to = d]
          PROVE  batchn = batch
      BY <1>0, <3>1 DEF Rounds
    <3>2. \/ Drop(t)
          \/ \E d \in Receivers(t) : thread' = [thread EXCEPT ![t].pc = "rewrite", ![t].to = d]
      BY <2>5 DEF NextReceiverClientId
    <3>3. batchn = batch
      <4> HIDE DEF batchn, batch
      <4> QED BY <2>1, <3>1, <3>2
    <3> QED BY <1>1, <3>3
  <2>6. CASE ChangeIPAddressToClientIP(t)
    <3>1. CASE ~Drop(t)
      <4> DEFINE r == Advanced(thread[t])
                 to == thread[t].to
                 packet == [id |-> Packet(t).id, via |-> thread[t].mplx]
      <4>1. thread' = [thread EXCEPT ![t] = [r EXCEPT !.batches[to] = Append(@, packet)]]
        BY <2>6, <3>1 DEF ChangeIPAddressToClientIP
      <4>2. /\ RoundAgrees(t) /\ thread[t].pc = "rewrite" /\ PathTypeOK
        BY <2>6 DEF ChangeIPAddressToClientIP, PathInv, PacketsStayInSession, ThreadsAgree
      <4>3. r \in Rounds /\ r.batches = thread[t].batches
        BY <1>0, <4>2, DroppedRound DEF RoundAgrees, Advanced, Rounds
      <4>4. /\ to \in Clients /\ home[to] = thread[t].mplx
            /\ thread[t].mplx \in Sessions
        BY <1>0, <4>2 DEF RoundAgrees, Rounds
      <4>5. packet \in Marked /\ packet.via = home[to]
        BY <4>2, <4>4, PacketParts DEF RoundAgrees, Packets, Marked
      <4> HIDE DEF r, packet
      <4>6. batchn = IF c = to THEN Append(batch, packet) ELSE batch
        BY <1>0, <4>1, <4>3, <4>4 DEF Rounds
      <4>7. CASE c = to
        <5>1. batchn = Append(batch, packet)
          BY <4>6, <4>7
        <5>2. packet.via = home[c]
          BY <4>5, <4>7
        <5> HIDE DEF batch, batchn, to
        <5>3. batchn \in Batches /\ OfSession(batchn, home[c])
          BY <1>0, <4>5, <5>1, <5>2, LongerBatch DEF OfSession
        <5>4. OfSession(batchn, home'[c])
          BY <5>3, OwnKept
        <5> QED BY <5>4 DEF batchn
      <4>8. CASE c # to
        BY <1>1, <4>6, <4>8
      <4> QED BY <4>7, <4>8
    <3> QED BY <1>1, <2>1, <3>1
  <2>7. CASE FindSession(t)
    <3>1. ASSUME NEW d \in Clients,
                 thread' = IF state[d] = "open"
                             THEN [thread EXCEPT ![t].pc = "push", ![t].to = d]
                             ELSE [thread EXCEPT ![t].batches[d] = <<>>]
          PROVE  batchn = batch \/ batchn = <<>>
      BY <1>0, <3>1 DEF Rounds
    <3>2. batchn = batch \/ batchn = <<>>
      <4>1. Goto(t, "wait") \/ \E d \in Clients :
               thread' = IF state[d] = "open"
                             THEN [thread EXCEPT ![t].pc = "push", ![t].to = d]
                             ELSE [thread EXCEPT ![t].batches[d] = <<>>]
        BY <2>7 DEF FindSession
      <4> HIDE DEF batchn, batch
      <4> QED BY <2>2, <3>1, <4>1
    <3> QED BY <1>1, <1>2, <3>2
  <2>8. CASE TrySend(t)
    <3>1. thread' = [thread EXCEPT ![t].pc = "send", ![t].to = None,
                                   ![t].batches[thread[t].to] = <<>>]
      BY <2>8 DEF TrySend
    <3>2. batchn = batch \/ batchn = <<>>
      BY <1>0, <3>1 DEF Rounds
    <3> QED BY <1>1, <1>2, <3>2
  <2>9. CASE WaitForPackets(t)
    BY <1>1, <2>2, <2>9
  <2> QED BY <1>5, <2>3, <2>4, <2>5, <2>6, <2>7, <2>8, <2>9 DEF RunToClient
<1>6. (\E u \in Threads : RunToClient(u)) \/ UNCHANGED thread
  BY DEF PathNext, vars, Open, Close, DoClose, StartReceiving, Expire, ReleaseEmptied,
         RunSender, Accepted, Receive, Merge, Split, WriteFrame, Arrive
<1>7. CASE thread'[t] = thread[t]
  BY <1>1, <1>7
<1> QED BY <1>3, <1>4, <1>5, <1>6, <1>7
-----------------------------------------------------------------------------
(* What a channel takes is written in order *)

LEMMA Joined ==
  ASSUME NEW a \in Batches, NEW b \in Batches, NEW d \in Batches
  PROVE  a \o b \in Batches /\ (a \o b) \o d = a \o (b \o d)
BY BatchesJoin DEF Joins

LEMMA WrittenStep == PathInv /\ [PathNext]_vars => WrittenInOrder'
<1> SUFFICES ASSUME PathInv, [PathNext]_vars, NEW c \in Clients
             PROVE  owed'[c] = InFlight(c)'
  BY DEF WrittenInOrder
<1> DEFINE packets == sender[c].packets
           pending == sender[c].pending
           sent == channel[c]
<1>0. /\ PathTypeOK /\ WritersOK /\ SendersAgree
      /\ owed[c] = packets \o pending \o FlattenSeq(sent)
  BY DEF PathInv, PacketsStayInSession, PathTypeOK, WritersOK, WrittenInOrder, InFlight
<1>1. /\ packets \in Batches /\ pending \in Batches /\ sent \in Seq(Batches)
      /\ owed[c] \in Batches /\ <<>> \in Batches /\ Joins(Batches)
  BY <1>0, WriterParts, NoBatch, BatchesJoin
<1>2. /\ FlattenSeq(sent) \in Batches
      /\ sent # <<>> =>
           /\ Head(sent) \in Batches /\ FlattenSeq(Tail(sent)) \in Batches
           /\ FlattenSeq(sent) = Head(sent) \o FlattenSeq(Tail(sent))
  <2>1. FlattenSeq(sent) \in Batches
    BY <1>1, FlattenType
  <2>2. ASSUME sent # <<>>
        PROVE  Head(sent) \in Batches /\ Tail(sent) \in Seq(Batches)
    BY <1>1, <2>2
  <2>3. ASSUME sent # <<>>
        PROVE  /\ FlattenSeq(Tail(sent)) \in Batches
               /\ FlattenSeq(sent) = Head(sent) \o FlattenSeq(Tail(sent))
    <3>1. FlattenSeq(Tail(sent)) \in Batches
      BY <1>1, <2>2, <2>3, FlattenType
    <3> HIDE DEF sent
    <3>2. FlattenSeq(sent) = Head(sent) \o FlattenSeq(Tail(sent))
      BY <1>1, <2>3, FlattenTail
    <3> QED BY <3>1, <3>2
  <2> QED BY <2>1, <2>2, <2>3
<1>11. ASSUME owed'[c] = owed[c], sender'[c] = sender[c], channel'[c] = channel[c]
       PROVE  owed'[c] = InFlight(c)'
  BY <1>0, <1>11 DEF InFlight
<1>3. ASSUME DoClose(c) PROVE owed'[c] = InFlight(c)'
  <2>1. owed'[c] = <<>> /\ channel'[c] = <<>> /\ sender'[c] = Idle
    BY <1>0, <1>3 DEF DoClose, WritersOK
  <2> QED BY <1>1, <2>1, NoBatch DEF Joins, InFlight, Idle
<1>4. ASSUME Accepted(c) PROVE owed'[c] = InFlight(c)'
  <2>1. /\ owed'[c] = owed[c] /\ channel'[c] = channel[c]
        /\ sender'[c].packets = packets /\ sender'[c].pending = pending
    BY <1>0, <1>4 DEF Accepted, WritersOK, Writers
  <2> QED BY <1>0, <2>1 DEF InFlight
<1>5. ASSUME Receive(c) PROVE owed'[c] = InFlight(c)'
  <2>1. packets = <<>> /\ owed'[c] = owed[c]
    BY <1>0, <1>5 DEF Receive, SendersAgree
  <2>2. CASE pending # <<>>
    <3>1. channel'[c] = sent /\ sender'[c].packets = pending /\ sender'[c].pending = <<>>
      BY <1>0, <1>5, <2>2 DEF Receive, WritersOK
    <3>2. <<>> \o pending = pending /\ pending \o <<>> = pending
      BY <1>1 DEF Joins
    <3> QED BY <1>0, <2>1, <3>1, <3>2 DEF InFlight
  <2>3. CASE pending = <<>>
    <3>1. sent # <<>>
      BY <1>5, <2>3 DEF Receive, HasWork
    <3>2. /\ sender' = [sender EXCEPT ![c].pc = "merge", ![c].packets = Head(channel[c])]
          /\ channel' = [channel EXCEPT ![c] = Tail(channel[c])]
      BY <1>5, <2>3 DEF Receive
    <3>3. channel'[c] = Tail(sent) /\ sender'[c].packets = Head(sent) /\ sender'[c].pending = <<>>
      BY <1>0, <2>3, <3>2 DEF WritersOK, Writers
    <3>4. owed[c] = FlattenSeq(sent)
      BY <1>0, <1>2, <2>1, <2>3 DEF Joins
    <3>5. Head(sent) \o <<>> = Head(sent)
      BY <1>1, <1>2, <3>1 DEF Joins
    <3> QED BY <1>2, <2>1, <3>1, <3>3, <3>4, <3>5 DEF InFlight
  <2> QED BY <2>2, <2>3
<1>6. ASSUME Merge(c) PROVE owed'[c] = InFlight(c)'
  <2>1. pending = <<>> /\ sent # <<>> /\ owed'[c] = owed[c]
    BY <1>0, <1>6 DEF Merge, MayMerge, SendersAgree
  <2>2. /\ sender' = [sender EXCEPT ![c].packets = sender[c].packets \o Head(channel[c])]
        /\ channel' = [channel EXCEPT ![c] = Tail(channel[c])]
    BY <1>0, <1>6 DEF Merge, WritersOK
  <2>3. /\ channel'[c] = Tail(sent) /\ sender'[c].packets = packets \o Head(sent)
        /\ sender'[c].pending = <<>>
    BY <1>0, <2>1, <2>2 DEF WritersOK, Writers
  <2>4. owed[c] = packets \o (Head(sent) \o FlattenSeq(Tail(sent)))
    BY <1>0, <1>1, <1>2, <2>1 DEF Joins
  <2>5. @ = (packets \o Head(sent)) \o FlattenSeq(Tail(sent))
    <3>1. packets \in Batches /\ Head(sent) \in Batches /\ FlattenSeq(Tail(sent)) \in Batches
      BY <1>1, <1>2, <2>1
    <3> HIDE DEF packets, sent
    <3> QED BY <3>1, Joined
  <2>6. (packets \o Head(sent)) \o <<>> = packets \o Head(sent)
    <3>1. packets \o Head(sent) \in Batches
      BY <1>1, <1>2, <2>1 DEF Joins
    <3> QED BY <1>1, <3>1 DEF Joins
  <2> QED BY <2>1, <2>3, <2>4, <2>5, <2>6 DEF InFlight
<1>7. ASSUME Split(c) PROVE owed'[c] = InFlight(c)'
  <2>1. /\ pending = <<>> /\ owed'[c] = owed[c] /\ channel'[c] = sent
        /\ sender'[c].packets = Frame(packets) /\ sender'[c].pending = LeftOver(packets)
    BY <1>0, <1>7 DEF Split, SendersAgree, WritersOK
  <2>2. packets \o <<>> = packets /\ Frame(packets) \o LeftOver(packets) = packets
    BY <1>1, FrameAndLeftOver DEF Joins
  <2> QED BY <1>0, <2>1, <2>2 DEF InFlight
<1>8. ASSUME WriteFrame(c) PROVE owed'[c] = InFlight(c)'
  <2> DEFINE rest == pending \o FlattenSeq(sent)
  <2>1. /\ owed'[c] = SubSeq(owed[c], Len(packets) + 1, Len(owed[c])) /\ channel'[c] = sent
        /\ sender'[c].packets = <<>> /\ sender'[c].pending = pending
    BY <1>0, <1>8 DEF WriteFrame, WritersOK, Writers
  <2>2. rest \in Batches /\ owed[c] = packets \o rest
    <3>1. packets \in Batches /\ pending \in Batches /\ FlattenSeq(sent) \in Batches
      BY <1>1, <1>2
    <3>2. owed[c] = (packets \o pending) \o FlattenSeq(sent)
      BY <1>0
    <3> HIDE DEF packets, pending, sent
    <3>3. rest \in Batches /\ (packets \o pending) \o FlattenSeq(sent) = packets \o rest
      BY <3>1, Joined
    <3> QED BY <3>2, <3>3
  <2>3. owed'[c] = rest
    <3> HIDE DEF rest
    <3> QED BY <1>1, <2>1, <2>2, RestOfJoin
  <2>4. <<>> \o pending = pending
    BY <1>1 DEF Joins
  <2> QED BY <2>1, <2>3, <2>4 DEF InFlight
<1>9. ASSUME NEW t \in Threads, TrySend(t), thread[t].to = c PROVE owed'[c] = InFlight(c)'
  <2> DEFINE batch == thread[t].batches[c]
  <2>1. batch \in Batches
    BY <1>0, RoundParts
  <2>2. CASE UNCHANGED <<channel, owed>>
    BY <1>9, <1>11, <2>2 DEF TrySend
  <2>3. CASE /\ channel' = [channel EXCEPT ![c] = Append(@, batch)]
             /\ owed' = [owed EXCEPT ![c] = @ \o batch]
    <3>1. /\ channel'[c] = Append(sent, batch) /\ owed'[c] = owed[c] \o batch
          /\ sender'[c].packets = packets /\ sender'[c].pending = pending
      BY <1>0, <1>9, <2>3 DEF TrySend, WritersOK
    <3> HIDE DEF batch
    <3>2. FlattenSeq(Append(sent, batch)) = FlattenSeq(sent) \o batch
      BY <1>1, <2>1, FlattenAppend
    <3>3. owed[c] \o batch = (packets \o pending) \o (FlattenSeq(sent) \o batch)
      <4>1. packets \o pending \in Batches
        BY <1>1, Joined
      <4>2. FlattenSeq(sent) \in Batches /\ owed[c] = (packets \o pending) \o FlattenSeq(sent)
        BY <1>0, <1>2
      <4> HIDE DEF packets, pending, sent
      <4>3. ((packets \o pending) \o FlattenSeq(sent)) \o batch
              = (packets \o pending) \o (FlattenSeq(sent) \o batch)
        BY <2>1, <4>1, <4>2, Joined
      <4> QED BY <4>2, <4>3
    <3> QED BY <3>1, <3>2, <3>3 DEF InFlight
  <2> QED BY <1>9, <2>2, <2>3 DEF TrySend
<1>10. \/ owed'[c] = owed[c] /\ sender'[c] = sender[c] /\ channel'[c] = channel[c]
       \/ DoClose(c) \/ RunSender(c)
       \/ \E t \in Threads : TrySend(t) /\ thread[t].to = c
  <2>1. CASE UNCHANGED web
    BY <2>1 DEF web
  <2>2. ASSUME NEW d \in Clients, d # c, DoClose(d) \/ RunSender(d)
        PROVE  owed'[c] = owed[c] /\ sender'[c] = sender[c] /\ channel'[c] = channel[c]
    BY <1>0, <2>2 DEF WritersOK, DoClose, RunSender, Accepted, Receive, Merge, Split, WriteFrame
  <2>3. ASSUME NEW t \in Threads, TrySend(t), thread[t].to # c
        PROVE  owed'[c] = owed[c] /\ sender'[c] = sender[c] /\ channel'[c] = channel[c]
    BY <1>0, <2>3 DEF WritersOK, TrySend
  <2>4. \/ UNCHANGED web
        \/ \E d \in Clients : DoClose(d) \/ RunSender(d)
        \/ \E t \in Threads : TrySend(t)
    BY DEF PathNext, vars, Open, Close, StartReceiving, Expire, ReleaseEmptied, Arrive,
         RunToClient, WaitForPackets, GetMultiplexerByFakeIP, Shape, NextReceiverClientId,
         ChangeIPAddressToClientIP, FindSession
  <2> QED BY <2>1, <2>2, <2>3, <2>4
<1> QED BY <1>3, <1>4, <1>5, <1>6, <1>7, <1>8, <1>9, <1>10, <1>11 DEF RunSender
-----------------------------------------------------------------------------
(* Theorems *)

LEMMA StartsRight == PathInit => PathInv
<1> SUFFICES ASSUME PathInit PROVE PathInv
  OBVIOUS
<1> USE NoBatch, PathAssumption DEF PathInit
<1>1. PathTypeOK
  <2>1. [pc |-> "wait", todo |-> <<>>, mplx |-> None, to |-> None,
         batches |-> [c \in Clients |-> <<>>]] \in Rounds
    BY DEF Rounds
  <2>2. Idle \in Writers
    BY DEF Idle, Writers
  <2>3. network \in Seq(Packets) /\ arrived \in 0..MaxPackets
    OBVIOUS
  <2>4. thread \in [Threads -> Rounds] /\ sender \in [Clients -> Writers]
    BY <2>1, <2>2
  <2> QED BY <2>3, <2>4 DEF PathTypeOK
<1>2. PacketsStayInSession
  BY <1>1 DEF PacketsStayInSession, OfSession
<1>3. WrittenInOrder
  <2>1. <<>> \o <<>> \o <<>> = <<>>
    BY BatchesJoin DEF Joins
  <2> QED BY <2>1 DEF WrittenInOrder, InFlight, Idle
<1>4. Belong /\ ThreadsAgree /\ SendersAgree
  BY DEF Belong, ThreadsAgree, RoundAgrees, SendersAgree, Idle
<1> QED BY <1>2, <1>3, <1>4 DEF PathInv

\* The inductive invariant of the way to a client: what waits in a channel, in
\* a sender and in a round belongs to the connection it is for.
THEOREM PathInvariant == PathSpec => []PathInv
<1>1. PathInv /\ [PathNext]_vars => PathInv'
  <2> SUFFICES ASSUME PathInv, [PathNext]_vars PROVE PathInv'
    OBVIOUS
  <2>1. PacketsStayInSession'
    BY TypeStep, OwedStep, BatchesStep DEF PacketsStayInSession
  <2> QED BY <2>1, WrittenStep, BelongStep, ThreadsStep, SendersStep DEF PathInv
<1> QED BY <1>1, StartsRight, PTL DEF PathSpec

\* A packet goes to a connection of the multiplexer that was found for its
\* address, whatever happens to the table between the look-up, the choice and
\* the write (vpn/manager.cpp:90-128).
THEOREM PacketsKeepTheirSession == PathSpec => []PacketsStayInSession
BY PathInvariant, PTL DEF PathInv

\* What a channel took and has not been written is what the sender merges, what
\* it left over and what still waits, in this order: nothing is lost, written
\* twice or overtaken (session.cpp:1010-1049).
THEOREM ChannelsAreWrittenInOrder == PathSpec => []WrittenInOrder
BY PathInvariant, PTL DEF PathInv
-----------------------------------------------------------------------------
(* The answers of other sites *)

CallStates == [pc : {"new", "target", "fallback", "returned"}, sni : Names \cup {NoAnswer},
               answer : Answers \cup {NoAnswer}]

\* An answer stands under its own name, or the default domain's stands for a
\* site that did not answer; it was fetched when it was stored.
StoredIsDue ==
  \A n \in Names : cache[n] # NoAnswer =>
    /\ cache[n].data.fetched = cache[n].timestamp
    /\ \/ cache[n].data.site = n
       \/ cache[n].data.site = Default /\ failed[n] # NoAnswer

\* A call asks for a name, and the default domain only after the name's own
\* site has failed.
CallsAsk ==
  \A c \in Calls :
    /\ call[c].pc \in {"target", "fallback"} => call[c].sni \in Names
    /\ call[c].pc = "fallback" => failed[call[c].sni] # NoAnswer

CacheInv ==
  /\ CacheTypeOK
  /\ call \in [Calls -> CallStates]
  /\ now \in 0..MaxTime
  /\ failed \in [Names -> 0..MaxTime \cup {NoAnswer}]
  /\ StoredIsDue
  /\ CallsAsk

LEMMA CacheStart == CacheInit => CacheInv
<1> SUFFICES ASSUME CacheInit PROVE CacheInv
  OBVIOUS
<1>1. call \in [Calls -> CallStates]
  BY DEF CacheInit, CallStates
<1>2. CacheTypeOK
  BY <1>1 DEF CacheInit, CacheTypeOK, CallStates
<1>3. now \in 0..MaxTime /\ failed \in [Names -> 0..MaxTime \cup {NoAnswer}]
  BY CacheAssumption DEF CacheInit
<1>4. StoredIsDue /\ CallsAsk
  BY DEF CacheInit, StoredIsDue, CallsAsk
<1> QED BY <1>1, <1>2, <1>3, <1>4 DEF CacheInv

\* What the parts of the invariant say of one name.
LEMMA EntryFacts ==
  ASSUME CacheInv, NEW n \in Names, cache[n] # NoAnswer
  PROVE  /\ cache[n] \in Entries /\ cache[n].data \in Answers
         /\ cache[n].timestamp \in 0..MaxTime
         /\ cache[n].data.site \in Names /\ cache[n].data.fetched = cache[n].timestamp
<1>1. cache[n] \in Entries
  BY DEF CacheInv, CacheTypeOK
<1> QED BY <1>1 DEF CacheInv, StoredIsDue, Entries, Answers

\* Looking at the cache only takes out what is too old.
LEMMA CheckKeeps ==
  ASSUME CacheInv, NEW n \in Names, CheckCache(n)
  PROVE  /\ cache' \in [Names -> Entries \cup {NoAnswer}]
         /\ \A m \in Names : cache'[m] = NoAnswer \/ cache'[m] = cache[m]
<1>1. cache \in [Names -> Entries \cup {NoAnswer}]
  BY DEF CacheInv, CacheTypeOK
<1>2. CASE cache' = cache
  BY <1>1, <1>2
<1>3. CASE cache' = [cache EXCEPT ![n] = NoAnswer]
  BY <1>1, <1>3
<1> QED BY <1>2, <1>3 DEF CheckCache

\* What a site answers now is typed, and so is its entry.
LEMMA FetchedNow ==
  ASSUME CacheInv, NEW n \in Names
  PROVE  /\ Fetched(n) \in Answers /\ Fetched(n).site = n /\ Fetched(n).fetched = now
         /\ Entry(Fetched(n)) \in Entries
         /\ Entry(Fetched(n)).data = Fetched(n) /\ Entry(Fetched(n)).timestamp = now
BY DEF CacheInv, Fetched, Entry, Answers, Entries

\* A call that returns, or goes on.
LEMMA MovedCall ==
  ASSUME CacheInv, NEW c \in Calls, NEW record \in CallStates,
         call' = [call EXCEPT ![c] = record]
  PROVE  /\ call' \in [Calls -> CallStates]
         /\ call'[c] = record
         /\ \A d \in Calls : d # c => call'[d] = call[d]
BY DEF CacheInv

LEMMA CallRecord ==
  ASSUME CacheInv, NEW c \in Calls
  PROVE  /\ call[c] \in CallStates
         /\ \A answer \in Answers \cup {NoAnswer} :
              LET record == [call[c] EXCEPT !.pc = "returned", !.answer = answer]
              IN  /\ record \in CallStates /\ record.pc = "returned"
                  /\ record.sni = call[c].sni /\ record.answer = answer
         /\ \A pc \in {"target", "fallback"} :
              LET record == [call[c] EXCEPT !.pc = pc]
              IN  /\ record \in CallStates /\ record.pc = pc
                  /\ record.sni = call[c].sni
<1>1. call[c] \in CallStates
  BY DEF CacheInv
<1> QED BY <1>1 DEF CallStates

\* What a step does to the calls: one of them moves, to a name it asks for, and
\* returns only what is due.
LEMMA CacheStep ==
  ASSUME CacheInv, CacheNext
  PROVE  CacheInv' /\ \A c \in Calls : ReturnsDue(c)
<1>1. /\ cache \in [Names -> Entries \cup {NoAnswer}]
      /\ call \in [Calls -> CallStates] /\ now \in 0..MaxTime /\ now \in Nat
      /\ failed \in [Names -> 0..MaxTime \cup {NoAnswer}]
      /\ Default \in Names /\ Ttl \in Nat \ {0} /\ MaxTime \in Nat
      /\ NoAnswer \notin Names /\ NoAnswer \notin Nat
  BY CacheAssumption DEF CacheInv, CacheTypeOK
<1>2. ASSUME NEW c \in Calls, NEW record \in CallStates,
             call' = [call EXCEPT ![c] = record], now' = now,
             cache' \in [Names -> Entries \cup {NoAnswer}],
             failed' \in [Names -> 0..MaxTime \cup {NoAnswer}],
             \A n \in Names : failed[n] # NoAnswer => failed'[n] # NoAnswer,
             StoredIsDue',
             record.pc \in {"target", "fallback"} => record.sni \in Names,
             record.pc = "fallback" => failed'[record.sni] # NoAnswer,
             record.pc = "returned" /\ record.answer # NoAnswer =>
               /\ now < record.answer.fetched + Ttl
               /\ \/ record.answer.site = record.sni
                  \/ record.answer.site = Default /\ failed'[record.sni] # NoAnswer
      PROVE  CacheInv' /\ \A d \in Calls : ReturnsDue(d)
  <2>1. /\ call' \in [Calls -> CallStates] /\ call'[c] = record
        /\ \A d \in Calls : d # c => call'[d] = call[d]
    BY <1>2, MovedCall
  <2>2. CacheTypeOK'
    BY <1>2, <2>1 DEF CacheTypeOK, CallStates
  <2>3. CallsAsk'
    BY <1>2, <2>1 DEF CacheInv, CallsAsk
  <2>4. \A d \in Calls : ReturnsDue(d)
    BY <1>2, <2>1 DEF ReturnsDue
  <2> QED BY <1>1, <1>2, <2>1, <2>2, <2>3, <2>4 DEF CacheInv
<1>3. ASSUME NEW c \in Calls, NEW n \in Names, GetHandshake(c, n)
      PROVE  CacheInv' /\ \A d \in Calls : ReturnsDue(d)
  <2>1. CheckCache(n) /\ UNCHANGED <<now, failed>>
    BY <1>3 DEF GetHandshake
  <2>2. /\ cache' \in [Names -> Entries \cup {NoAnswer}]
        /\ \A m \in Names : cache'[m] = NoAnswer \/ cache'[m] = cache[m]
    BY <2>1, CheckKeeps
  <2>3. StoredIsDue'
    BY <2>1, <2>2 DEF CacheInv, StoredIsDue
  <2>4. CASE Fresh(n)
    <3> DEFINE record == [pc |-> "returned", sni |-> n, answer |-> cache[n].data]
    <3>1. call' = [call EXCEPT ![c] = record]
      BY <1>3, <2>4 DEF GetHandshake
    <3>2. cache[n] # NoAnswer /\ now < cache[n].timestamp + Ttl
      BY <2>4 DEF Fresh
    <3>3. /\ cache[n].data \in Answers /\ cache[n].data.fetched = cache[n].timestamp
          /\ cache[n].data.site = n \/ (cache[n].data.site = Default /\ failed[n] # NoAnswer)
      BY <3>2, EntryFacts DEF CacheInv, StoredIsDue
    <3>4. /\ record \in CallStates /\ record.pc = "returned" /\ record.sni = n
          /\ record.answer = cache[n].data
      BY <3>3 DEF CallStates
    <3> HIDE DEF record
    <3> QED BY <1>1, <1>2, <2>1, <2>2, <2>3, <3>1, <3>2, <3>3, <3>4
  <2>5. CASE ~Fresh(n)
    <3> DEFINE record == [pc |-> "target", sni |-> n, answer |-> NoAnswer]
    <3>1. call' = [call EXCEPT ![c] = record]
      BY <1>3, <2>5 DEF GetHandshake
    <3>2. record \in CallStates /\ record.pc = "target" /\ record.sni = n
      BY DEF CallStates
    <3> HIDE DEF record
    <3> QED BY <1>1, <1>2, <2>1, <2>2, <2>3, <3>1, <3>2
  <2> QED BY <2>4, <2>5
<1>4. ASSUME NEW c \in Calls, TargetAnswers(c)
      PROVE  CacheInv' /\ \A d \in Calls : ReturnsDue(d)
  <2> DEFINE n == call[c].sni
             answer == Fetched(n)
             record == [call[c] EXCEPT !.pc = "returned", !.answer = answer]
  <2>1. /\ n \in Names /\ cache' = [cache EXCEPT ![n] = Entry(answer)]
        /\ call' = [call EXCEPT ![c] = record] /\ UNCHANGED <<now, failed>>
    BY <1>1, <1>4 DEF TargetAnswers, Return, CacheInv, CallsAsk, CallStates
  <2>2. /\ answer \in Answers /\ answer.site = n /\ answer.fetched = now
        /\ Entry(answer) \in Entries /\ Entry(answer).data = answer
        /\ Entry(answer).timestamp = now
    BY <2>1, FetchedNow
  <2>3. /\ record \in CallStates /\ record.pc = "returned"
        /\ record.sni = n /\ record.answer = answer
    BY <2>2, CallRecord
  <2> HIDE DEF record, answer, n
  <2>4. cache' \in [Names -> Entries \cup {NoAnswer}] /\ StoredIsDue'
    BY <1>1, <2>1, <2>2 DEF CacheInv, StoredIsDue
  <2>5. now < record.answer.fetched + Ttl
    BY <1>1, <2>2, <2>3
  <2>6. failed' \in [Names -> 0..MaxTime \cup {NoAnswer}] /\ now' = now
    BY <1>1, <2>1
  <2> QED BY <1>2, <2>1, <2>2, <2>3, <2>4, <2>5, <2>6
<1>5. ASSUME NEW c \in Calls, TargetFails(c)
      PROVE  CacheInv' /\ \A d \in Calls : ReturnsDue(d)
  <2> DEFINE n == call[c].sni
  <2>1. /\ n \in Names /\ failed' = [failed EXCEPT ![n] = now] /\ CheckCache(Default)
        /\ now' = now
    BY <1>1, <1>5 DEF TargetFails, UseDefault, CacheInv, CallsAsk, CallStates
  <2>2. /\ cache' \in [Names -> Entries \cup {NoAnswer}]
        /\ \A m \in Names : cache'[m] = NoAnswer \/ cache'[m] = cache[m]
    BY <1>1, <2>1, CheckKeeps
  <2>3. /\ failed' \in [Names -> 0..MaxTime \cup {NoAnswer}] /\ failed'[n] # NoAnswer
        /\ \A m \in Names : failed[m] # NoAnswer => failed'[m] # NoAnswer
    BY <1>1, <2>1
  <2>4. StoredIsDue'
    BY <2>2, <2>3 DEF CacheInv, StoredIsDue
  <2>5. CASE Fresh(Default)
    <3> DEFINE answer == cache[Default].data
               record == [call[c] EXCEPT !.pc = "returned", !.answer = answer]
    <3>1. call' = [call EXCEPT ![c] = record]
      BY <1>5, <2>5 DEF TargetFails, Return
    <3>2. cache[Default] # NoAnswer /\ now < cache[Default].timestamp + Ttl
      BY <2>5 DEF Fresh
    <3>3. /\ answer \in Answers /\ answer.fetched = cache[Default].timestamp
          /\ answer.site = Default
      BY <1>1, <3>2, EntryFacts DEF CacheInv, StoredIsDue
    <3>4. now < answer.fetched + Ttl
      BY <3>2, <3>3
    <3> HIDE DEF answer
    <3>5. /\ record \in CallStates /\ record.pc = "returned" /\ record.sni = n
          /\ record.answer = answer
      <4>1. answer \in Answers \cup {NoAnswer}
        BY <3>3
      <4>2. /\ call[c] \in CallStates
            /\ \A a \in Answers \cup {NoAnswer} :
                 LET r == [call[c] EXCEPT !.pc = "returned", !.answer = a]
                 IN  /\ r \in CallStates /\ r.pc = "returned"
                     /\ r.sni = call[c].sni /\ r.answer = a
        BY CallRecord
      <4> QED BY <4>1, <4>2
    <3> HIDE DEF record, n
    <3> QED BY <1>2, <2>1, <2>2, <2>3, <2>4, <3>1, <3>3, <3>4, <3>5
  <2>6. CASE ~Fresh(Default)
    <3> DEFINE record == [call[c] EXCEPT !.pc = "fallback"]
    <3>1. call' = [call EXCEPT ![c] = record]
      BY <1>5, <2>6 DEF TargetFails, GoOn
    <3>2. record \in CallStates /\ record.pc = "fallback" /\ record.sni = n
      BY CallRecord
    <3> HIDE DEF record, n
    <3> QED BY <1>1, <1>2, <2>1, <2>2, <2>3, <2>4, <3>1, <3>2
  <2> QED BY <2>5, <2>6
<1>6. ASSUME NEW c \in Calls, FallbackAnswers(c)
      PROVE  CacheInv' /\ \A d \in Calls : ReturnsDue(d)
  <2> DEFINE n == call[c].sni
             answer == Fetched(Default)
             new == Entry(answer)
             record == [call[c] EXCEPT !.pc = "returned", !.answer = answer]
  <2>1. /\ n \in Names /\ failed[n] # NoAnswer
        /\ cache' = [cache EXCEPT ![Default] = new, ![n] = new]
        /\ call' = [call EXCEPT ![c] = record] /\ UNCHANGED <<now, failed>>
    BY <1>1, <1>6 DEF FallbackAnswers, Return, CacheInv, CallsAsk, CallStates
  <2>2. /\ answer \in Answers /\ answer.site = Default /\ answer.fetched = now
        /\ new \in Entries /\ new.data = answer /\ new.timestamp = now
    BY <1>1, FetchedNow
  <2>3. /\ record \in CallStates /\ record.pc = "returned"
        /\ record.sni = n /\ record.answer = answer
    BY <2>2, CallRecord
  <2> HIDE DEF record, new, answer, n
  <2>4. cache' \in [Names -> Entries \cup {NoAnswer}] /\ StoredIsDue'
    BY <1>1, <2>1, <2>2 DEF CacheInv, StoredIsDue
  <2>5. now < record.answer.fetched + Ttl
    BY <1>1, <2>2, <2>3
  <2>6. failed' \in [Names -> 0..MaxTime \cup {NoAnswer}] /\ now' = now
    BY <1>1, <2>1
  <2> QED BY <1>2, <2>1, <2>2, <2>3, <2>4, <2>5, <2>6
<1>7. ASSUME NEW c \in Calls, FallbackFails(c)
      PROVE  CacheInv' /\ \A d \in Calls : ReturnsDue(d)
  <2> DEFINE record == [call[c] EXCEPT !.pc = "returned", !.answer = NoAnswer]
  <2>1. call' = [call EXCEPT ![c] = record] /\ UNCHANGED <<cache, now, failed>>
    BY <1>7 DEF FallbackFails, Return
  <2>2. record \in CallStates /\ record.pc = "returned" /\ record.answer = NoAnswer
    BY CallRecord
  <2>3. StoredIsDue'
    BY <2>1 DEF CacheInv, StoredIsDue
  <2> HIDE DEF record
  <2> QED BY <1>1, <1>2, <2>1, <2>2, <2>3
<1>8. ASSUME Tick
      PROVE  CacheInv' /\ \A d \in Calls : ReturnsDue(d)
  <2>1. now' \in 0..MaxTime /\ UNCHANGED <<cache, call, failed>>
    BY <1>1, <1>8 DEF Tick
  <2>2. CacheInv'
    BY <2>1 DEF CacheInv, CacheTypeOK, StoredIsDue, CallsAsk
  <2> QED BY <2>1, <2>2 DEF ReturnsDue
<1> QED BY <1>3, <1>4, <1>5, <1>6, <1>7, <1>8 DEF CacheNext, Proceed

\* A call returns only what is due: nothing older than the cache's time to
\* live, and the default domain's answer only for a name whose site failed,
\* for any number of calls and names (handshake_cache_manager.cpp:144-181).
THEOREM CacheAnswersAreDue == CacheSpec => AnswersAreDue
<1>1. CacheInv /\ [CacheNext]_cacheVars
        => CacheInv' /\ [\A c \in Calls : ReturnsDue(c)]_cacheVars
  <2> SUFFICES ASSUME CacheInv, [CacheNext]_cacheVars
               PROVE  CacheInv' /\ [\A c \in Calls : ReturnsDue(c)]_cacheVars
    OBVIOUS
  <2>1. CASE CacheNext
    BY <2>1, CacheStep
  <2>2. CASE UNCHANGED cacheVars
    BY <2>2 DEF cacheVars, CacheInv, CacheTypeOK, StoredIsDue, CallsAsk
  <2> QED BY <2>1, <2>2
<1>2. CacheInv => CacheTypeOK
  BY DEF CacheInv
<1> QED BY <1>1, <1>2, CacheStart, PTL DEF CacheSpec, AnswersAreDue
-----------------------------------------------------------------------------
(* Both halves, as the run checks them *)

\* A behaviour of one half leaves the other half as it began.
THEOREM TrafficIsBoth == TrafficSpec => PathSpec /\ CacheSpec
<1>1. [TrafficNext]_trafficVars => [PathNext]_vars /\ [CacheNext]_cacheVars
  BY DEF TrafficNext, trafficVars
<1>2. TrafficInit => PathInit /\ CacheInit
  BY DEF TrafficInit
<1> QED BY <1>1, <1>2, PTL DEF TrafficSpec, PathSpec, CacheSpec

\* Hence what the run checks holds of the specification it checks.
COROLLARY TrafficIsSafe ==
  TrafficSpec => [](PacketsStayInSession /\ WrittenInOrder) /\ AnswersAreDue
BY TrafficIsBoth, PacketsKeepTheirSession, ChannelsAreWrittenInOrder, CacheAnswersAreDue, PTL
=============================================================================
