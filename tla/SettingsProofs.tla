--------------------------- MODULE SettingsProofs ---------------------------
(***************************************************************************)
(* Theorems about the settings window, for any services, number of workers *)
(* and list of names: the page shows the model, a closed page is on disk,  *)
(* no ping is lost count of, every name is tried once, and the verdict of  *)
(* a scan is sound.                                                        *)
(***************************************************************************)
EXTENDS SettingsWindow, FiniteSetTheorems, SequenceTheorems, TLAPS

Row == [name : Names, button : Nat]

\* The parts of SettingsTypeOK and what they leave out.
PageTyped ==
  /\ services \in Seq(Service) /\ value \in Values
  /\ file \in [intact : BOOLEAN, services : Seq(Service), value : Values]
  /\ table \in Seq(Row)
  /\ open \in BOOLEAN /\ saved \in BOOLEAN /\ aligned \in BOOLEAN /\ escaped \in BOOLEAN

\* What is read from the file is listed once too.
ListedOnce(s) == \A i, j \in 1..Len(s) : s[i].name = s[j].name => i = j

RowsAgree ==
  open /\ aligned =>
    /\ Len(table) = Len(services)
    /\ \A i \in 1..Len(table) : table[i].name = services[i].name

\* While the page is open too, only removals are missing from the file.
FileHasAll ==
  saved /\ file.intact =>
    file.value = value /\ ToSet(services) \subseteq ToSet(file.services)

PageInv ==
  /\ PageTyped /\ RowsAgree /\ FileHasAll /\ SavedWhenClosed
  /\ ListedOnce(services) /\ ListedOnce(file.services)

\* Names need not be finite, since only listed services are pinged.
Pinged == {n \in Names : pings[n] = 1}

PingInv ==
  /\ handlers \in 0..MaxHandlers /\ pings \in [Names -> Nat]
  /\ IsFiniteSet(Pinged) /\ PendingCountsPings

\* Where a worker has a name in hand, and where else it can be.
InHand   == {"try", "handshake", "again", "get", "works", "failed"}
WorkerAt == InHand \cup {"none", "take", "leave"}

ScanContext ==
  [next : 1..Unread, found : 0..NameCount, stop : BOOLEAN, active : 0..PerScan,
   tested : 0..NameCount]

ScanTyped ==
  /\ begun \in Scans \cup {0} /\ scan \in {0, begun}
  /\ seen \in 0..Unread /\ adopted \in 0..NameCount
  /\ scan = 0 => seen = Unread
  /\ context \in [Scans -> ScanContext]
  /\ pc \in [Workers -> [at : WorkerAt, name : 0..NameCount]]
  /\ DOMAIN call = Workers

Hands(s)   == {w \in Workers : w[1] = s /\ pc[w].at \in InHand}
Present(s) == {w \in Workers : w[1] = s /\ pc[w].at # "none"}

CountsAgree ==
  \A s \in Scans : /\ context[s].next - 1 = context[s].tested + Cardinality(Hands(s))
                   /\ context[s].active = Cardinality(Present(s))

\* A worker leaves because the scan was stopped or the list is at its end, and
\* a scan that goes on was stopped by a name that works.
EndsKnown ==
  /\ \A w \in Workers :
       /\ w[1] <= begun /\ pc[w].at \in {"leave", "none"} => Of(w).stop \/ Exhausted(Of(w))
       /\ pc[w].at \in InHand => pc[w].name # 0
       /\ pc[w].at # "none" => w[1] <= begun
  /\ scan # 0 /\ context[scan].stop => context[scan].found # 0

ScanInv == ScanTyped /\ CountsAgree /\ EndsKnown

\* The inductive invariant of the window.
WindowInv == PageInv /\ PingInv /\ ScanInv
-----------------------------------------------------------------------------
(* Counting *)

\* A worker that moves changes the count of its own scan, by itself.
LEMMA SetCounts ==
  ASSUME NEW S, NEW T, NEW x, IsFiniteSet(S), \A y : y # x => (y \in S <=> y \in T)
  PROVE  /\ IsFiniteSet(T)
         /\ Cardinality(S) \in Nat /\ Cardinality(T) \in Nat
         /\ x \in S /\ x \in T => Cardinality(T) = Cardinality(S)
         /\ x \notin S /\ x \notin T => Cardinality(T) = Cardinality(S)
         /\ x \in S /\ x \notin T => Cardinality(T) = Cardinality(S) - 1
         /\ x \notin S /\ x \in T => Cardinality(T) = Cardinality(S) + 1
<1>1. IsFiniteSet(S \cup {x}) /\ Cardinality(S) \in Nat
      /\ Cardinality(S \cup {x}) = IF x \in S THEN Cardinality(S) ELSE Cardinality(S) + 1
  BY FS_AddElement, FS_CardinalityType
<1>2. IsFiniteSet(S \ {x})
      /\ Cardinality(S \ {x}) = IF x \in S THEN Cardinality(S) - 1 ELSE Cardinality(S)
  BY FS_RemoveElement
<1>3. CASE x \in T
  <2>1. T = S \cup {x}
    BY <1>3
  <2> QED BY <1>1, <1>3, <2>1, FS_CardinalityType
<1>4. CASE x \notin T
  <2>1. T = S \ {x}
    BY <1>4
  <2> QED BY <1>2, <1>4, <2>1, FS_CardinalityType, <1>1
<1> QED BY <1>3, <1>4

\* A scan has PerScan workers.
LEMMA WorkersOfScan ==
  ASSUME NEW s \in Scans
  PROVE  /\ IsFiniteSet({w \in Workers : w[1] = s})
         /\ Cardinality({w \in Workers : w[1] = s}) = PerScan
<1> DEFINE T == {w \in Workers : w[1] = s}
           f == [i \in 1..PerScan |-> <<s, i>>]
<1>1. PerScan \in Nat /\ PerScan # 0
  BY ScanAssumption
<1>2. IsFiniteSet(1..PerScan) /\ Cardinality(1..PerScan) = PerScan
  BY <1>1, FS_Interval
<1>3. f \in [1..PerScan -> T]
  BY DEF Workers
<1>4. \A i, j \in 1..PerScan : f[i] = f[j] => i = j
  OBVIOUS
<1>5. ASSUME NEW w \in T PROVE \E i \in 1..PerScan : f[i] = w
  BY DEF Workers
<1>6. f \in Bijection(1..PerScan, T)
  BY <1>3, <1>4, <1>5 DEF Bijection, Injection, Surjection, IsInjective
<1>7. ExistsBijection(1..PerScan, T)
  BY <1>6 DEF ExistsBijection
<1> QED BY <1>2, <1>7, FS_Bijection

LEMMA CountsFinite ==
  ASSUME NEW s \in Scans
  PROVE  /\ IsFiniteSet(Hands(s)) /\ IsFiniteSet(Present(s))
         /\ Cardinality(Hands(s)) \in Nat /\ Cardinality(Present(s)) \in 0..PerScan
<1>1. Hands(s) \subseteq {w \in Workers : w[1] = s}
      /\ Present(s) \subseteq {w \in Workers : w[1] = s}
  BY DEF Hands, Present
<1>2. /\ IsFiniteSet({w \in Workers : w[1] = s})
      /\ Cardinality({w \in Workers : w[1] = s}) = PerScan
  BY WorkersOfScan
<1>3. PerScan \in Nat
  BY ScanAssumption
<1>4. IsFiniteSet(Hands(s)) /\ IsFiniteSet(Present(s)) /\ Cardinality(Present(s)) <= PerScan
  BY <1>1, <1>2, FS_Subset
<1> QED BY <1>3, <1>4, FS_CardinalityType

LEMMA WorkerMoves ==
  ASSUME ScanTyped, NEW w \in Workers, \A v \in Workers : v # w => pc'[v].at = pc[v].at
  PROVE  /\ \A s \in Scans : s # w[1] => Hands(s)' = Hands(s) /\ Present(s)' = Present(s)
         /\ LET h == Cardinality(Hands(w[1]))
                now == Cardinality(Hands(w[1])')
            IN  /\ pc[w].at \in InHand /\ pc'[w].at \in InHand => now = h
                /\ pc[w].at \notin InHand /\ pc'[w].at \notin InHand => now = h
                /\ pc[w].at \in InHand /\ pc'[w].at \notin InHand => now = h - 1
                /\ pc[w].at \notin InHand /\ pc'[w].at \in InHand => now = h + 1
         /\ LET n == Cardinality(Present(w[1]))
                now == Cardinality(Present(w[1])')
            IN  /\ pc[w].at # "none" /\ pc'[w].at # "none" => now = n
                /\ pc[w].at # "none" /\ pc'[w].at = "none" => now = n - 1
         /\ Cardinality(Hands(w[1])') \in Nat
<1>1. w[1] \in Scans
  BY DEF Workers
<1>2. ASSUME NEW s \in Scans, s # w[1] PROVE Hands(s)' = Hands(s) /\ Present(s)' = Present(s)
  BY <1>2 DEF Hands, Present
<1>3. \A v : v # w => (v \in Hands(w[1]) <=> v \in Hands(w[1])')
              /\ (v \in Present(w[1]) <=> v \in Present(w[1])')
  BY DEF Hands, Present
<1>4. /\ w \in Hands(w[1]) <=> pc[w].at \in InHand
      /\ w \in Hands(w[1])' <=> pc'[w].at \in InHand
      /\ w \in Present(w[1]) <=> pc[w].at # "none"
      /\ w \in Present(w[1])' <=> pc'[w].at # "none"
  BY DEF Hands, Present
<1>5. IsFiniteSet(Hands(w[1])) /\ IsFiniteSet(Present(w[1]))
  BY <1>1, CountsFinite
<1> DEFINE H == Hands(w[1])  Hn == Hands(w[1])'  P == Present(w[1])  Pn == Present(w[1])'
<1> HIDE DEF H, Hn, P, Pn
<1>6. IsFiniteSet(H) /\ \A y : y # w => (y \in H <=> y \in Hn)
  BY <1>3, <1>5 DEF H, Hn
<1>7. IsFiniteSet(P) /\ \A y : y # w => (y \in P <=> y \in Pn)
  BY <1>3, <1>5 DEF P, Pn
<1>8. /\ Cardinality(Hn) \in Nat
      /\ w \in H /\ w \in Hn => Cardinality(Hn) = Cardinality(H)
      /\ w \notin H /\ w \notin Hn => Cardinality(Hn) = Cardinality(H)
      /\ w \in H /\ w \notin Hn => Cardinality(Hn) = Cardinality(H) - 1
      /\ w \notin H /\ w \in Hn => Cardinality(Hn) = Cardinality(H) + 1
  BY <1>6, SetCounts
<1>9. /\ w \in P /\ w \in Pn => Cardinality(Pn) = Cardinality(P)
      /\ w \in P /\ w \notin Pn => Cardinality(Pn) = Cardinality(P) - 1
  BY <1>7, SetCounts
<1> QED BY <1>2, <1>4, <1>8, <1>9 DEF H, Hn, P, Pn
-----------------------------------------------------------------------------
(* The scan *)

LEMMA ScanInitInv == ScanInit => ScanInv
<1> SUFFICES ASSUME ScanInit PROVE ScanInv
  OBVIOUS
<1> USE ScanAssumption DEF ScanInit, RequestInit, Fresh, Gone, Unread
<1>1. "none" \in WorkerAt /\ "none" \notin InHand
  BY DEF WorkerAt, InHand
<1>2. ScanTyped
  <2>1. ASSUME NEW s \in Scans PROVE context[s] \in ScanContext
    <3>1. context[s] = [next |-> 1, found |-> 0, stop |-> FALSE, active |-> 0, tested |-> 0]
      OBVIOUS
    <3>2. 1 \in 1..Unread /\ 0 \in 0..NameCount /\ FALSE \in BOOLEAN /\ 0 \in 0..PerScan
      OBVIOUS
    <3> QED BY <3>1, <3>2, Zenon DEF ScanContext
  <2>2. context \in [Scans -> ScanContext] /\ DOMAIN call = Workers
    BY <2>1
  <2>3. pc \in [Workers -> [at : WorkerAt, name : 0..NameCount]]
    BY <1>1
  <2>4. DOMAIN call = Workers
    OBVIOUS
  <2>5. 0 \in Scans \cup {0} /\ seen \in 0..Unread /\ 0 \in 0..NameCount
    OBVIOUS
  <2> QED BY <2>2, <2>3, <2>4, <2>5 DEF ScanTyped
<1>3. \A s \in Scans : Hands(s) = {} /\ Present(s) = {}
  BY <1>1 DEF Hands, Present
<1>4. \A s \in Scans : context[s].next = 1 /\ context[s].tested = 0 /\ context[s].active = 0
  OBVIOUS
<1>7. Cardinality({}) = 0
  BY FS_EmptySet
<1>8. CountsAgree
  <2>1. ASSUME NEW s \in Scans
        PROVE  /\ context[s].next - 1 = context[s].tested + Cardinality(Hands(s))
               /\ context[s].active = Cardinality(Present(s))
    <3>1. Cardinality(Hands(s)) = 0 /\ Cardinality(Present(s)) = 0
      BY <1>3, <1>7
    <3> QED BY <1>4, <3>1
  <2> QED BY <2>1 DEF CountsAgree
<1>5. \A w \in Workers : w[1] \in Nat /\ w[1] # 0
  BY DEF Workers
<1>6. EndsKnown
  BY <1>1, <1>5 DEF EndsKnown
<1> QED BY <1>2, <1>6, <1>8 DEF ScanInv

LEMMA ScanUnmoved ==
  ASSUME ScanInv, UNCHANGED scanVars, DOMAIN call' = Workers
  PROVE  ScanInv'
BY DEF ScanInv, ScanTyped, CountsAgree, EndsKnown, Hands, Present, scanVars, dialogVars, Of,
   Exhausted

LEMMA RequestKeepsCallers ==
  ASSUME NEW w \in Workers, DOMAIN call = Workers,
         RequestStep(w) \/ TakeAnswer(w) \/ (\E for \in {"handshake", "get"} : Ask(w, for))
  PROVE  DOMAIN call' = Workers
BY DEF RequestStep, Proceed, GiveUp, StoreAnswer, WaitEnds, Join, TakeAnswer, Ask

Hand(at) == IF at \in InHand THEN 1 ELSE 0

\* What every step of a worker does to the context of its scan.
LEMMA WorkerStep ==
  ASSUME ScanInv, NEW w \in Workers, pc[w].at # "none",
         UNCHANGED dialogVars, DOMAIN call' = Workers,
         pc' \in [Workers -> [at : WorkerAt, name : 0..NameCount]],
         \A v \in Workers : v # w => pc'[v] = pc[v],
         context' \in [Scans -> [next : 1..Unread, found : 0..NameCount, stop : BOOLEAN,
                                 active : Int, tested : Nat]],
         \A s \in Scans : s # w[1] => context'[s] = context[s],
         Of(w)'.next - Of(w)'.tested - Hand(pc'[w].at)
           = Of(w).next - Of(w).tested - Hand(pc[w].at),
         Of(w)'.active = Of(w).active - (IF pc'[w].at = "none" THEN 1 ELSE 0),
         Of(w).stop => Of(w)'.stop,
         Of(w).next <= Of(w)'.next,
         Of(w).found # 0 => Of(w)'.found # 0,
         Of(w)'.stop => Of(w).stop \/ Of(w)'.found # 0,
         pc'[w].at \in {"leave", "none"} => Of(w)'.stop \/ Exhausted(Of(w)'),
         pc'[w].at \in InHand => pc'[w].name # 0
  PROVE  ScanInv'
<1> USE ScanAssumption DEF ScanInv
<1>1. w[1] \in Scans /\ Of(w) = context[w[1]] /\ Of(w)' = context'[w[1]]
  BY DEF Workers, Of
<1>2. \A v \in Workers : v # w => pc'[v].at = pc[v].at
  OBVIOUS
<1>3. /\ pc[w].at \in InHand \/ pc[w].at \notin InHand
      /\ context[w[1]] \in ScanContext
  BY <1>1 DEF ScanTyped
<1> DEFINE h == Cardinality(Hands(w[1]))  hn == Cardinality(Hands(w[1])')
           p == Cardinality(Present(w[1]))  pn == Cardinality(Present(w[1])')
<1>4. /\ hn \in Nat /\ h \in Nat /\ p \in 0..PerScan /\ pn \in 0..PerScan
  <2>1. hn \in Nat
    BY <1>2, WorkerMoves
  <2>2. h \in Nat /\ p \in 0..PerScan
    BY <1>1, CountsFinite
  <2>3. Present(w[1])' \subseteq {v \in Workers : v[1] = w[1]}
    BY DEF Present
  <2>4. IsFiniteSet(Present(w[1])') /\ pn <= PerScan
    <3> DEFINE All == {v \in Workers : v[1] = w[1]}  Now == Present(w[1])'
    <3>1. IsFiniteSet(All) /\ Cardinality(All) = PerScan
      BY <1>1, WorkersOfScan
    <3>2. Now \in SUBSET All
      BY <2>3
    <3> HIDE DEF All, Now
    <3>3. IsFiniteSet(Now) /\ Cardinality(Now) <= Cardinality(All)
      BY <3>1, <3>2, FS_Subset
    <3> QED BY <3>1, <3>3 DEF Now
  <2>5. pn \in Nat
    BY <2>4, FS_CardinalityType
  <2> QED BY <2>1, <2>2, <2>4, <2>5
<1>5. hn = h + Hand(pc'[w].at) - Hand(pc[w].at)
  <2> HIDE DEF h, hn
  <2> SUFFICES
        /\ pc[w].at \in InHand /\ pc'[w].at \in InHand => hn = h
        /\ pc[w].at \notin InHand /\ pc'[w].at \notin InHand => hn = h
        /\ pc[w].at \in InHand /\ pc'[w].at \notin InHand => hn = h - 1
        /\ pc[w].at \notin InHand /\ pc'[w].at \in InHand => hn = h + 1
    BY <1>4 DEF Hand
  <2> QED BY <1>2, WorkerMoves DEF h, hn
<1>6. pn = p - (IF pc'[w].at = "none" THEN 1 ELSE 0)
  <2> HIDE DEF p, pn
  <2> SUFFICES
        /\ pc'[w].at # "none" => pn = p
        /\ pc'[w].at = "none" => pn = p - 1
    BY <1>4
  <2> QED BY <1>2, WorkerMoves DEF p, pn
<1>7. context[w[1]].next - 1 = context[w[1]].tested + h /\ context[w[1]].active = p
  BY <1>1 DEF CountsAgree
<1>8. /\ Hand(pc[w].at) \in {0, 1} /\ Hand(pc'[w].at) \in {0, 1}
      /\ NameCount \in Nat
      /\ context[w[1]].next \in 1..NameCount + 1 /\ context'[w[1]].next \in 1..NameCount + 1
      /\ context[w[1]].tested \in Nat /\ context'[w[1]].tested \in Nat
      /\ context[w[1]].active \in Int /\ context'[w[1]].active \in Int
  <2>1. Hand(pc[w].at) \in {0, 1} /\ Hand(pc'[w].at) \in {0, 1} /\ NameCount \in Nat
    BY DEF Hand
  <2>2. /\ context[w[1]].next \in 1..NameCount + 1 /\ context[w[1]].tested \in 0..NameCount
        /\ context[w[1]].active \in 0..PerScan
    BY <1>3 DEF ScanContext, Unread
  <2>3. /\ context'[w[1]].next \in 1..NameCount + 1 /\ context'[w[1]].tested \in Nat
        /\ context'[w[1]].active \in Int
    BY <1>1 DEF Unread
  <2> QED BY <2>1, <2>2, <2>3
<1>15. /\ context'[w[1]].next - context'[w[1]].tested - Hand(pc'[w].at)
            = context[w[1]].next - context[w[1]].tested - Hand(pc[w].at)
       /\ context'[w[1]].active = context[w[1]].active - (IF pc'[w].at = "none" THEN 1 ELSE 0)
  BY <1>1
<1>9. /\ context'[w[1]].next - 1 = context'[w[1]].tested + hn
      /\ context'[w[1]].active = pn
  <2> HIDE DEF h, hn, p, pn
  <2>1. context'[w[1]].next - 1 = context'[w[1]].tested + hn
    BY <1>4, <1>5, <1>7, <1>8, <1>15
  <2>2. context'[w[1]].active = pn
    BY <1>6, <1>7, <1>15
  <2> QED BY <2>1, <2>2
<1>10. context'[w[1]].tested \in 0..NameCount /\ context'[w[1]].active \in 0..PerScan
  <2> HIDE DEF h, hn, p, pn
  <2> QED BY <1>4, <1>8, <1>9
<1>11. context' \in [Scans -> ScanContext]
  <2>1. ASSUME NEW s \in Scans PROVE context'[s] \in ScanContext
    BY <1>10 DEF ScanTyped, ScanContext
  <2> QED BY <2>1
<1>12. ScanTyped'
  BY <1>11 DEF ScanTyped, dialogVars, Unread
<1>13. CountsAgree'
  <2>1. ASSUME NEW s \in Scans
        PROVE  /\ context'[s].next - 1 = context'[s].tested + Cardinality(Hands(s)')
               /\ context'[s].active = Cardinality(Present(s)')
    <3>1. CASE s = w[1]
      BY <1>9, <3>1
    <3>2. CASE s # w[1]
      <4>1. Hands(s)' = Hands(s) /\ Present(s)' = Present(s)
        BY <1>2, <3>2, WorkerMoves
      <4> QED BY <3>2, <4>1 DEF CountsAgree
    <3> QED BY <3>1, <3>2
  <2> QED BY <2>1 DEF CountsAgree
<1>14. EndsKnown'
  <2>1. ASSUME NEW v \in Workers
        PROVE  /\ v[1] <= begun' /\ pc'[v].at \in {"leave", "none"}
                    => Of(v)'.stop \/ Exhausted(Of(v)')
               /\ pc'[v].at \in InHand => pc'[v].name # 0
               /\ pc'[v].at # "none" => v[1] <= begun'
    <3>0. begun' = begun /\ (pc[v].at # "none" => v[1] <= begun)
      BY DEF EndsKnown, dialogVars
    <3>1. CASE v = w
      BY <3>0, <3>1
    <3>2. CASE v # w /\ v[1] # w[1]
      BY <3>0, <3>2 DEF EndsKnown, Of, Exhausted, Workers, dialogVars
    <3>3. CASE v # w /\ v[1] = w[1]
      <4>1. Of(v) = Of(w) /\ Of(v)' = Of(w)' /\ pc'[v] = pc[v] /\ begun' = begun
        BY <3>3 DEF Of, dialogVars
      <4>2. Exhausted(Of(w)) => Exhausted(Of(w)')
        BY <1>1, <1>8 DEF Exhausted
      <4> QED BY <3>0, <4>1, <4>2 DEF EndsKnown
    <3> QED BY <3>1, <3>2, <3>3
  <2>2. scan # 0 /\ context'[scan].stop => context'[scan].found # 0
    BY <1>1 DEF EndsKnown, ScanTyped
  <2> QED BY <2>1, <2>2 DEF EndsKnown, dialogVars
<1> QED BY <1>12, <1>13, <1>14

\* What is known of a worker's scan, and of the worker after At.
LEMMA ScanOf ==
  ASSUME ScanInv, NEW w \in Workers
  PROVE  /\ w[1] \in Scans /\ Of(w) = context[w[1]] /\ Of(w)' = context'[w[1]]
         /\ pc[w].at \in WorkerAt /\ pc[w].name \in 0..NameCount
         /\ Of(w).next \in 1..NameCount + 1 /\ Of(w).found \in 0..NameCount
         /\ Of(w).stop \in BOOLEAN
         /\ Of(w).active \in 0..PerScan /\ Of(w).tested \in 0..NameCount
         /\ NameCount \in Nat /\ PerScan \in Nat
         /\ context \in [Scans -> [next : 1..Unread, found : 0..NameCount, stop : BOOLEAN,
                                   active : Int, tested : Nat]]
<1> USE ScanAssumption
<1>1. w[1] \in Scans /\ Of(w) = context[w[1]] /\ Of(w)' = context'[w[1]]
  BY DEF Workers, Of
<1>2. Of(w) \in ScanContext /\ pc[w] \in [at : WorkerAt, name : 0..NameCount]
  BY <1>1 DEF ScanInv, ScanTyped
<1>3. \A c \in ScanContext :
        c \in [next : 1..Unread, found : 0..NameCount, stop : BOOLEAN, active : Int, tested : Nat]
  BY DEF ScanContext
<1>4. context \in [Scans -> [next : 1..Unread, found : 0..NameCount, stop : BOOLEAN,
                             active : Int, tested : Nat]]
  BY <1>3 DEF ScanInv, ScanTyped
<1> QED BY <1>1, <1>2, <1>4 DEF ScanContext, Unread

LEMMA MovesTo ==
  ASSUME ScanInv, NEW w \in Workers, NEW where \in WorkerAt, At(w, where)
  PROVE  /\ pc' \in [Workers -> [at : WorkerAt, name : 0..NameCount]]
         /\ \A v \in Workers : v # w => pc'[v] = pc[v]
         /\ pc'[w].at = where /\ pc'[w].name = pc[w].name
<1>1. pc \in [Workers -> [at : WorkerAt, name : 0..NameCount]]
  BY DEF ScanInv, ScanTyped
<1> QED BY <1>1 DEF At

\* A step that leaves the context alone.
LEMMA QuietStep ==
  ASSUME ScanInv, NEW w \in Workers, NEW where \in WorkerAt, At(w, where),
         UNCHANGED <<dialogVars, context>>, DOMAIN call' = Workers,
         pc[w].at \in InHand, where \in InHand
  PROVE  ScanInv'
<1>1. /\ pc' \in [Workers -> [at : WorkerAt, name : 0..NameCount]]
      /\ \A v \in Workers : v # w => pc'[v] = pc[v]
      /\ pc'[w].at = where /\ pc'[w].name = pc[w].name
  BY MovesTo
<1>2. Of(w)' = Of(w)
  BY DEF Of
<1>3. Hand(pc'[w].at) = Hand(pc[w].at)
  BY <1>1 DEF Hand
<1>4. where \notin {"none", "leave", "take"} /\ pc[w].at # "none"
  BY DEF InHand
<1>5. pc[w].name # 0
  BY DEF ScanInv, EndsKnown
<1>6. \A s \in Scans : s # w[1] => context'[s] = context[s]
  OBVIOUS
<1>7. /\ Of(w)'.next - Of(w)'.tested - Hand(pc'[w].at)
           = Of(w).next - Of(w).tested - Hand(pc[w].at)
      /\ Of(w)'.active = Of(w).active - (IF pc'[w].at = "none" THEN 1 ELSE 0)
      /\ Of(w).next <= Of(w)'.next
      /\ context' \in [Scans -> [next : 1..Unread, found : 0..NameCount, stop : BOOLEAN,
                                 active : Int, tested : Nat]]
  BY <1>1, <1>2, <1>3, <1>4, ScanOf
<1>8. UNCHANGED dialogVars /\ pc'[w].at \notin {"leave", "none"} /\ pc'[w].name # 0
  BY <1>1, <1>4, <1>5
<1> QED BY <1>1, <1>2, <1>4, <1>6, <1>7, <1>8, WorkerStep

LEMMA WorkerTurnInv ==
  ASSUME ScanInv, NEW w \in Workers, WorkerTurn(w)
  PROVE  ScanInv'
<1> USE ScanAssumption
<1>0. DOMAIN call = Workers
  BY DEF ScanInv, ScanTyped
<1>1. {"none", "take", "leave", "try", "handshake", "again", "get", "works", "failed"} \subseteq WorkerAt
  BY DEF WorkerAt, InHand
<1>2. pc \in [Workers -> [at : WorkerAt, name : 0..NameCount]]
  BY DEF ScanInv, ScanTyped
<1>3. CASE TakeName(w)
  <2>1. /\ pc[w].at = "take" /\ UNCHANGED dialogVars /\ DOMAIN call' = Workers
        /\ Hand(pc[w].at) = 0
    BY <1>0, <1>3 DEF TakeName, requests, Hand, InHand
  <2>2. CASE Of(w).stop \/ Exhausted(Of(w))
    <3>1. At(w, "leave") /\ UNCHANGED context
      BY <1>3, <2>2 DEF TakeName
    <3>2. /\ pc' \in [Workers -> [at : WorkerAt, name : 0..NameCount]]
          /\ \A v \in Workers : v # w => pc'[v] = pc[v]
          /\ pc'[w].at = "leave"
      BY <1>1, <3>1, MovesTo
    <3>3. Hand(pc'[w].at) = 0 /\ pc'[w].at \notin InHand /\ Of(w)' = Of(w)
      BY <3>1, <3>2 DEF Hand, InHand, Of
    <3>4. /\ Of(w)'.next - Of(w)'.tested - Hand(pc'[w].at)
               = Of(w).next - Of(w).tested - Hand(pc[w].at)
          /\ Of(w)'.active = Of(w).active - (IF pc'[w].at = "none" THEN 1 ELSE 0)
          /\ Of(w).next <= Of(w)'.next
          /\ context' \in [Scans -> [next : 1..Unread, found : 0..NameCount, stop : BOOLEAN,
                                     active : Int, tested : Nat]]
          /\ \A s \in Scans : s # w[1] => context'[s] = context[s]
      BY <2>1, <3>1, <3>2, <3>3, ScanOf
    <3>5. Of(w)'.stop \/ Exhausted(Of(w)')
      BY <2>2, <3>3
    <3> QED BY <2>1, <3>2, <3>3, <3>4, <3>5, WorkerStep
  <2>3. CASE ~(Of(w).stop \/ Exhausted(Of(w)))
    <3>1. /\ pc' = [pc EXCEPT ![w] = [at |-> "try", name |-> Of(w).next]]
          /\ context' = [context EXCEPT ![w[1]].next = @ + 1]
      BY <1>3, <2>3 DEF TakeName
    <3>2. Of(w).next \in 1..NameCount
      BY <2>3, ScanOf DEF Exhausted
    <3>3. /\ pc' \in [Workers -> [at : WorkerAt, name : 0..NameCount]]
          /\ \A v \in Workers : v # w => pc'[v] = pc[v]
          /\ pc'[w].at = "try" /\ pc'[w].name # 0
      BY <1>1, <1>2, <3>1, <3>2
    <3>4. Of(w).next + 1 \in 1..Unread
      BY <3>2 DEF Unread
    <3>5. /\ Of(w)'.next = Of(w).next + 1
          /\ Of(w)'.tested = Of(w).tested /\ Of(w)'.active = Of(w).active
          /\ Of(w)'.stop = Of(w).stop /\ Of(w)'.found = Of(w).found
          /\ context' \in [Scans -> [next : 1..Unread, found : 0..NameCount, stop : BOOLEAN,
                                     active : Int, tested : Nat]]
          /\ \A s \in Scans : s # w[1] => context'[s] = context[s]
      BY <3>1, <3>4, ScanOf
    <3>6. Hand(pc'[w].at) = 1 /\ pc'[w].at \notin {"leave", "none"}
      BY <3>3 DEF Hand, InHand
    <3>7. /\ Of(w)'.next - Of(w)'.tested - Hand(pc'[w].at)
               = Of(w).next - Of(w).tested - Hand(pc[w].at)
          /\ Of(w)'.active = Of(w).active - (IF pc'[w].at = "none" THEN 1 ELSE 0)
          /\ Of(w).next <= Of(w)'.next
      BY <2>1, <3>5, <3>6, ScanOf
    <3> QED BY <2>1, <3>3, <3>5, <3>6, <3>7, WorkerStep
  <2> QED BY <2>2, <2>3
<1>4. CASE TryName(w) \/ NextTry(w) \/ GetName(w)
  <2>1. DOMAIN call' = Workers
    BY <1>0, <1>4, RequestKeepsCallers DEF TryName, NextTry, GetName, requests
  <2>2. PICK where \in {"failed", "handshake", "works", "again", "get"} : At(w, where)
    BY <1>4 DEF TryName, NextTry, GetName
  <2>3. UNCHANGED <<dialogVars, context>> /\ pc[w].at \in InHand
    BY <1>4 DEF TryName, NextTry, GetName, InHand
  <2>4. where \in WorkerAt /\ where \in InHand
    BY DEF WorkerAt, InHand
  <2> QED BY <2>1, <2>2, <2>3, <2>4, QuietStep
<1>5. CASE Report(w)
  <2> DEFINE works == pc[w].at # "failed"
  <2>1. /\ pc[w].at \in {"works", "failed"} /\ UNCHANGED dialogVars /\ DOMAIN call' = Workers
        /\ Hand(pc[w].at) = 1 /\ pc[w].name # 0
    BY <1>0, <1>5 DEF Report, requests, Hand, InHand, ScanInv, EndsKnown
  <2>2. At(w, IF works THEN "leave" ELSE "take")
    BY <1>5, <2>1 DEF Report
  <2>3. /\ pc' \in [Workers -> [at : WorkerAt, name : 0..NameCount]]
        /\ \A v \in Workers : v # w => pc'[v] = pc[v]
        /\ pc'[w].at = IF works THEN "leave" ELSE "take"
    BY <1>1, <2>2, MovesTo
  <2>4. /\ Of(w)'.next = Of(w).next
        /\ Of(w)'.tested = Of(w).tested + 1 /\ Of(w)'.active = Of(w).active
        /\ works => Of(w)'.stop /\ Of(w)'.found # 0
        /\ ~works => Of(w)'.stop = Of(w).stop /\ Of(w)'.found = Of(w).found
        /\ context' \in [Scans -> [next : 1..Unread, found : 0..NameCount, stop : BOOLEAN,
                                   active : Int, tested : Nat]]
        /\ \A s \in Scans : s # w[1] => context'[s] = context[s]
    <3>1. CASE works
      <4>1. context' = [context EXCEPT ![w[1]] =
              [[Of(w) EXCEPT !.tested = @ + 1] EXCEPT
                 !.found = IF Of(w).found = 0 THEN pc[w].name ELSE Of(w).found, !.stop = TRUE]]
        BY <1>5, <2>1, <3>1, ScanOf DEF Report
      <4> DEFINE Record == [next : 1..Unread, found : 0..NameCount, stop : BOOLEAN,
                            active : Int, tested : Nat]
                 found == IF Of(w).found = 0 THEN pc[w].name ELSE Of(w).found
                 counted == [Of(w) EXCEPT !.tested = @ + 1]
                 ctx == [counted EXCEPT !.found = found, !.stop = TRUE]
      <4>2. Of(w) \in Record /\ Of(w).tested \in Nat
        BY ScanOf
      <4>3. /\ counted \in Record
            /\ counted.next = Of(w).next /\ counted.active = Of(w).active
            /\ counted.tested = Of(w).tested + 1
        BY <4>2
      <4>4. found \in 0..NameCount /\ found # 0
        BY <2>1, ScanOf
      <4> HIDE DEF counted, found
      <4>5. /\ ctx \in Record /\ ctx.next = counted.next /\ ctx.found = found
            /\ ctx.stop = TRUE /\ ctx.active = counted.active /\ ctx.tested = counted.tested
        BY <4>3, <4>4
      <4>6. context' = [context EXCEPT ![w[1]] = ctx]
        BY <4>1 DEF counted, found
      <4> HIDE DEF ctx
      <4>7. context' \in [Scans -> Record] /\ Of(w)' = ctx
            /\ \A s \in Scans : s # w[1] => context'[s] = context[s]
        BY <4>5, <4>6, ScanOf
      <4> QED BY <3>1, <4>3, <4>4, <4>5, <4>7
    <3>2. CASE ~works
      <4>1. context' = [context EXCEPT ![w[1]] = [Of(w) EXCEPT !.tested = @ + 1]]
        BY <1>5, <2>1, <3>2 DEF Report
      <4> QED BY <2>1, <3>2, <4>1, ScanOf
    <3> QED BY <3>1, <3>2
  <2>5. Hand(pc'[w].at) = 0 /\ pc'[w].at \notin InHand /\ pc'[w].at # "none"
    BY <2>3 DEF Hand, InHand
  <2>6. /\ Of(w)'.next - Of(w)'.tested - Hand(pc'[w].at)
             = Of(w).next - Of(w).tested - Hand(pc[w].at)
        /\ Of(w)'.active = Of(w).active - (IF pc'[w].at = "none" THEN 1 ELSE 0)
        /\ Of(w).next <= Of(w)'.next
    BY <2>1, <2>4, <2>5, ScanOf
  <2>7. /\ Of(w).stop => Of(w)'.stop
        /\ Of(w).found # 0 => Of(w)'.found # 0
        /\ Of(w)'.stop => Of(w).stop \/ Of(w)'.found # 0
        /\ pc'[w].at \in {"leave", "none"} => Of(w)'.stop
    BY <2>3, <2>4
  <2>8. pc[w].at # "none"
    BY <2>1
  <2> QED BY <2>1, <2>3, <2>4, <2>5, <2>6, <2>7, <2>8, WorkerStep
<1>6. CASE Leave(w)
  <2>1. /\ pc[w].at = "leave" /\ UNCHANGED dialogVars /\ DOMAIN call' = Workers
        /\ Hand(pc[w].at) = 0
        /\ pc' = [pc EXCEPT ![w] = Gone]
        /\ context' = [context EXCEPT ![w[1]].active = @ - 1]
    BY <1>0, <1>6 DEF Leave, CountOut, requests, Hand, InHand
  <2>2. Gone \in [at : WorkerAt, name : 0..NameCount] /\ Gone.at = "none"
    <3>1. "none" \in WorkerAt /\ 0 \in 0..NameCount
      BY <1>1
    <3> QED BY <3>1 DEF Gone
  <2>3. /\ pc' \in [Workers -> [at : WorkerAt, name : 0..NameCount]]
        /\ \A v \in Workers : v # w => pc'[v] = pc[v]
        /\ pc'[w].at = "none" /\ Hand(pc'[w].at) = 0 /\ pc'[w].at \notin InHand
    BY <1>2, <2>1, <2>2 DEF Hand, InHand
  <2>4. /\ Of(w)'.next = Of(w).next /\ Of(w)'.tested = Of(w).tested
        /\ Of(w)'.active = Of(w).active - 1
        /\ Of(w)'.stop = Of(w).stop /\ Of(w)'.found = Of(w).found
        /\ context' \in [Scans -> [next : 1..Unread, found : 0..NameCount, stop : BOOLEAN,
                                   active : Int, tested : Nat]]
        /\ \A s \in Scans : s # w[1] => context'[s] = context[s]
    BY <2>1, ScanOf
  <2>5. /\ Of(w)'.next - Of(w)'.tested - Hand(pc'[w].at)
             = Of(w).next - Of(w).tested - Hand(pc[w].at)
        /\ Of(w)'.active = Of(w).active - (IF pc'[w].at = "none" THEN 1 ELSE 0)
        /\ Of(w).next <= Of(w)'.next
    BY <2>1, <2>3, <2>4, ScanOf
  <2>6. Of(w).stop \/ Exhausted(Of(w))
    BY <2>1 DEF ScanInv, EndsKnown
  <2>7. Of(w)'.stop \/ Exhausted(Of(w)')
    BY <2>4, <2>6 DEF Exhausted
  <2>8. pc[w].at # "none"
    BY <2>1
  <2> QED BY <2>1, <2>3, <2>4, <2>5, <2>7, <2>8, WorkerStep
<1> QED BY <1>3, <1>4, <1>5, <1>6 DEF WorkerTurn

LEMMA StartScanningInv ==
  ASSUME ScanInv, StartScanning
  PROVE  ScanInv'
<1> USE ScanAssumption DEF ScanInv
<1>1. /\ scan = 0 /\ begun + 1 \in Scans /\ begun' = begun + 1 /\ scan' = begun'
      /\ context' = [context EXCEPT ![begun'] = Fresh]
      /\ pc' = [w \in Workers |-> IF w[1] = begun' THEN [Gone EXCEPT !.at = "take"] ELSE pc[w]]
      /\ UNCHANGED <<seen, adopted, call>>
  BY DEF StartScanning, requests
<1>2. begun \in Nat /\ begun' # begun /\ begun' \in Scans /\ begun' # 0
  BY <1>1 DEF ScanTyped
<1>3. Fresh \in ScanContext /\ Fresh.next = 1 /\ Fresh.tested = 0 /\ Fresh.active = PerScan
      /\ ~Fresh.stop
  BY DEF Fresh, ScanContext, Unread
<1>4. /\ [Gone EXCEPT !.at = "take"] \in [at : WorkerAt, name : 0..NameCount]
      /\ [Gone EXCEPT !.at = "take"].at = "take"
  <2>1. "take" \in WorkerAt /\ 0 \in 0..NameCount
    BY DEF WorkerAt
  <2>2. [Gone EXCEPT !.at = "take"] = [at |-> "take", name |-> 0]
    BY DEF Gone
  <2> QED BY <2>1, <2>2
<1> DEFINE ready == [Gone EXCEPT !.at = "take"]
<1>5. /\ \A w \in Workers : w[1] = begun' => pc'[w].at = "take"
      /\ \A w \in Workers : w[1] # begun' => pc'[w] = pc[w]
      /\ pc' \in [Workers -> [at : WorkerAt, name : 0..NameCount]]
  <2> HIDE DEF ready
  <2>1. pc' = [w \in Workers |-> IF w[1] = begun' THEN ready ELSE pc[w]]
    BY <1>1 DEF ready
  <2>2. ready \in [at : WorkerAt, name : 0..NameCount] /\ ready.at = "take"
    BY <1>4 DEF ready
  <2>3. pc \in [Workers -> [at : WorkerAt, name : 0..NameCount]]
    BY DEF ScanTyped
  <2> QED BY <2>1, <2>2, <2>3
<1>6. /\ context'[begun'] = Fresh
      /\ \A s \in Scans : s # begun' => context'[s] = context[s]
      /\ context' \in [Scans -> ScanContext]
  <2> HIDE DEF ready
  <2> QED BY <1>1, <1>2, <1>3 DEF ScanTyped
<1>7. ScanTyped'
  BY <1>1, <1>2, <1>5, <1>6 DEF ScanTyped, Unread
<1>8. CountsAgree'
  <2>1. ASSUME NEW s \in Scans
        PROVE  /\ context'[s].next - 1 = context'[s].tested + Cardinality(Hands(s)')
               /\ context'[s].active = Cardinality(Present(s)')
    <3>1. CASE s = begun'
      <4>1. Hands(s)' = {}
        BY <1>5, <3>1 DEF Hands, InHand
      <4>2. Present(s)' = {w \in Workers : w[1] = s}
        BY <1>5, <3>1 DEF Present
      <4>3. Cardinality(Hands(s)') = 0 /\ Cardinality(Present(s)') = PerScan
        BY <4>1, <4>2, FS_EmptySet, WorkersOfScan
      <4> QED BY <1>3, <1>6, <3>1, <4>3
    <3>2. CASE s # begun'
      <4>1. Hands(s)' = Hands(s) /\ Present(s)' = Present(s)
        BY <1>5, <3>2 DEF Hands, Present
      <4> QED BY <1>6, <3>2, <4>1 DEF CountsAgree
    <3> QED BY <3>1, <3>2
  <2> QED BY <2>1 DEF CountsAgree
<1>9. EndsKnown'
  <2>1. ASSUME NEW w \in Workers
        PROVE  /\ w[1] <= begun' /\ pc'[w].at \in {"leave", "none"}
                    => Of(w)'.stop \/ Exhausted(Of(w)')
               /\ pc'[w].at \in InHand => pc'[w].name # 0
               /\ pc'[w].at # "none" => w[1] <= begun'
    <3>1. w[1] \in Nat /\ w[1] \in Scans
      BY DEF Workers
    <3>2. CASE w[1] = begun'
      <4>1. pc'[w].at = "take" /\ "take" \notin InHand
        BY <1>5, <3>2 DEF InHand
      <4>2. pc'[w].at \notin {"leave", "none"} /\ pc'[w].at \notin InHand
        BY <4>1
      <4> QED BY <3>1, <3>2, <4>2
    <3>3. CASE w[1] # begun'
      <4>1. pc'[w] = pc[w] /\ Of(w)' = Of(w)
        BY <1>5, <1>6, <3>1, <3>3 DEF Of
      <4>2. w[1] <= begun' => w[1] <= begun
        BY <1>1, <1>2, <3>1, <3>3
      <4>3. w[1] <= begun => w[1] <= begun'
        BY <1>1, <1>2, <3>1
      <4> QED BY <4>1, <4>2, <4>3 DEF EndsKnown, Exhausted
    <3> QED BY <3>2, <3>3
  <2>2. ~context'[scan'].stop
    BY <1>1, <1>3, <1>6
  <2> QED BY <2>1, <2>2 DEF EndsKnown
<1> QED BY <1>7, <1>8, <1>9

\* Letting go of a scan.
LEMMA StopScanningInv ==
  ASSUME ScanInv, scan # 0, StopScanning, adopted' \in 0..NameCount,
         UNCHANGED <<begun, pc, requests>>
  PROVE  ScanInv'
<1> USE ScanAssumption DEF ScanInv
<1>1. /\ context' = [context EXCEPT ![scan].stop = TRUE] /\ scan' = 0 /\ seen' = Unread
      /\ UNCHANGED <<begun, pc, call>>
  BY DEF StopScanning, requests
<1>2. scan \in Scans
  BY DEF ScanTyped
<1>3. /\ context' \in [Scans -> ScanContext]
      /\ \A s \in Scans : /\ context'[s].next = context[s].next
                          /\ context'[s].tested = context[s].tested
                          /\ context'[s].active = context[s].active
                          /\ context[s].stop => context'[s].stop
  <2>1. ASSUME NEW s \in Scans, NEW c \in ScanContext
        PROVE  /\ [c EXCEPT !.stop = TRUE] \in ScanContext
               /\ [c EXCEPT !.stop = TRUE].next = c.next
               /\ [c EXCEPT !.stop = TRUE].tested = c.tested
               /\ [c EXCEPT !.stop = TRUE].active = c.active
               /\ [c EXCEPT !.stop = TRUE].stop
    BY DEF ScanContext
  <2>2. context' = [context EXCEPT ![scan] = [context[scan] EXCEPT !.stop = TRUE]]
    BY <1>1
  <2> QED BY <1>2, <2>1, <2>2 DEF ScanTyped
<1>4. ScanTyped'
  BY <1>1, <1>3 DEF ScanTyped, Unread
<1>5. \A s \in Scans : Hands(s)' = Hands(s) /\ Present(s)' = Present(s)
  BY <1>1 DEF Hands, Present
<1>6. CountsAgree'
  BY <1>3, <1>5 DEF CountsAgree
<1>7. EndsKnown'
  BY <1>1, <1>3 DEF EndsKnown, Of, Exhausted, Workers
<1> QED BY <1>4, <1>6, <1>7

LEMMA TimerInv ==
  ASSUME ScanInv, Timer \/ CancelScan
  PROVE  ScanInv'
<1> USE ScanAssumption
<1>1. CASE LookForResult
  <2>1. scan # 0 /\ scan \in Scans /\ seen' = context[scan].found /\ seen' \in 0..NameCount
    BY <1>1 DEF LookForResult, ScanInv, ScanTyped, ScanContext
  <2>2. UNCHANGED <<scan, begun, adopted, context, pc, call>>
    BY <1>1 DEF LookForResult, requests
  <2>3. ScanTyped'
    BY <2>1, <2>2 DEF ScanInv, ScanTyped, Unread
  <2>4. CountsAgree' /\ EndsKnown'
    BY <2>2 DEF ScanInv, CountsAgree, EndsKnown, Hands, Present, Of, Exhausted
  <2> QED BY <2>3, <2>4 DEF ScanInv
<1>2. CASE ActOnResult
  <2>1. seen # Unread /\ scan # 0 /\ seen \in 0..NameCount
    BY <1>2 DEF ActOnResult, ScanInv, ScanTyped, Unread
  <2>2. CASE seen # 0 \/ context[scan].active = 0
    <3>1. StopScanning /\ UNCHANGED <<begun, pc, requests>>
      BY <1>2, <2>2 DEF ActOnResult
    <3>2. adopted' \in 0..NameCount
      BY <1>2, <2>1, <2>2 DEF ActOnResult, ScanInv, ScanTyped
    <3> QED BY <2>1, <3>1, <3>2, StopScanningInv
  <2>3. CASE ~(seen # 0 \/ context[scan].active = 0)
    <3>1. seen' = Unread /\ UNCHANGED <<scan, begun, adopted, context, pc, call>>
      BY <1>2, <2>3 DEF ActOnResult, requests
    <3>2. ScanTyped'
      BY <3>1 DEF ScanInv, ScanTyped, Unread
    <3>3. CountsAgree' /\ EndsKnown'
      BY <3>1 DEF ScanInv, CountsAgree, EndsKnown, Hands, Present, Of, Exhausted
    <3> QED BY <3>2, <3>3 DEF ScanInv
  <2> QED BY <2>2, <2>3
<1>3. CASE CancelScan
  <2>1. scan # 0 /\ StopScanning /\ UNCHANGED <<begun, adopted, pc, requests>>
    BY <1>3 DEF CancelScan
  <2> QED BY <2>1, StopScanningInv DEF ScanInv, ScanTyped
<1> QED BY <1>1, <1>2, <1>3 DEF Timer

\* "No working SNI found": when the workers are gone, the list is at its end
\* or the scan was stopped by a name that works.
LEMMA SoundVerdict ==
  ASSUME ScanInv, Timer \/ CancelScan
  PROVE  VerdictIsSound
<1> SUFFICES ASSUME seen = 0, scan # 0, scan' = 0
             PROVE  context[scan].tested = NameCount \/ context[scan].found # 0
  BY DEF VerdictIsSound
<1> USE ScanAssumption
<1>1. ActOnResult
  BY DEF Timer, LookForResult, CancelScan, Unread
<1>2. context[scan].active = 0 /\ scan \in Scans /\ scan = begun
  BY <1>1 DEF ActOnResult, ScanInv, ScanTyped
<1>3. IsFiniteSet(Present(scan)) /\ Cardinality(Present(scan)) = 0
  BY <1>2, CountsFinite DEF ScanInv, CountsAgree
<1>4. Present(scan) = {}
  BY <1>3, FS_EmptySet
<1> DEFINE w == <<scan, 1>>
<1>5. w \in Workers /\ w[1] = scan /\ Of(w) = context[scan]
  BY <1>2 DEF Workers, Of
<1>6. pc[w].at = "none"
  BY <1>4, <1>5 DEF Present
<1>7. context[scan].stop \/ Exhausted(context[scan])
  BY <1>2, <1>5, <1>6 DEF ScanInv, EndsKnown
<1>8. CASE context[scan].stop
  BY <1>8 DEF ScanInv, EndsKnown
<1>9. CASE Exhausted(context[scan])
  <2>1. Hands(scan) = {}
    BY <1>4 DEF Hands, Present, InHand
  <2>2. Cardinality(Hands(scan)) = 0
    BY <2>1, FS_EmptySet
  <2>3. context[scan].next - 1 = context[scan].tested
    BY <1>2, <2>2 DEF ScanInv, CountsAgree, ScanTyped, ScanContext
  <2>4. context[scan].next = NameCount + 1
    BY <1>2, <1>9 DEF Exhausted, ScanInv, ScanTyped, ScanContext, Unread
  <2> QED BY <2>3, <2>4
<1> QED BY <1>7, <1>8, <1>9

LEMMA DialogStep ==
  ASSUME ScanInv, StartScanning \/ CancelScan \/ Timer \/ \E w \in Workers : Thread(w)
  PROVE  ScanInv' /\ VerdictIsSound
<1>1. CASE StartScanning
  BY <1>1, StartScanningInv DEF StartScanning, VerdictIsSound
<1>2. CASE CancelScan \/ Timer
  BY <1>2, TimerInv, SoundVerdict
<1>3. ASSUME NEW w \in Workers, Thread(w) PROVE ScanInv' /\ UNCHANGED scan
  <2>1. CASE WorkerTurn(w)
    BY <2>1, WorkerTurnInv DEF WorkerTurn, TakeName, TryName, NextTry, GetName, Report, Leave,
       dialogVars
  <2>2. CASE RequestStep(w) /\ UNCHANGED scanVars
    <3>1. DOMAIN call' = Workers
      BY <2>2, RequestKeepsCallers DEF ScanInv, ScanTyped
    <3> QED BY <2>2, <3>1, ScanUnmoved DEF scanVars, dialogVars
  <2> QED BY <1>3, <2>1, <2>2 DEF Thread
<1> QED BY <1>1, <1>2, <1>3 DEF VerdictIsSound
-----------------------------------------------------------------------------
(* The page *)

\* A service taken out of a list, or a row out of the table.
LEMMA TakenOut ==
  ASSUME NEW S, NEW s \in Seq(S), NEW i \in 1..Len(s)
  PROVE  /\ RemoveAt(s, i) \in Seq(S)
         /\ Len(RemoveAt(s, i)) = Len(s) - 1
         /\ \A k \in 1..Len(s) - 1 : RemoveAt(s, i)[k] = s[IF k < i THEN k ELSE k + 1]
<1> DEFINE a == SubSeq(s, 1, i - 1)  b == SubSeq(s, i + 1, Len(s))
<1>1. /\ Len(s) \in Nat /\ i \in Nat /\ 1 <= i /\ i <= Len(s)
  OBVIOUS
<1>2. /\ a \in Seq(S) /\ Len(a) = i - 1 /\ \A k \in 1..i - 1 : a[k] = s[k]
  BY <1>1
<1>3. /\ b \in Seq(S) /\ Len(b) = Len(s) - i /\ \A k \in 1..Len(s) - i : b[k] = s[i + k]
  BY <1>1
<1> HIDE DEF a, b
<1>4. a \o b \in Seq(S) /\ Len(a \o b) = Len(s) - 1
  <2>1. a \o b \in Seq(S) /\ Len(a \o b) = Len(a) + Len(b)
    BY <1>2, <1>3, ConcatProperties
  <2> QED BY <1>1, <1>2, <1>3, <2>1
<1>5. ASSUME NEW k \in 1..Len(s) - 1
      PROVE  (a \o b)[k] = s[IF k < i THEN k ELSE k + 1]
  <2>1. CASE k < i
    BY <1>1, <1>2, <1>3, <2>1
  <2>2. CASE ~(k < i)
    <3>1. (a \o b)[k] = b[k - Len(a)]
      BY <1>1, <1>2, <1>3, <2>2
    <3>2. k - Len(a) \in 1..Len(s) - i /\ i + (k - Len(a)) = k + 1
      BY <1>1, <1>2, <2>2
    <3> QED BY <1>3, <2>2, <3>1, <3>2
  <2> QED BY <2>1, <2>2
<1>6. RemoveAt(s, i) = a \o b
  BY DEF RemoveAt, a, b
<1> QED BY <1>4, <1>5, <1>6

\* The index of a service is that of a service of the name, if there is one.
LEMMA IndexFound ==
  ASSUME NEW name, services \in Seq(Service), ListedOnce(services)
  PROVE  \/ /\ IndexOf(name) = 0
            /\ \A i \in 1..Len(services) : services[i].name # name
         \/ /\ IndexOf(name) \in 1..Len(services)
            /\ services[IndexOf(name)].name = name
<1> DEFINE at == {i \in 1..Len(services) : services[i].name = name}
<1>1. CASE at = {}
  BY <1>1 DEF IndexOf
<1>2. CASE at # {}
  <2>1. PICK i \in at : TRUE
    BY <1>2
  <2>2. \A j \in at : i <= j
    BY <2>1 DEF ListedOnce
  <2>3. IndexOf(name) = CHOOSE m \in at : \A j \in at : m <= j
    BY <1>2 DEF IndexOf
  <2>4. IndexOf(name) \in at
    BY <2>2, <2>3
  <2> QED BY <2>4
<1> QED BY <1>1, <1>2

\* A list without one of its services lists the others once.
LEMMA OthersListedOnce ==
  ASSUME NEW s \in Seq(Service), NEW i \in 1..Len(s), ListedOnce(s)
  PROVE  /\ ListedOnce(RemoveAt(s, i))
         /\ \A k \in 1..Len(s) - 1 : RemoveAt(s, i)[k].name # s[i].name
<1> DEFINE From(k) == IF k < i THEN k ELSE k + 1
<1>1. /\ Len(RemoveAt(s, i)) = Len(s) - 1 /\ Len(s) \in Nat
      /\ \A k \in 1..Len(s) - 1 : RemoveAt(s, i)[k] = s[From(k)]
  BY TakenOut
<1>2. \A k \in 1..Len(s) - 1 : From(k) \in 1..Len(s) /\ From(k) # i
  OBVIOUS
<1>3. \A j, k \in 1..Len(s) - 1 : From(j) = From(k) => j = k
  OBVIOUS
<1> HIDE DEF From
<1>4. \A k \in 1..Len(s) - 1 : RemoveAt(s, i)[k].name # s[i].name
  BY <1>1, <1>2 DEF ListedOnce
<1>5. \A j, k \in 1..Len(s) - 1 :
        RemoveAt(s, i)[j].name = RemoveAt(s, i)[k].name => From(j) = From(k)
  BY <1>1, <1>2 DEF ListedOnce
<1> QED BY <1>1, <1>3, <1>4, <1>5 DEF ListedOnce

\* A new token replaces the old one of its service.
LEMMA ReplacedOnce ==
  ASSUME NEW name \in Names, NEW token \in Tokens,
         services \in Seq(Service), ListedOnce(services)
  PROVE  /\ Replaced(name, token) \in Seq(Service)
         /\ ListedOnce(Replaced(name, token))
<1> DEFINE kept == Without(services, IndexOf(name))
           new == [name |-> name, token |-> token]
<1>1. /\ kept \in Seq(Service) /\ ListedOnce(kept)
      /\ \A k \in 1..Len(kept) : kept[k].name # name
  <2>1. CASE IndexOf(name) = 0 /\ \A i \in 1..Len(services) : services[i].name # name
    BY <2>1 DEF Without
  <2>2. CASE /\ IndexOf(name) \in 1..Len(services)
             /\ services[IndexOf(name)].name = name
    <3> DEFINE i == IndexOf(name)
    <3>1. i \in 1..Len(services) /\ services[i].name = name
      BY <2>2
    <3>2. kept = RemoveAt(services, i)
      BY <2>2 DEF Without
    <3> HIDE DEF i
    <3>3. /\ RemoveAt(services, i) \in Seq(Service)
          /\ Len(RemoveAt(services, i)) = Len(services) - 1
      BY <3>1, TakenOut
    <3>4. /\ ListedOnce(RemoveAt(services, i))
          /\ \A k \in 1..Len(services) - 1 : RemoveAt(services, i)[k].name # services[i].name
      BY <3>1, OthersListedOnce
    <3> QED BY <3>1, <3>2, <3>3, <3>4
  <2> QED BY <2>1, <2>2, IndexFound
<1>2. new \in Service /\ new.name = name
  BY DEF Service
<1>3. Replaced(name, token) = Append(kept, new)
  BY DEF Replaced
<1> HIDE DEF kept, new
<1>4. /\ Append(kept, new) \in Seq(Service)
      /\ Len(kept) \in Nat /\ Len(Append(kept, new)) = Len(kept) + 1
      /\ \A k \in 1..Len(kept) : Append(kept, new)[k] = kept[k]
      /\ Append(kept, new)[Len(kept) + 1] = new
  BY <1>1, <1>2, AppendProperties
<1>5. ListedOnce(Append(kept, new))
  <2> SUFFICES ASSUME NEW i \in 1..Len(kept) + 1, NEW j \in 1..Len(kept) + 1,
                      Append(kept, new)[i].name = Append(kept, new)[j].name
               PROVE  i = j
    BY <1>4 DEF ListedOnce
  <2>1. CASE i \in 1..Len(kept) /\ j \in 1..Len(kept)
    BY <1>1, <1>4, <2>1 DEF ListedOnce
  <2>2. CASE i = Len(kept) + 1 \/ j = Len(kept) + 1
    BY <1>1, <1>2, <1>4, <2>2
  <2> QED BY <1>4, <2>1, <2>2
<1> QED BY <1>3, <1>4, <1>5

LEMMA BrokenFile ==
  /\ Broken \in [intact : BOOLEAN, services : Seq(Service), value : Values]
  /\ Broken.services = << >> /\ Broken.intact = FALSE
<1>1. << >> \in Seq(Service) /\ Default \in Values
  BY EmptySeq, SettingsAssumption
<1>2. Absent = [intact |-> TRUE, services |-> << >>, value |-> Default]
  BY Zenon DEF Absent, Content
<1>3. /\ Absent \in [intact : BOOLEAN, services : Seq(Service), value : Values]
      /\ Absent.services = << >>
  BY <1>1, <1>2
<1> QED BY <1>3 DEF Broken

\* What Save leaves in the file can be read again.
LEMMA SaveKeepsFile ==
  ASSUME NEW s \in Seq(Service), NEW v \in Values, Save(s, v), ListedOnce(s),
         file \in [intact : BOOLEAN, services : Seq(Service), value : Values],
         ListedOnce(file.services)
  PROVE  /\ file' \in [intact : BOOLEAN, services : Seq(Service), value : Values]
         /\ saved' \in BOOLEAN /\ ListedOnce(file'.services)
         /\ escaped \in BOOLEAN => escaped' \in BOOLEAN
         /\ saved' /\ file'.intact => file'.services = s /\ file'.value = v
<1> USE SettingsAssumption
<1>1. /\ Content(s, v) \in [intact : BOOLEAN, services : Seq(Service), value : Values]
      /\ Content(s, v).services = s /\ Content(s, v).value = v
  BY DEF Content
<1>2. /\ Broken \in [intact : BOOLEAN, services : Seq(Service), value : Values]
      /\ Broken.services = << >> /\ Broken.intact = FALSE
  BY BrokenFile
<1>3. ListedOnce(<< >>)
  BY DEF ListedOnce
<1> QED BY <1>1, <1>2, <1>3 DEF Save

LEMMA PageInitInv == SettingsInit => PageInv
<1> SUFFICES ASSUME SettingsInit PROVE PageInv
  OBVIOUS
<1> USE SettingsAssumption DEF SettingsInit
<1>1. << >> \in Seq(Service) /\ << >> \in Seq(Row)
  BY EmptySeq
<1>2. file = Content(services, value) /\ file.services = services /\ file.value = value
  BY DEF Absent, Content
<1>3. file \in [intact : BOOLEAN, services : Seq(Service), value : Values]
      /\ file.services = << >>
  BY <1>1, <1>2 DEF Content
<1>4. ListedOnce(<< >>)
  BY DEF ListedOnce
<1> QED BY <1>1, <1>2, <1>3, <1>4 DEF PageInv, PageTyped, RowsAgree, FileHasAll,
     SavedWhenClosed

LEMMA OpenDialogInv ==
  ASSUME PageInv, OpenDialog
  PROVE  PageInv'
<1>1. table' = [i \in 1..Len(services) |-> RowOf(services, i)]
  BY DEF OpenDialog
<1>2. services \in Seq(Service) /\ Len(services) \in Nat
  BY DEF PageInv, PageTyped
<1>3. \A i \in 1..Len(services) : RowOf(services, i) \in Row
                               /\ RowOf(services, i).name = services[i].name
  <2> TAKE i \in 1..Len(services)
  <2>1. services[i] \in Service /\ i \in Nat
    BY <1>2, ElementOfSeq
  <2>2. services[i].name \in Names
    BY <2>1 DEF Service
  <2> QED BY <2>1, <2>2 DEF RowOf, Row
<1>4. /\ table' \in Seq(Row) /\ Len(table') = Len(services)
      /\ \A i \in 1..Len(services) : table'[i].name = services[i].name
  BY <1>1, <1>2, <1>3, LenProperties
<1> QED BY <1>4 DEF OpenDialog, model, disk, monitor, PageInv, PageTyped, RowsAgree, FileHasAll,
     SavedWhenClosed

LEMMA SetValueInv ==
  ASSUME PageInv, NEW v \in Values, SetValue(v)
  PROVE  PageInv'
<1>1. /\ file' \in [intact : BOOLEAN, services : Seq(Service), value : Values]
      /\ saved' \in BOOLEAN /\ ListedOnce(file'.services) /\ escaped' \in BOOLEAN
      /\ saved' /\ file'.intact => file'.services = services /\ file'.value = v
  BY SaveKeepsFile DEF SetValue, PageInv, PageTyped
<1> QED BY <1>1 DEF SetValue, dialog, monitor, PageInv, PageTyped, RowsAgree, FileHasAll,
     SavedWhenClosed

LEMMA OnExitInv ==
  ASSUME PageInv, OnExit
  PROVE  PageInv'
<1>1. /\ file' \in [intact : BOOLEAN, services : Seq(Service), value : Values]
      /\ saved' \in BOOLEAN /\ ListedOnce(file'.services) /\ escaped' \in BOOLEAN
      /\ saved' /\ file'.intact => file'.services = services /\ file'.value = value'
  BY SaveKeepsFile DEF OnExit, SaveAll, PageInv, PageTyped
<1>2. << >> \in Seq(Row)
  BY EmptySeq
<1> QED BY <1>1, <1>2 DEF OnExit, monitor, PageInv, PageTyped, RowsAgree, FileHasAll,
     SavedWhenClosed

LEMMA RejectInv ==
  ASSUME PageInv, Reject
  PROVE  PageInv'
<1>1. << >> \in Seq(Row)
  BY EmptySeq
<1> QED BY <1>1 DEF Reject, model, monitor, PageInv, PageTyped, RowsAgree, FileHasAll,
     SavedWhenClosed

LEMMA LoadNewConfigInv ==
  ASSUME PageInv, NEW name \in Names, NEW token \in Tokens, LoadNewConfig(name, token)
  PROVE  PageInv'
<1> DEFINE kept == Without(services, IndexOf(name))
           rows == Without(table, IndexOf(name))
           new  == [name |-> name, token |-> token]
           last == [name |-> name, button |-> 0]
<1>1. /\ services \in Seq(Service) /\ ListedOnce(services) /\ value \in Values
      /\ table \in Seq(Row) /\ open /\ open' = open /\ value' = value /\ aligned \in BOOLEAN
      /\ services' = Replaced(name, token)
      /\ Save(services', value)
      /\ aligned' = (aligned /\ saved')
      /\ table' = IF saved' THEN Append(rows, last) ELSE rows
  BY DEF LoadNewConfig, PageInv, PageTyped, monitor
<1>2. services' \in Seq(Service) /\ ListedOnce(services')
  BY <1>1, ReplacedOnce
<1>3. /\ file' \in [intact : BOOLEAN, services : Seq(Service), value : Values]
      /\ saved' \in BOOLEAN /\ ListedOnce(file'.services) /\ escaped' \in BOOLEAN
      /\ saved' /\ file'.intact => file'.services = services' /\ file'.value = value'
  BY <1>1, <1>2, SaveKeepsFile DEF PageInv, PageTyped
<1>4. kept \in Seq(Service) /\ rows \in Seq(Row)
  BY <1>1, TakenOut DEF Without
<1>5. last \in Row /\ new \in Service /\ last.name = new.name
  BY DEF Row, Service
<1>6. services' = Append(kept, new)
  BY <1>1 DEF Replaced
<1>7. open /\ aligned => Len(rows) = Len(kept) /\ \A k \in 1..Len(rows) : rows[k].name = kept[k].name
  <2> SUFFICES ASSUME open /\ aligned
               PROVE  Len(rows) = Len(kept) /\ \A k \in 1..Len(rows) : rows[k].name = kept[k].name
    OBVIOUS
  <2>1. Len(table) = Len(services) /\ \A k \in 1..Len(table) : table[k].name = services[k].name
    BY DEF PageInv, RowsAgree
  <2> DEFINE i == IndexOf(name)
  <2>2. CASE i \in 1..Len(services)
    <3>1. rows = RemoveAt(table, i) /\ kept = RemoveAt(services, i)
      BY <2>1, <2>2 DEF Without
    <3> HIDE DEF i, rows, kept
    <3>2. /\ Len(rows) = Len(table) - 1
          /\ \A k \in 1..Len(table) - 1 : rows[k] = table[IF k < i THEN k ELSE k + 1]
      BY <1>1, <2>1, <2>2, <3>1, TakenOut
    <3>3. /\ Len(kept) = Len(services) - 1
          /\ \A k \in 1..Len(services) - 1 : kept[k] = services[IF k < i THEN k ELSE k + 1]
      BY <1>1, <2>2, <3>1, TakenOut
    <3>4. \A k \in 1..Len(services) - 1 : (IF k < i THEN k ELSE k + 1) \in 1..Len(services)
      BY <1>1, <2>2
    <3> QED BY <2>1, <3>2, <3>3, <3>4
  <2>3. CASE i \notin 1..Len(services)
    BY <2>1, <2>3 DEF Without
  <2> QED BY <2>2, <2>3
<1> HIDE DEF kept, rows, new, last
<1>8. /\ Append(rows, last) \in Seq(Row) /\ Len(Append(rows, last)) = Len(rows) + 1
      /\ \A k \in 1..Len(rows) : Append(rows, last)[k] = rows[k]
      /\ Append(rows, last)[Len(rows) + 1] = last
  BY <1>4, <1>5, AppendProperties
<1>9. /\ Len(services') = Len(kept) + 1
      /\ \A k \in 1..Len(kept) : services'[k] = kept[k]
      /\ services'[Len(kept) + 1] = new
  BY <1>4, <1>5, <1>6, AppendProperties
<1>10. table' \in Seq(Row)
  BY <1>1, <1>4, <1>8
<1>11. RowsAgree'
  <2> SUFFICES ASSUME open', aligned'
               PROVE  /\ Len(table') = Len(services')
                      /\ \A k \in 1..Len(table') : table'[k].name = services'[k].name
    BY DEF RowsAgree
  <2>1. saved' /\ aligned /\ table' = Append(rows, last)
    BY <1>1, <1>3
  <2>2. /\ Len(rows) = Len(kept) /\ Len(rows) \in Nat
        /\ \A k \in 1..Len(rows) : rows[k].name = kept[k].name
    BY <1>1, <1>4, <1>7, <2>1
  <2> QED BY <1>5, <1>8, <1>9, <2>1, <2>2
<1> QED BY <1>1, <1>2, <1>3, <1>10, <1>11 DEF PageInv, PageTyped, FileHasAll,
     SavedWhenClosed

LEMMA ClickDeleteInv ==
  ASSUME PageInv, NEW k \in 1..Len(table), ClickDelete(k)
  PROVE  PageInv'
<1> DEFINE row == table[k].button
<1>1. /\ services \in Seq(Service) /\ ListedOnce(services) /\ table \in Seq(Row) /\ open
      /\ UNCHANGED <<value, file, saved, escaped, open, aligned>>
      /\ IF row \in 1..Len(table)
           THEN table' = RemoveAt(table, row) /\ services' = Without(services, row)
           ELSE UNCHANGED <<table, services>>
  BY DEF ClickDelete, RemoveServer, disk, PageInv, PageTyped
<1> HIDE DEF row
<1>2. CASE row \notin 1..Len(table)
  BY <1>1, <1>2 DEF PageInv, PageTyped, RowsAgree, FileHasAll,
     SavedWhenClosed
<1>3. CASE row \in 1..Len(table)
  <2>1. /\ RemoveAt(table, row) \in Seq(Row) /\ Len(RemoveAt(table, row)) = Len(table) - 1
        /\ \A i \in 1..Len(table) - 1 :
             RemoveAt(table, row)[i] = table[IF i < row THEN i ELSE i + 1]
    BY <1>1, <1>3, TakenOut
  <2>2. /\ table' = RemoveAt(table, row) /\ table' \in Seq(Row)
    BY <1>1, <1>3, <2>1
  <2>3. CASE row \in 1..Len(services)
    <3>1. services' = RemoveAt(services, row)
      BY <1>1, <1>3, <2>3 DEF Without
    <3>2. /\ services' \in Seq(Service) /\ Len(services') = Len(services) - 1
          /\ \A i \in 1..Len(services) - 1 :
               services'[i] = services[IF i < row THEN i ELSE i + 1]
      BY <1>1, <2>3, <3>1, TakenOut
    <3>3. ListedOnce(services')
      BY <1>1, <2>3, <3>1, OthersListedOnce
    <3>4. RowsAgree'
      <4> SUFFICES ASSUME aligned
                   PROVE  /\ Len(table') = Len(services')
                          /\ \A i \in 1..Len(table') : table'[i].name = services'[i].name
        BY <1>1 DEF RowsAgree
      <4>1. Len(table) = Len(services)
            /\ \A i \in 1..Len(table) : table[i].name = services[i].name
        BY <1>1 DEF PageInv, RowsAgree
      <4>2. \A i \in 1..Len(table) - 1 : (IF i < row THEN i ELSE i + 1) \in 1..Len(table)
        BY <1>1, <1>3
      <4> QED BY <2>1, <2>2, <3>2, <4>1, <4>2
    <3>5. ToSet(services') \subseteq ToSet(services)
      <4> SUFFICES ASSUME NEW x \in ToSet(services') PROVE x \in ToSet(services)
        OBVIOUS
      <4>1. PICK i \in DOMAIN services' : x = services'[i]
        BY DEF ToSet
      <4>2. i \in 1..Len(services) - 1
        BY <3>2, <4>1, LenProperties
      <4>3. (IF i < row THEN i ELSE i + 1) \in DOMAIN services
        BY <1>1, <2>3, <4>2, LenProperties
      <4> QED BY <3>2, <4>1, <4>2, <4>3 DEF ToSet
    <3> QED BY <1>1, <2>2, <3>2, <3>3, <3>4, <3>5 DEF PageInv, PageTyped, FileHasAll,
     SavedWhenClosed
  <2>4. CASE row \notin 1..Len(services)
    <3>1. services' = services
      BY <1>1, <1>3, <2>4 DEF Without
    <3>2. ~aligned
      BY <1>1, <1>3, <2>4 DEF PageInv, RowsAgree, PageTyped
    <3> QED BY <1>1, <2>2, <3>1, <3>2 DEF PageInv, PageTyped, RowsAgree, FileHasAll,
     SavedWhenClosed
  <2> QED BY <2>3, <2>4
<1> QED BY <1>2, <1>3

LEMMA RestartInv ==
  ASSUME PageInv, Restart
  PROVE  PageInv'
<1> USE SettingsAssumption
<1>1. << >> \in Seq(Service) /\ << >> \in Seq(Row) /\ ListedOnce(<< >>)
  BY EmptySeq DEF ListedOnce
<1>2. /\ Broken \in [intact : BOOLEAN, services : Seq(Service), value : Values]
      /\ Broken.services = << >>
  BY BrokenFile
<1>3. /\ file' \in [intact : BOOLEAN, services : Seq(Service), value : Values]
      /\ ListedOnce(file'.services)
  BY <1>1, <1>2 DEF Restart, PageInv, PageTyped
<1>4. services' = file'.services /\ value' = file'.value /\ saved' = file'.intact
      /\ open' = FALSE /\ table' = << >> /\ aligned' = TRUE /\ escaped' = FALSE
  BY DEF Restart, Load
<1> QED BY <1>1, <1>3, <1>4 DEF PageInv, PageTyped, RowsAgree, FileHasAll,
     SavedWhenClosed

LEMMA PageStep ==
  ASSUME PageInv, SettingsNext \/ UNCHANGED vars
  PROVE  PageInv'
<1>1. CASE StartPingMonitoring \/ StopPingMonitoring \/ PingTick \/ (\E n \in Names : PingDone(n))
           \/ UNCHANGED vars
  <2>1. UNCHANGED <<services, value, file, saved, escaped, open, table, aligned>>
    BY <1>1 DEF StartPingMonitoring, StopPingMonitoring, PingTick, PingDone, model, disk,
       dialog, vars
  <2> QED BY <2>1 DEF PageInv, PageTyped, RowsAgree, FileHasAll,
     SavedWhenClosed
<1> QED BY <1>1, OpenDialogInv, OnExitInv, RejectInv, SetValueInv, LoadNewConfigInv, ClickDeleteInv,
        RestartInv
        DEF SettingsNext
-----------------------------------------------------------------------------
(* The pings *)

LEMMA PingInitInv == SettingsInit => PingInv
<1> SUFFICES ASSUME SettingsInit PROVE PingInv
  OBVIOUS
<1> USE SettingsAssumption DEF SettingsInit
<1>1. Pinged = {}
  BY DEF Pinged
<1>2. IsFiniteSet(Pinged) /\ Cardinality(Pinged) = 0
  BY <1>1, FS_EmptySet
<1>3. pings \in [Names -> Nat] /\ \A n \in Names : pings[n] = 0
  OBVIOUS
<1> QED BY <1>2, <1>3 DEF PingInv, PendingCountsPings, Pinged

\* The servers of a batch are finitely many.
LEMMA ListedFinite ==
  ASSUME NEW s \in Seq(Service)
  PROVE  IsFiniteSet({s[i].name : i \in 1..Len(s)})
<1> DEFINE T == {s[i].name : i \in 1..Len(s)}
           f == [i \in 1..Len(s) |-> s[i].name]
<1>1. IsFiniteSet(1..Len(s))
  BY FS_Interval
<1>2. f \in Surjection(1..Len(s), T)
  BY DEF Surjection
<1> HIDE DEF f, T
<1>3. IsFiniteSet(T)
  BY <1>1, <1>2, FS_Surjection
<1> QED BY <1>3 DEF T

LEMMA PingTickInv ==
  ASSUME PageInv, PingInv, PingTick
  PROVE  PingInv'
<1> DEFINE Batch == {services[i].name : i \in 1..Len(services)}
<1>1. Pinged = {}
  <2>1. IsFiniteSet(Pinged) /\ Cardinality(Pinged) = 0
    BY DEF PingTick, SlotPings, PingInv, PendingCountsPings, Pinged
  <2> QED BY <2>1, FS_EmptySet
<1>2. \A n \in Names : pings[n] = 0
  <2> SUFFICES ASSUME NEW n \in Names PROVE pings[n] = 0
    OBVIOUS
  <2>1. pings[n] \in Nat /\ pings[n] <= 1 /\ pings[n] # 1
    BY <1>1 DEF Pinged, PingInv, PendingCountsPings
  <2> QED BY <2>1
<1>3. services \in Seq(Service)
  BY DEF PageInv, PageTyped
<1>4. IsFiniteSet(Batch) /\ Batch \subseteq Names
  <2>1. IsFiniteSet(Batch)
    BY <1>3, ListedFinite
  <2>2. ASSUME NEW i \in 1..Len(services) PROVE services[i].name \in Names
    <3>1. services[i] \in Service
      BY <1>3, ElementOfSeq
    <3> QED BY <3>1 DEF Service
  <2> QED BY <2>1, <2>2
<1>5. /\ pings' \in [Names -> Nat]
      /\ \A n \in Names : pings'[n] = IF n \in Batch THEN 1 ELSE 0
  <2>1. pings' = [n \in Names |-> pings[n] + IF n \in Batch THEN 1 ELSE 0]
    BY DEF PingTick
  <2> HIDE DEF Batch
  <2> QED BY <1>2, <2>1
<1>6. pending' = Cardinality(Batch) /\ handlers' = handlers
  BY DEF PingTick
<1> HIDE DEF Batch
<1>7. Pinged' = Batch
  BY <1>4, <1>5 DEF Pinged
<1>8. \A n \in Names : pings'[n] <= 1
  BY <1>5
<1> QED BY <1>4, <1>5, <1>6, <1>7, <1>8 DEF PingInv, PendingCountsPings, Pinged

LEMMA PingDoneInv ==
  ASSUME PingInv, NEW n \in Names, PingDone(n)
  PROVE  PingInv'
<1>1. pings[n] = 1 /\ pings \in [Names -> Nat] /\ pending = Cardinality(Pinged)
  BY DEF PingDone, PingInv, PendingCountsPings, Pinged
<1>2. /\ pings' \in [Names -> Nat] /\ pings'[n] = 0
      /\ \A m \in Names : m # n => pings'[m] = pings[m]
  BY <1>1 DEF PingDone
<1>3. n \in Pinged /\ Pinged' = Pinged \ {n}
  BY <1>1, <1>2 DEF Pinged
<1>4. IsFiniteSet(Pinged \ {n}) /\ Cardinality(Pinged \ {n}) = Cardinality(Pinged) - 1
  BY <1>3, FS_RemoveElement DEF PingInv
<1>5. pending' = Cardinality(Pinged') /\ IsFiniteSet(Pinged')
  BY <1>1, <1>3, <1>4 DEF PingDone
<1>6. \A m \in Names : pings'[m] <= 1
  BY <1>2 DEF PingInv, PendingCountsPings
<1> QED BY <1>2, <1>5, <1>6 DEF PingDone, PingInv, PendingCountsPings, Pinged

LEMMA PingStep ==
  ASSUME PageInv, PingInv, SettingsNext \/ UNCHANGED monitor
  PROVE  PingInv'
<1> USE SettingsAssumption
<1>1. CASE UNCHANGED <<handlers, pending, pings>>
  BY <1>1 DEF PingInv, PendingCountsPings, Pinged
<1>2. CASE StartPingMonitoring
  <2>1. UNCHANGED <<pending, pings>> /\ handlers' \in 0..MaxHandlers
    BY <1>2 DEF StartPingMonitoring, PingInv
  <2> QED BY <2>1 DEF PingInv, PendingCountsPings, Pinged
<1>3. CASE Restart
  <2>1. /\ handlers' = 1 /\ pending' = 0
        /\ pings' \in [Names -> Nat] /\ \A n \in Names : pings'[n] = 0
    BY <1>3 DEF Restart
  <2>2. Pinged' = {}
    BY <2>1 DEF Pinged
  <2>3. IsFiniteSet(Pinged') /\ Cardinality(Pinged') = 0
    BY <2>2, FS_EmptySet
  <2> QED BY <2>1, <2>3 DEF PingInv, PendingCountsPings, Pinged
<1>4. CASE OpenDialog \/ OnExit \/ Reject \/ (\E v \in Values : SetValue(v))
           \/ (\E n \in Names, t \in Tokens : LoadNewConfig(n, t))
           \/ (\E i \in 1..Len(table) : ClickDelete(i)) \/ StopPingMonitoring
           \/ UNCHANGED monitor
  BY <1>1, <1>4 DEF OpenDialog, OnExit, Reject, SetValue, LoadNewConfig, ClickDelete,
     StopPingMonitoring, monitor
<1> QED BY <1>2, <1>3, <1>4, PingTickInv, PingDoneInv DEF SettingsNext
-----------------------------------------------------------------------------
(* The window *)

LEMMA WindowInitInv == WindowInit => WindowInv
BY PageInitInv, PingInitInv, ScanInitInv DEF WindowInit, WindowInv

LEMMA AdoptNameInv ==
  ASSUME PageInv, AdoptName, UNCHANGED <<services, dialog, monitor>>
  PROVE  PageInv'
<1>1. UNCHANGED <<services, open, table, aligned>>
  BY DEF dialog
<1>2. CASE UNCHANGED <<value, disk>>
  BY <1>1, <1>2 DEF disk, PageInv, PageTyped, RowsAgree, FileHasAll,
     SavedWhenClosed
<1>3. CASE value' \in Values /\ Save(services, value')
  <2>1. /\ file' \in [intact : BOOLEAN, services : Seq(Service), value : Values]
        /\ saved' \in BOOLEAN /\ ListedOnce(file'.services) /\ escaped' \in BOOLEAN
        /\ saved' /\ file'.intact => file'.services = services /\ file'.value = value'
    BY <1>3, SaveKeepsFile DEF PageInv, PageTyped
  <2> QED BY <1>1, <1>3, <2>1 DEF PageInv, PageTyped, RowsAgree, FileHasAll,
     SavedWhenClosed
<1> QED BY <1>2, <1>3 DEF AdoptName

LEMMA WindowStep ==
  ASSUME WindowInv, [WindowNext]_windowVars
  PROVE  WindowInv' /\ [VerdictIsSound]_windowVars
<1> USE DEF WindowInv
<1>1. CASE SettingsNext /\ UNCHANGED <<scanVars, requests>>
  <2>1. PageInv' /\ PingInv'
    BY <1>1, PageStep, PingStep
  <2>2. ScanInv'
    BY <1>1, ScanUnmoved DEF requests, ScanInv, ScanTyped
  <2>3. VerdictIsSound
    BY <1>1 DEF VerdictIsSound, scanVars, dialogVars
  <2> QED BY <2>1, <2>2, <2>3
<1>2. CASE Dialog
  <2>1. ScanInv' /\ VerdictIsSound
    BY <1>2, DialogStep DEF Dialog
  <2>2. PageInv'
    <3>1. CASE AdoptName
      BY <1>2, <3>1, AdoptNameInv DEF Dialog
    <3>2. CASE UNCHANGED <<value, disk>>
      BY <1>2, <3>2 DEF Dialog, disk, dialog, PageInv, PageTyped, RowsAgree, FileHasAll,
     SavedWhenClosed
    <3> QED BY <1>2, <3>1, <3>2 DEF Dialog
  <2>3. PingInv'
    BY <1>2, PingStep DEF Dialog
  <2> QED BY <2>1, <2>2, <2>3
<1>3. CASE UNCHANGED windowVars
  <2>1. UNCHANGED vars /\ UNCHANGED monitor /\ UNCHANGED <<scanVars, requests>>
    BY <1>3 DEF windowVars, vars, monitor, allVars
  <2>2. PageInv' /\ PingInv'
    BY <2>1, PageStep, PingStep
  <2>3. ScanInv'
    BY <2>1, ScanUnmoved DEF requests, ScanInv, ScanTyped
  <2> QED BY <1>3, <2>2, <2>3
<1> QED BY <1>1, <1>2, <1>3 DEF WindowNext

\* In every state of the settings window, whatever the page, the pings and the
\* workers of a scan do and wherever the process ends, the page and the file
\* agree with the model, the pings with their counter and the workers with the
\* context of their scan.
THEOREM WindowInvariant == WindowSpec => []WindowInv
<1>1. WindowInit => WindowInv
  BY WindowInitInv
<1>2. WindowInv /\ [WindowNext]_windowVars => WindowInv'
  BY WindowStep
<1> QED BY <1>1, <1>2, PTL DEF WindowSpec

LEMMA InvShowsLists == WindowInv => ListsAgree
<1> SUFFICES ASSUME WindowInv PROVE ListsAgree
  OBVIOUS
<1> USE ScanAssumption DEF WindowInv
<1>1. SettingsTypeOK
  <2>1. \A i \in 1..Len(table) : table[i] \in Row
    BY ElementOfSeq DEF PageInv, PageTyped
  <2>2. pending \in Int
    BY FS_CardinalityType DEF PingInv, PendingCountsPings, Pinged
  <2> QED BY <2>1, <2>2 DEF PageInv, PageTyped, PingInv, SettingsTypeOK, Row
<1>2. TableIsServices
  BY <1>1 DEF PageInv, RowsAgree, ListedOnce, TableIsServices
<1>3. ScanTypeOK
  <2>1. \A s \in Scans : context[s] \in ScanContext
    BY DEF ScanInv, ScanTyped
  <2>2. \A s \in Scans :
          /\ context[s].next \in 1..Unread /\ context[s].found \in 0..NameCount
          /\ context[s].tested \in 0..NameCount /\ context[s].active \in 0..PerScan
    BY <2>1 DEF ScanContext
  <2>3. DOMAIN pc = Workers
    BY DEF ScanInv, ScanTyped
  <2> QED BY <2>2, <2>3 DEF ScanInv, ScanTyped, ScanTypeOK
<1>4. TriedOnce
  BY DEF ScanInv, CountsAgree, Hands, InHand, TriedOnce
<1> QED BY <1>2, <1>3, <1>4 DEF ListsAgree

\* The rows of the page are the services, listed once, and the names a scan has
\* taken are those it has counted or has in hand (settings.cpp:915-951,
\* sni_autoscan_dialog.cpp:297-302, 338).
THEOREM PageShowsModel == WindowSpec => []ListsAgree
BY WindowInvariant, InvShowsLists, PTL

\* A settings file that can be read and whose last save was reported to have
\* succeeded has every setting and service in use, and after a close by the
\* page's button or the window's nothing else; Esc leaves the services removed by
\* their buttons in it (settings.cpp:1009, 1116, settingsmodel.cpp:503, 584).
THEOREM ClosedIsSaved == WindowSpec => []SavedWhenClosed
<1>1. WindowInv => SavedWhenClosed
  BY DEF WindowInv, PageInv
<1> QED BY <1>1, WindowInvariant, PTL

\* The counter of pings is the number of pings that have not returned, and a
\* server is never pinged twice at once (settingsmodel.cpp:826).
THEOREM PingsAreCounted == WindowSpec => []PendingCountsPings
<1>1. WindowInv => PendingCountsPings
  BY DEF WindowInv, PingInv
<1> QED BY <1>1, WindowInvariant, PTL

\* The dialog says that no name works only after a scan that tried every name,
\* or that found one between the two looks (sni_autoscan_dialog.cpp:186-192).
THEOREM VerdictsSound == WindowSpec => VerdictsAreSound
<1>1. WindowInv /\ [WindowNext]_windowVars => [VerdictIsSound]_windowVars
  BY WindowStep
<1> QED BY <1>1, WindowInvariant, PTL DEF WindowSpec, VerdictsAreSound
=============================================================================
