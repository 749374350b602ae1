------------------------ MODULE ServerSessionsProofs ------------------------
(***************************************************************************)
(* Theorems about the VPN server's NAT table and about its sessions, for   *)
(* any number of clients, sessions, users, addresses and threads.          *)
(*                                                                         *)
(* The table keeps NatInv; its safety invariants follow.  It implements    *)
(* AddressLease: its initial state maps to the initial lease state, and    *)
(* each of its steps to an Acquire, a Join, a Leave or a stutter.          *)
(*                                                                         *)
(* The sessions: whatever order clients connect, expire and fail in and    *)
(* whenever Stop comes, the server drives its table as NatTable says, no   *)
(* entry outlives its session, and no session stays open once Stop has     *)
(* swept them.                                                             *)
(***************************************************************************)
EXTENDS ServerSessions, TLAPS

-----------------------------------------------------------------------------
(* The NAT table *)

\* The requests have the fields the table reads.
LEMMA RequestFields ==
  ASSUME NEW r \in Requests
  PROVE  /\ r \in Request
         /\ r.session_id \in Sessions /\ r.username \in Users
         /\ r.sends \in BOOLEAN /\ r.expires \in BOOLEAN
         /\ r # None
BY NatAssumption DEF Request

\* A registered multiplexer is registered under its own session id only.
LEMMA RegisteredIff ==
  ASSUME TypeOK, MapsAgree, NEW m \in Clients
  PROVE  Registered(m) <=> request[m] # None /\ session_to_mplx[SessionId(m)] = m
<1>1. ASSUME Registered(m) PROVE request[m] # None /\ session_to_mplx[SessionId(m)] = m
  BY <1>1, NatAssumption DEF Registered, MapsAgree
<1>2. ASSUME request[m] # None, session_to_mplx[SessionId(m)] = m PROVE Registered(m)
  <2>1. request[m] \in Requests
    BY <1>2 DEF TypeOK
  <2> QED BY <1>2, <2>1, RequestFields DEF Registered, SessionId
<1> QED BY <1>1, <1>2

\* The initial state satisfies the invariant.
LEMMA InitInv == NatInit => NatInv
<1> SUFFICES ASSUME NatInit PROVE NatInv
  OBVIOUS
<1> USE DEF NatInit
<1>1. TypeOK
  BY DEF TypeOK
<1>2. AddressesConserved
  BY DEF AddressesConserved
<1>3. \A m \in Clients : ~Registered(m) /\ Connections(m) = {}
  BY NatAssumption DEF Registered, Connections
<1>4. MapsAgree
  BY DEF MapsAgree
<1>5. ClientsPlaced /\ BucketsReachable /\ OneUserPerSession /\ EmptySessionsPending
  BY <1>3 DEF ClientsPlaced, BucketsReachable, OneUserPerSession, EmptySessionsPending
<1>6. ExpiredUnplaced
  BY DEF ExpiredUnplaced
<1> QED BY <1>1, <1>2, <1>4, <1>5, <1>6 DEF NatInv

\* A connection accepted into m lands in at least one of m's buckets, and in
\* no other bucket; nothing leaves a bucket.
LEMMA AcceptPlaces ==
  ASSUME TypeOK, NEW c \in Clients, NEW r \in Requests, NEW m \in Clients,
         AcceptAndPlace(c, r, m)
  PROVE  /\ sending' \in [Clients -> SUBSET Clients]
         /\ receiving' \in [Clients -> SUBSET Clients]
         /\ sendPast' \subseteq Clients
         /\ sending'[m] \cup receiving'[m] = Connections(m) \cup {c}
         /\ \A n \in Clients \ {m} :
              sending'[n] = sending[n] /\ receiving'[n] = receiving[n]
<1> DEFINE first == IF r.sends THEN sendPast ELSE sendPast \cup {c}
<1>1. PICK second \in {first, sendPast \cup {c}} :
        PlaceByRole(c, r, m, first, second) /\ sendPast' = second
  BY DEF AcceptAndPlace
<1>2. first \subseteq second /\ second \subseteq Clients
  BY DEF TypeOK
<1>3. IsSending(r, c, first) \/ IsReceiving(r, c, second)
  BY <1>2 DEF IsSending, IsReceiving
<1> HIDE DEF first
<1>4. /\ sending' \in [Clients -> SUBSET Clients]
      /\ receiving' \in [Clients -> SUBSET Clients]
  BY <1>1 DEF PlaceByRole, TypeOK
<1>5. sending'[m] \cup receiving'[m] = Connections(m) \cup {c}
  BY <1>1, <1>3 DEF PlaceByRole, Connections, TypeOK
<1>6. \A n \in Clients \ {m} :
        sending'[n] = sending[n] /\ receiving'[n] = receiving[n]
  BY <1>1 DEF PlaceByRole, Connections, TypeOK
<1> QED BY <1>1, <1>2, <1>4, <1>5, <1>6

\* Joining a session keeps the invariant.
LEMMA AddToSessionInv ==
  ASSUME NatInv, NEW c \in Clients, NEW r \in Requests,
         Unlocked, Fresh(c), AddToSession(c, r)
  PROVE  NatInv'
<1> DEFINE m == session_to_mplx[r.session_id]
<1> USE DEF NatInv
<1>1. /\ r.session_id \in Sessions /\ r # None
  BY RequestFields
<1>2. /\ m \in Clients /\ Registered(m) /\ request[m] # None
      /\ SessionId(m) = r.session_id /\ UserName(m) = r.username
  BY <1>1 DEF AddToSession, MayJoin, TypeOK, MapsAgree, Registered
<1>3. c # m
  BY <1>2 DEF Fresh
<1>4. client_to_mplx[c] = None /\ (\A n \in Clients : c \notin Connections(n))
  BY DEF Fresh, ExpiredUnplaced, OneUserPerSession, TypeOK
<1>5. client_to_mplx' = [client_to_mplx EXCEPT ![c] = m]
  BY <1>4 DEF AddToSession, Insert
<1>6. request' = [request EXCEPT ![c] = r]
  BY DEF AddToSession
<1>7. /\ sending'[m] \cup receiving'[m] = Connections(m) \cup {c}
      /\ \A n \in Clients \ {m} :
           sending'[n] = sending[n] /\ receiving'[n] = receiving[n]
      /\ sending' \in [Clients -> SUBSET Clients]
      /\ receiving' \in [Clients -> SUBSET Clients]
      /\ sendPast' \subseteq Clients
  BY <1>2, AcceptPlaces DEF AddToSession
<1>8. UNCHANGED <<session_to_mplx, ipv4_to_mplx, ipv6_to_mplx, ttlPast,
                  free_ipv4, free_ipv6, fake_ipv4, fake_ipv6,
                  update, expired, emptied>>
  BY DEF AddToSession, pool, fakes, updater
<1> HIDE DEF m
<1>9. \A n \in Clients : Registered(n)' <=> Registered(n)
  BY <1>8 DEF Registered
<1>10. TypeOK'
  BY <1>2, <1>5, <1>6, <1>7, <1>8 DEF TypeOK
<1>11. AddressesConserved'
  BY <1>8 DEF AddressesConserved
<1>12. MapsAgree'
  BY <1>1, <1>6, <1>8, <1>9 DEF MapsAgree, SessionId, Fresh, TypeOK
<1>13. ClientsPlaced'
  BY <1>2, <1>5, <1>7, <1>8, <1>9 DEF ClientsPlaced, Connections, TypeOK
<1>14. BucketsReachable'
  BY <1>2, <1>4, <1>5, <1>7, <1>9 DEF BucketsReachable, Connections, TypeOK
<1>15. OneUserPerSession'
  BY <1>1, <1>2, <1>3, <1>4, <1>6, <1>7 DEF OneUserPerSession, SessionId, UserName, Connections,
       TypeOK, Fresh
<1>16. EmptySessionsPending'
  <2>1. \A n \in Clients : sending'[n] \cup receiving'[n] = {} => Connections(n) = {}
    BY <1>7 DEF Connections
  <2> QED BY <1>8, <1>9, <2>1 DEF EmptySessionsPending, Empty, Connections
<1>17. ExpiredUnplaced'
  <2>1. c \notin expired
    BY DEF Fresh, ExpiredUnplaced
  <2>3. \A x \in expired : \A n \in Clients : x \notin sending'[n] \cup receiving'[n]
    BY <1>7, <2>1 DEF ExpiredUnplaced, Placed, Connections, TypeOK
  <2>4. \A x \in Clients : request[x] # None => request'[x] # None
    BY <1>1, <1>6 DEF TypeOK
  <2>5. \A x \in Clients : client_to_mplx'[x] # None =>
          request'[x] # None /\ request'[client_to_mplx'[x]] # None
    BY <1>1, <1>2, <1>5, <1>6, <2>4 DEF ExpiredUnplaced, TypeOK
  <2> QED BY <1>8, <2>3, <2>4, <2>5 DEF ExpiredUnplaced, Placed, Connections, TypeOK
<1> QED BY <1>10, <1>11, <1>12, <1>13, <1>14, <1>15, <1>16, <1>17
\* Opening a session with an address pair from the free lists keeps the
\* invariant.
LEMMA AddNewSessionInv ==
  ASSUME NatInv, NEW c \in Clients, NEW r \in Requests, NEW a \in Ipv4, NEW b \in Ipv6,
         Unlocked, Fresh(c), AddNewSession(c, r, a, b)
  PROVE  NatInv'
<1> USE DEF NatInv
<1> DEFINE s == r.session_id
<1>1. s \in Sessions /\ r # None /\ c # None
  BY RequestFields, NatAssumption
<1>2. /\ client_to_mplx[c] = None
      /\ ~Registered(c)
      /\ c \notin expired /\ c \notin emptied
      /\ Connections(c) = {}
      /\ \A n \in Clients : c \notin Connections(n)
  <2>1. ~Registered(c)
    BY NatAssumption DEF Fresh, MapsAgree, Registered
  <2> QED BY <2>1 DEF Fresh, ExpiredUnplaced, OneUserPerSession, Connections, TypeOK
<1>3. ipv4_to_mplx[a] = None /\ ipv6_to_mplx[b] = None
  BY DEF AddNewSession, PopAddresses, AddressesConserved
<1>4. /\ session_to_mplx[s] = None
      /\ session_to_mplx' = [session_to_mplx EXCEPT ![s] = c]
      /\ client_to_mplx' = [client_to_mplx EXCEPT ![c] = c]
      /\ ipv4_to_mplx' = [ipv4_to_mplx EXCEPT ![a] = c]
      /\ ipv6_to_mplx' = [ipv6_to_mplx EXCEPT ![b] = c]
  BY <1>2, <1>3 DEF AddNewSession, Insert
<1>5. /\ free_ipv4' = [free_ipv4 EXCEPT ![a] = @ - 1]
      /\ free_ipv6' = [free_ipv6 EXCEPT ![b] = @ - 1]
      /\ free_ipv4[a] > 0 /\ free_ipv6[b] > 0
      /\ fake_ipv4' = [fake_ipv4 EXCEPT ![c] = a]
      /\ fake_ipv6' = [fake_ipv6 EXCEPT ![c] = b]
      /\ request' = [request EXCEPT ![c] = r]
  BY DEF AddNewSession, PopAddresses
<1>6. UNCHANGED <<ttlPast, update, expired, emptied>>
  BY DEF AddNewSession, updater
<1>7. /\ sending'[c] \cup receiving'[c] = {c}
      /\ \A n \in Clients \ {c} :
           sending'[n] = sending[n] /\ receiving'[n] = receiving[n]
      /\ sending' \in [Clients -> SUBSET Clients]
      /\ receiving' \in [Clients -> SUBSET Clients]
      /\ sendPast' \subseteq Clients
  <2>1. AcceptAndPlace(c, r, c)
    BY DEF AddNewSession
  <2> QED BY <1>2, <2>1, AcceptPlaces
<1> HIDE DEF s
<1>8. \A n \in Clients : (\E t \in Sessions : session_to_mplx'[t] = n)
                           <=> (Registered(n) \/ n = c)
  BY <1>1, <1>4, NatAssumption DEF Registered, TypeOK
<1>9. TypeOK'
  <2>1. free_ipv4' \in [Ipv4 -> Nat] /\ free_ipv6' \in [Ipv6 -> Nat]
    BY <1>5 DEF TypeOK
  <2> QED BY <1>1, <1>4, <1>5, <1>6, <1>7, <2>1 DEF TypeOK
<1>10. AddressesConserved'
  <2>1. free_ipv4[a] = 1 /\ free_ipv6[b] = 1
    BY <1>3 DEF AddressesConserved
  <2> QED BY <1>1, <1>4, <1>5, <2>1 DEF AddressesConserved, TypeOK
<1>11. MapsAgree'
  <2>1. ASSUME NEW t \in Sessions, session_to_mplx'[t] # None, t # s
        PROVE  /\ session_to_mplx'[t] = session_to_mplx[t]
               /\ session_to_mplx[t] \in Clients /\ session_to_mplx[t] # c
    BY <1>2, <1>4, <2>1 DEF TypeOK, Registered
  <2>2. \A t \in Sessions :
          LET m == session_to_mplx'[t]
          IN  m # None => /\ request'[m] # None /\ request'[m].session_id = t
                          /\ fake_ipv4'[m] # None /\ ipv4_to_mplx'[fake_ipv4'[m]] = m
                          /\ fake_ipv6'[m] # None /\ ipv6_to_mplx'[fake_ipv6'[m]] = m
    <3> SUFFICES ASSUME NEW t \in Sessions, session_to_mplx'[t] # None
                 PROVE  LET m == session_to_mplx'[t]
                        IN /\ request'[m] # None /\ request'[m].session_id = t
                           /\ fake_ipv4'[m] # None /\ ipv4_to_mplx'[fake_ipv4'[m]] = m
                           /\ fake_ipv6'[m] # None /\ ipv6_to_mplx'[fake_ipv6'[m]] = m
      OBVIOUS
    <3>1. CASE t = s
      BY <1>1, <1>4, <1>5, <3>1, NatAssumption DEF TypeOK, s
    <3>2. CASE t # s
      BY <1>3, <1>4, <1>5, <2>1, <3>2 DEF TypeOK, MapsAgree, SessionId
    <3> QED BY <3>1, <3>2
  <2>3. \A x \in Ipv4 : ipv4_to_mplx'[x] # None
           => (\E t \in Sessions : session_to_mplx'[t] = ipv4_to_mplx'[x])
                /\ fake_ipv4'[ipv4_to_mplx'[x]] = x
    BY <1>1, <1>2, <1>4, <1>5, <1>8 DEF TypeOK, MapsAgree
  <2>4. \A x \in Ipv6 : ipv6_to_mplx'[x] # None
           => (\E t \in Sessions : session_to_mplx'[t] = ipv6_to_mplx'[x])
                /\ fake_ipv6'[ipv6_to_mplx'[x]] = x
    BY <1>1, <1>2, <1>4, <1>5, <1>8 DEF TypeOK, MapsAgree
  <2> QED BY <2>2, <2>3, <2>4 DEF MapsAgree, Registered, SessionId
<1>12. ClientsPlaced'
  BY <1>1, <1>2, <1>4, <1>6, <1>7, <1>8, NatAssumption
     DEF ClientsPlaced, Connections, Registered, TypeOK
<1>13. BucketsReachable'
  BY <1>2, <1>4, <1>7, <1>8 DEF BucketsReachable, Connections, Registered, TypeOK
<1>14. OneUserPerSession'
  BY <1>1, <1>2, <1>5, <1>7
     DEF OneUserPerSession, SessionId, UserName, Connections, TypeOK, Fresh
<1>15. EmptySessionsPending'
  BY <1>6, <1>7, <1>8 DEF EmptySessionsPending, Empty, Connections, Registered
<1>16. ExpiredUnplaced'
  <2>1. \A x \in expired : \A n \in Clients : x \notin sending'[n] \cup receiving'[n]
    BY <1>2, <1>7 DEF ExpiredUnplaced, Placed, Connections, TypeOK
  <2>2. \A x \in Clients : request[x] # None => request'[x] # None
    BY <1>1, <1>5 DEF TypeOK
  <2>3. \A x \in Clients : client_to_mplx'[x] # None =>
          request'[x] # None /\ request'[client_to_mplx'[x]] # None
    BY <1>1, <1>4, <1>5, <2>2 DEF ExpiredUnplaced, TypeOK
  <2> QED BY <1>6, <2>1, <2>2, <2>3 DEF ExpiredUnplaced, Placed, Connections, TypeOK
<1> QED BY <1>9, <1>10, <1>11, <1>12, <1>13, <1>14, <1>15, <1>16

\* A refused connection only uses up its client id.
LEMMA RefuseConnectionInv ==
  ASSUME NatInv, NEW c \in Clients, NEW r \in Requests,
         Fresh(c), RefuseConnection(c, r)
  PROVE  NatInv'
<1> USE DEF NatInv
<1>1. /\ request' = [request EXCEPT ![c] = r]
      /\ UNCHANGED <<session_to_mplx, client_to_mplx, ipv4_to_mplx, ipv6_to_mplx,
                     free_ipv4, free_ipv6, fake_ipv4, fake_ipv6, sending, receiving,
                     sendPast, ttlPast, update, expired, emptied>>
  BY DEF RefuseConnection, maps, pool, fakes, buckets, clock, updater
<1>2. r # None
  BY RequestFields
<1>3. \A n \in Clients : request[n] # None => request'[n] = request[n]
  BY <1>1 DEF Fresh, TypeOK
<1>4. TypeOK'
  BY <1>1 DEF TypeOK
<1>5. AddressesConserved'
  BY <1>1 DEF AddressesConserved
<1>6. MapsAgree'
  BY <1>1, <1>3 DEF MapsAgree, SessionId, Registered, TypeOK
<1>7. ClientsPlaced' /\ BucketsReachable' /\ EmptySessionsPending'
  BY <1>1 DEF ClientsPlaced, BucketsReachable, EmptySessionsPending,
              Empty, Connections, Registered
<1>8. OneUserPerSession'
  BY <1>1, <1>3 DEF OneUserPerSession, SessionId, UserName, Connections, TypeOK
<1>9. ExpiredUnplaced'
  BY <1>1, <1>3 DEF ExpiredUnplaced, Placed, Connections, TypeOK
<1> QED BY <1>4, <1>5, <1>6, <1>7, <1>8, <1>9
\* Releasing a multiplexer gives back the pair it leases and removes it, and
\* it alone, from the maps; a multiplexer that is not registered any more
\* (its session id may name another one) is left alone.
LEMMA ReleaseKeeps ==
  ASSUME TypeOK, AddressesConserved, MapsAgree,
         NEW m \in Clients, request[m] # None, NEW empty \in BOOLEAN,
         ReleaseSessionIfEmpty(m, empty),
         UNCHANGED <<request, fake_ipv4, fake_ipv6>>
  PROVE  /\ session_to_mplx' \in [Sessions -> Clients \cup {None}]
         /\ ipv4_to_mplx' \in [Ipv4 -> Clients \cup {None}]
         /\ ipv6_to_mplx' \in [Ipv6 -> Clients \cup {None}]
         /\ free_ipv4' \in [Ipv4 -> Nat] /\ free_ipv6' \in [Ipv6 -> Nat]
         /\ AddressesConserved'
         /\ MapsAgree'
         /\ \A n \in Clients : (\E t \in Sessions : session_to_mplx'[t] = n)
                                 <=> (Registered(n) /\ ~(empty /\ n = m))
<1> DEFINE s == SessionId(m)
<1>1. s \in Sessions
  BY RequestFields DEF TypeOK, SessionId
<1>2. CASE empty /\ session_to_mplx[s] = m
  <2> DEFINE a == fake_ipv4[m]
             b == fake_ipv6[m]
  <2>1. /\ a \in Ipv4 /\ b \in Ipv6
        /\ ipv4_to_mplx[a] = m /\ ipv6_to_mplx[b] = m
        /\ free_ipv4[a] = 0 /\ free_ipv6[b] = 0
    BY <1>1, <1>2, NatAssumption DEF TypeOK, MapsAgree, AddressesConserved
  <2>2. /\ free_ipv4' = [free_ipv4 EXCEPT ![a] = @ + 1]
        /\ free_ipv6' = [free_ipv6 EXCEPT ![b] = @ + 1]
        /\ ipv4_to_mplx' = [ipv4_to_mplx EXCEPT ![a] = None]
        /\ ipv6_to_mplx' = [ipv6_to_mplx EXCEPT ![b] = None]
        /\ session_to_mplx' = [session_to_mplx EXCEPT ![s] = None]
    BY <1>2 DEF ReleaseSessionIfEmpty, MayRelease
  <2> HIDE DEF a, b
  <2>3. \A t \in Sessions : session_to_mplx[t] = m => t = s
    BY NatAssumption DEF MapsAgree
  <2> HIDE DEF s
  <2>4. \A n \in Clients : (\E t \in Sessions : session_to_mplx'[t] = n)
                             <=> (Registered(n) /\ n # m)
    BY <1>1, <1>2, <2>2, <2>3, NatAssumption DEF Registered, TypeOK
  <2>5. AddressesConserved'
    BY <2>1, <2>2 DEF AddressesConserved, TypeOK
  <2>6. MapsAgree'
    <3>1. \A x \in Ipv4 : ipv4_to_mplx[x] = m => x = a
      BY NatAssumption DEF MapsAgree, a
    <3>2. \A x \in Ipv6 : ipv6_to_mplx[x] = m => x = b
      BY NatAssumption DEF MapsAgree, b
    <3>3. ASSUME NEW t \in Sessions, session_to_mplx'[t] # None
          PROVE  LET n == session_to_mplx'[t]
                 IN /\ request'[n] # None /\ request'[n].session_id = t
                    /\ fake_ipv4'[n] # None /\ ipv4_to_mplx'[fake_ipv4'[n]] = n
                    /\ fake_ipv6'[n] # None /\ ipv6_to_mplx'[fake_ipv6'[n]] = n
      <4>1. session_to_mplx'[t] = session_to_mplx[t] /\ session_to_mplx[t] # m
        BY <1>1, <2>2, <2>3, <3>3 DEF TypeOK
      <4> QED BY <2>1, <2>2, <3>3, <4>1 DEF TypeOK, MapsAgree, SessionId
    <3>4. \A x \in Ipv4 : ipv4_to_mplx'[x] # None
            => (\E t \in Sessions : session_to_mplx'[t] = ipv4_to_mplx'[x])
                 /\ fake_ipv4'[ipv4_to_mplx'[x]] = x
      BY <2>1, <2>2, <2>4, <3>1 DEF TypeOK, MapsAgree
    <3>5. \A x \in Ipv6 : ipv6_to_mplx'[x] # None
            => (\E t \in Sessions : session_to_mplx'[t] = ipv6_to_mplx'[x])
                 /\ fake_ipv6'[ipv6_to_mplx'[x]] = x
      BY <2>1, <2>2, <2>4, <3>2 DEF TypeOK, MapsAgree
    <3> QED BY <3>3, <3>4, <3>5 DEF MapsAgree, Registered, SessionId
  <2>7. free_ipv4' \in [Ipv4 -> Nat] /\ free_ipv6' \in [Ipv6 -> Nat]
    BY <2>1, <2>2 DEF TypeOK
  <2> QED BY <1>2, <2>2, <2>4, <2>5, <2>6, <2>7 DEF TypeOK
<1>3. CASE ~(empty /\ session_to_mplx[s] = m)
  <2>1. UNCHANGED <<free_ipv4, free_ipv6, session_to_mplx, ipv4_to_mplx, ipv6_to_mplx>>
    BY <1>3 DEF ReleaseSessionIfEmpty, MayRelease, pool
  <2>2. empty => ~Registered(m)
    BY <1>3, RegisteredIff
  <2> HIDE DEF s
  <2>3. AddressesConserved'
    BY <2>1 DEF AddressesConserved
  <2>4. MapsAgree'
    BY <2>1 DEF MapsAgree, Registered, SessionId
  <2> QED BY <2>1, <2>2, <2>3, <2>4 DEF Registered, TypeOK
<1> QED BY <1>2, <1>3

\* Deleting a connection keeps the invariant.
LEMMA DelConnectionInv ==
  ASSUME NatInv, NEW c \in Clients, DelConnectionByClientId(c)
  PROVE  NatInv'
<1> USE DEF NatInv
<1> DEFINE m == client_to_mplx[c]
           gone == Connections(m) \ {c} = {}
<1>1. /\ m \in Clients
      /\ client_to_mplx' = [client_to_mplx EXCEPT ![c] = None]
      /\ sending' = [sending EXCEPT ![m] = @ \ {c}]
      /\ receiving' = [receiving EXCEPT ![m] = @ \ {c}]
      /\ ReleaseSessionIfEmpty(m, gone)
      /\ UNCHANGED <<request, fake_ipv4, fake_ipv6, sendPast, ttlPast,
                     update, expired, emptied>>
  BY DEF DelConnectionByClientId, TypeOK, fakes, clock, updater
<1>2. update # "releasing"
  BY DEF DelConnectionByClientId, Unlocked
<1>3. /\ request[m] # None
      /\ Registered(m) \/ Connections(m) = {}
      /\ \A n \in Clients \ {m} : c \notin Connections(n)
  BY <1>1 DEF ExpiredUnplaced, BucketsReachable, DelConnectionByClientId
<1>4. /\ session_to_mplx' \in [Sessions -> Clients \cup {None}]
      /\ ipv4_to_mplx' \in [Ipv4 -> Clients \cup {None}]
      /\ ipv6_to_mplx' \in [Ipv6 -> Clients \cup {None}]
      /\ free_ipv4' \in [Ipv4 -> Nat] /\ free_ipv6' \in [Ipv6 -> Nat]
      /\ AddressesConserved'
      /\ MapsAgree'
      /\ \A n \in Clients : (\E t \in Sessions : session_to_mplx'[t] = n)
                              <=> (Registered(n) /\ ~(gone /\ n = m))
  <2>1. gone \in BOOLEAN
    OBVIOUS
  <2> HIDE DEF gone
  <2> QED BY <1>1, <1>3, <2>1, ReleaseKeeps
<1>5. /\ sending'[m] \cup receiving'[m] = Connections(m) \ {c}
      /\ \A n \in Clients \ {m} :
           sending'[n] = sending[n] /\ receiving'[n] = receiving[n]
  BY <1>1 DEF Connections, TypeOK
<1> HIDE DEF m
<1>6. TypeOK'
  BY <1>1, <1>4 DEF TypeOK
<1>7. ClientsPlaced'
  <2> SUFFICES ASSUME NEW x \in Clients, client_to_mplx'[x] # None
               PROVE  LET n == client_to_mplx'[x]
                      IN \/ /\ \E t \in Sessions : session_to_mplx'[t] = n
                            /\ x \in sending'[n] \cup receiving'[n]
                         \/ update' = "collected" /\ x \in expired'
    BY DEF ClientsPlaced, Registered, Connections
  <2> DEFINE n == client_to_mplx[x]
  <2>1. x # c /\ client_to_mplx'[x] = n /\ n \in Clients
    BY <1>1 DEF TypeOK
  <2>2. CASE Registered(n) /\ x \in Connections(n)
    <3>1. x \in sending'[n] \cup receiving'[n]
      BY <1>5, <2>1, <2>2 DEF Connections
    <3>2. ~(gone /\ n = m)
      BY <2>1, <2>2
    <3> QED BY <1>4, <2>1, <2>2, <3>1, <3>2
  <2>3. CASE update = "collected" /\ x \in expired
    BY <1>1, <2>3
  <2> QED BY <2>1, <2>2, <2>3 DEF ClientsPlaced
<1>8. BucketsReachable'
  <2> SUFFICES ASSUME NEW n \in Clients, NEW x \in sending'[n] \cup receiving'[n]
               PROVE  /\ \E t \in Sessions : session_to_mplx'[t] = n
                      /\ client_to_mplx'[x] = n
    BY DEF BucketsReachable, Registered, Connections
  <2>1. x \in Clients /\ x \in Connections(n) /\ x # c /\ ~(gone /\ n = m)
    BY <1>1, <1>3, <1>5 DEF Connections, TypeOK
  <2> QED BY <1>1, <1>4, <2>1 DEF BucketsReachable, TypeOK
<1>9. OneUserPerSession'
  <2>1. \A n \in Clients : sending'[n] \cup receiving'[n] \subseteq Connections(n)
    BY <1>5 DEF Connections
  <2> QED BY <1>1, <2>1 DEF OneUserPerSession, SessionId, UserName, Connections
<1>10. EmptySessionsPending'
  <2> SUFFICES ASSUME NEW n \in Clients, \E t \in Sessions : session_to_mplx'[t] = n,
                      sending'[n] \cup receiving'[n] = {}
               PROVE  n \in emptied'
    BY DEF EmptySessionsPending, Registered, Empty, Connections
  <2>1. Registered(n) /\ ~(gone /\ n = m)
    BY <1>4
  <2>2. n # m
    BY <1>5, <2>1
  <2>3. Connections(n) = {}
    BY <1>5, <2>2 DEF Connections
  <2> QED BY <1>1, <2>1, <2>3 DEF EmptySessionsPending, Empty
<1>11. ExpiredUnplaced'
  <2>1. \A x \in expired : \A n \in Clients : x \notin sending'[n] \cup receiving'[n]
    BY <1>5 DEF ExpiredUnplaced, Placed, Connections
  <2>2. \A x \in Clients : client_to_mplx'[x] # None => client_to_mplx'[x] = client_to_mplx[x]
    BY <1>1 DEF TypeOK
  <2> QED BY <1>1, <2>1, <2>2 DEF ExpiredUnplaced, Placed, Connections
<1> QED BY <1>4, <1>6, <1>7, <1>8, <1>9, <1>10, <1>11

\* Re-sorting the buckets loses no connection but the expired ones.
LEMMA CollectExpiredInv ==
  ASSUME NatInv, NEW second \in SUBSET Clients, CollectExpired(second)
  PROVE  NatInv'
<1> USE DEF NatInv
<1> DEFINE all == UNION {Connections(m) : m \in {n \in Clients : Registered(n)}}
           dead == {c \in all : IsExpired(c)}
           keep(m) == Connections(m) \ dead
<1>1. /\ sendPast \subseteq second
      /\ sendPast' = second
      /\ sending' = [m \in Clients |-> IF Registered(m)
                       THEN {c \in keep(m) : IsSending(request[c], c, sendPast)}
                       ELSE sending[m]]
      /\ receiving' = [m \in Clients |-> IF Registered(m)
                         THEN {c \in keep(m) : IsReceiving(request[c], c, second)}
                         ELSE receiving[m]]
      /\ expired' = dead
      /\ emptied' = {m \in Clients : Registered(m)
                                       /\ sending'[m] \cup receiving'[m] = {}}
      /\ update' = IF expired' = {} /\ emptied' = {} THEN "idle" ELSE "collected"
      /\ update = "idle"
      /\ UNCHANGED <<request, session_to_mplx, client_to_mplx, ipv4_to_mplx,
                     ipv6_to_mplx, free_ipv4, free_ipv6, fake_ipv4, fake_ipv6, ttlPast>>
  BY DEF CollectExpired, Kept, LeftEmpty, maps, pool, fakes
<1>2. \A n \in Clients : Connections(n) \subseteq Clients
  BY DEF Connections, TypeOK
<1>3. dead \subseteq Clients
  BY <1>2
<1>4. \A n \in Clients : Connections(n) # {} => Registered(n)
  BY DEF BucketsReachable
<1>5. \A n \in Clients : sending'[n] \cup receiving'[n] = keep(n)
  <2> SUFFICES ASSUME NEW n \in Clients
               PROVE  sending'[n] \cup receiving'[n] = keep(n)
    OBVIOUS
  <2>1. CASE Registered(n)
    <3>1. \A c \in keep(n) : IsSending(request[c], c, sendPast)
                               \/ IsReceiving(request[c], c, second)
      BY <1>1 DEF IsSending, IsReceiving
    <3> HIDE DEF keep
    <3> QED BY <1>1, <2>1, <3>1
  <2>2. CASE ~Registered(n)
    BY <1>1, <1>4, <2>2 DEF Connections
  <2> QED BY <2>1, <2>2
<1>6. \A c \in Clients : c \in dead => \A n \in Clients : c \notin keep(n)
  OBVIOUS
<1>7. \A n \in Clients : \A c \in Connections(n) : c \in dead \/ c \in keep(n)
  OBVIOUS
<1>8. \A n \in Clients : keep(n) \subseteq Connections(n)
  OBVIOUS
<1>9. \A c \in dead : request[c] # None
  BY DEF OneUserPerSession
<1>10. TypeOK'
  <2>1. /\ sending' \in [Clients -> SUBSET Clients]
        /\ receiving' \in [Clients -> SUBSET Clients]
    BY <1>1, <1>2 DEF TypeOK
  <2>2. expired' \subseteq Clients /\ emptied' \subseteq Clients
    BY <1>1, <1>3
  <2>3. sendPast' \subseteq Clients /\ update' \in {"idle", "collected", "releasing"}
    BY <1>1
  <2> HIDE DEF dead, keep
  <2> QED BY <1>1, <2>1, <2>2, <2>3 DEF TypeOK
<1> HIDE DEF dead, keep
<1>11. AddressesConserved'
  BY <1>1 DEF AddressesConserved
<1>12. MapsAgree'
  BY <1>1 DEF MapsAgree, Registered, SessionId
<1>13. ClientsPlaced'
  <2> SUFFICES ASSUME NEW c \in Clients, client_to_mplx[c] # None
               PROVE  LET n == client_to_mplx[c]
                      IN \/ Registered(n) /\ c \in sending'[n] \cup receiving'[n]
                         \/ update' = "collected" /\ c \in expired'
    BY <1>1 DEF ClientsPlaced, Registered, Connections
  <2> DEFINE n == client_to_mplx[c]
  <2>1. n \in Clients /\ Registered(n) /\ c \in Connections(n)
    BY <1>1 DEF ClientsPlaced, TypeOK
  <2>2. CASE c \in dead
    BY <1>1, <2>2
  <2>3. CASE c \in keep(n)
    BY <1>5, <2>1, <2>3
  <2> QED BY <1>7, <2>1, <2>2, <2>3
<1>14. BucketsReachable'
  BY <1>1, <1>5, <1>8 DEF BucketsReachable, Registered, Connections
<1>15. OneUserPerSession'
  <2>1. \A n \in Clients : sending'[n] \cup receiving'[n] \subseteq Connections(n)
    BY <1>5, <1>8
  <2> QED BY <1>1, <2>1 DEF OneUserPerSession, SessionId, UserName, Connections
<1>16. EmptySessionsPending'
  BY <1>1 DEF EmptySessionsPending, Registered, Empty, Connections
<1>17. ExpiredUnplaced'
  <2>1. \A c \in expired' : \A n \in Clients : c \notin sending'[n] \cup receiving'[n]
    BY <1>1, <1>3, <1>5, <1>6
  <2>2. \A c \in expired' : request'[c] # None
    BY <1>1, <1>9
  <2>3. \A m \in emptied' : request'[m] # None
    BY <1>1, RegisteredIff
  <2> QED BY <1>1, <2>1, <2>2, <2>3 DEF ExpiredUnplaced, Placed, Connections
<1> QED BY <1>10, <1>11, <1>12, <1>13, <1>14, <1>15, <1>16, <1>17

\* Forgetting the expired client ids keeps the invariant.
LEMMA EraseExpiredInv ==
  ASSUME NatInv, EraseExpired
  PROVE  NatInv'
<1> USE DEF NatInv
<1>1. /\ client_to_mplx' = [c \in Clients |->
                              IF c \in expired THEN None ELSE client_to_mplx[c]]
      /\ update' = "releasing"
      /\ UNCHANGED <<request, session_to_mplx, ipv4_to_mplx, ipv6_to_mplx,
                     free_ipv4, free_ipv6, fake_ipv4, fake_ipv6, sending, receiving,
                     sendPast, ttlPast, expired, emptied>>
  BY DEF EraseExpired, pool, fakes, buckets, clock
<1>2. TypeOK'
  BY <1>1 DEF TypeOK
<1>3. AddressesConserved' /\ MapsAgree'
  BY <1>1 DEF AddressesConserved, MapsAgree, Registered, SessionId
<1>4. ClientsPlaced'
  BY <1>1 DEF ClientsPlaced, Registered, Connections
<1>5. BucketsReachable'
  BY <1>1 DEF BucketsReachable, ExpiredUnplaced, Placed, Registered, Connections, TypeOK
<1>6. OneUserPerSession' /\ EmptySessionsPending'
  BY <1>1 DEF OneUserPerSession, EmptySessionsPending, SessionId, UserName,
              Registered, Empty, Connections
<1>7. ExpiredUnplaced'
  BY <1>1 DEF ExpiredUnplaced, Placed, Connections
<1> QED BY <1>2, <1>3, <1>4, <1>5, <1>6, <1>7

\* Releasing one of the emptied sessions keeps the invariant.
LEMMA ReleaseEmptiedInv ==
  ASSUME NatInv, NEW m \in Clients, ReleaseEmptied(m)
  PROVE  NatInv'
<1> USE DEF NatInv
<1>1. /\ update = "releasing"
      /\ m \in emptied
      /\ ReleaseSessionIfEmpty(m, Empty(m))
      /\ emptied' = emptied \ {m}
      /\ UNCHANGED <<request, client_to_mplx, fake_ipv4, fake_ipv6, sending, receiving,
                     sendPast, ttlPast, update, expired>>
  BY DEF ReleaseEmptied, fakes, buckets, clock
<1>2. request[m] # None /\ Empty(m) \in BOOLEAN
  BY <1>1 DEF ExpiredUnplaced, Empty
<1>3. /\ session_to_mplx' \in [Sessions -> Clients \cup {None}]
      /\ ipv4_to_mplx' \in [Ipv4 -> Clients \cup {None}]
      /\ ipv6_to_mplx' \in [Ipv6 -> Clients \cup {None}]
      /\ free_ipv4' \in [Ipv4 -> Nat] /\ free_ipv6' \in [Ipv6 -> Nat]
      /\ AddressesConserved'
      /\ MapsAgree'
      /\ \A n \in Clients : (\E t \in Sessions : session_to_mplx'[t] = n)
                              <=> (Registered(n) /\ ~(Empty(m) /\ n = m))
  BY <1>1, <1>2, ReleaseKeeps
<1>4. TypeOK'
  BY <1>1, <1>3 DEF TypeOK
<1>5. ClientsPlaced'
  <2>1. \A c \in Clients : client_to_mplx[c] # None =>
          /\ client_to_mplx[c] \in Clients /\ Registered(client_to_mplx[c])
          /\ c \in Connections(client_to_mplx[c])
    BY <1>1 DEF ClientsPlaced, TypeOK
  <2> QED BY <1>1, <1>3, <2>1 DEF ClientsPlaced, Registered, Empty, Connections
<1>6. BucketsReachable'
  BY <1>1, <1>3 DEF BucketsReachable, Registered, Empty, Connections
<1>7. OneUserPerSession'
  BY <1>1 DEF OneUserPerSession, SessionId, UserName, Connections
<1>8. EmptySessionsPending'
  BY <1>1, <1>3 DEF EmptySessionsPending, Registered, Empty, Connections
<1>9. ExpiredUnplaced'
  BY <1>1 DEF ExpiredUnplaced, Placed, Connections
<1> QED BY <1>3, <1>4, <1>5, <1>6, <1>7, <1>8, <1>9

\* Returning from the update, and the passing of time, keep the invariant.
LEMMA UpdateReturnsInv ==
  ASSUME NatInv, UpdateReturns
  PROVE  NatInv'
<1> USE DEF NatInv
<1>1. /\ update = "releasing" /\ update' = "idle" /\ expired' = {} /\ emptied = {}
      /\ UNCHANGED <<request, session_to_mplx, client_to_mplx, ipv4_to_mplx,
                     ipv6_to_mplx, free_ipv4, free_ipv6, fake_ipv4, fake_ipv6,
                     sending, receiving, sendPast, ttlPast, emptied>>
  BY DEF UpdateReturns, maps, pool, fakes, buckets, clock
<1>2. TypeOK'
  BY <1>1 DEF TypeOK
<1>3. AddressesConserved' /\ MapsAgree'
  BY <1>1 DEF AddressesConserved, MapsAgree, Registered, SessionId
<1>4. ClientsPlaced' /\ BucketsReachable'
  BY <1>1 DEF ClientsPlaced, BucketsReachable, Registered, Connections
<1>5. OneUserPerSession' /\ EmptySessionsPending'
  BY <1>1 DEF OneUserPerSession, EmptySessionsPending, SessionId, UserName,
              Registered, Empty, Connections
<1>6. ExpiredUnplaced'
  BY <1>1 DEF ExpiredUnplaced, Placed, Connections
<1> QED BY <1>2, <1>3, <1>4, <1>5, <1>6

LEMMA ClockInv ==
  ASSUME NatInv, ClockStep
  PROVE  NatInv'
<1> USE DEF NatInv
<1>1. /\ sendPast' \subseteq Clients /\ ttlPast' \subseteq Clients
      /\ UNCHANGED <<request, session_to_mplx, client_to_mplx, ipv4_to_mplx,
                     ipv6_to_mplx, free_ipv4, free_ipv6, fake_ipv4, fake_ipv6,
                     sending, receiving, update, expired, emptied>>
  BY DEF ClockStep, SendWindowEnds, TtlEnds, maps, pool, fakes, buckets, updater, TypeOK
<1>2. TypeOK'
  BY <1>1 DEF TypeOK
<1>3. AddressesConserved' /\ MapsAgree'
  BY <1>1 DEF AddressesConserved, MapsAgree, Registered, SessionId
<1>4. ClientsPlaced' /\ BucketsReachable'
  BY <1>1 DEF ClientsPlaced, BucketsReachable, Registered, Connections
<1>5. OneUserPerSession' /\ EmptySessionsPending'
  BY <1>1 DEF OneUserPerSession, EmptySessionsPending, SessionId, UserName,
              Registered, Empty, Connections
<1>6. ExpiredUnplaced'
  BY <1>1 DEF ExpiredUnplaced, Placed, Connections
<1> QED BY <1>2, <1>3, <1>4, <1>5, <1>6

\* Every step of the table, and every step that leaves it alone, keeps it.
LEMMA StepInv == NatInv /\ [NatNext]_natVars => NatInv'
<1> SUFFICES ASSUME NatInv, [NatNext]_natVars PROVE NatInv'
  OBVIOUS
<1>1. ASSUME NEW c \in Clients, NEW r \in Requests, AddConnection(c, r)
      PROVE  NatInv'
  BY <1>1, AddToSessionInv, AddNewSessionInv, RefuseConnectionInv
     DEF AddConnection, Accept
<1>2. ASSUME NEW c \in Clients, DelConnectionByClientId(c) PROVE NatInv'
  BY <1>2, DelConnectionInv
<1>3. CASE UpdateStep
  BY <1>3, CollectExpiredInv, EraseExpiredInv, ReleaseEmptiedInv, UpdateReturnsInv
     DEF UpdateStep
<1>4. CASE ClockStep
  BY <1>4, ClockInv
<1>5. CASE UNCHANGED natVars
  <2> USE <1>5 DEF natVars
  <2>1. TypeOK' /\ AddressesConserved' /\ OneUserPerSession'
    BY DEF NatInv, TypeOK, AddressesConserved, OneUserPerSession, Connections,
           SessionId, UserName
  <2>2. MapsAgree' /\ EmptySessionsPending'
    BY DEF NatInv, MapsAgree, EmptySessionsPending, Registered, SessionId, Empty,
           Connections
  <2>3. ClientsPlaced' /\ BucketsReachable' /\ ExpiredUnplaced'
    BY DEF NatInv, ClientsPlaced, BucketsReachable, ExpiredUnplaced, Placed,
           Registered, SessionId, Connections
  <2> QED BY <2>1, <2>2, <2>3 DEF NatInv
<1> QED BY <1>1, <1>2, <1>3, <1>4, <1>5 DEF NatNext

\* The table of table.cpp keeps its invariant in every behaviour.
THEOREM TableInvariant == NatSpec => []NatInv
BY InitInv, StepInv, PTL DEF NatSpec

\* Types.
THEOREM TypeCorrect == NatSpec => []TypeOK
<1>1. NatInv => TypeOK
  BY DEF NatInv
<1> QED BY <1>1, TableInvariant, PTL

\* Maps, buckets and the running update agree (UpdateConnectionsStatus against
\* every call that may come between its steps).
THEOREM TableStaysConsistent == NatSpec => []TableConsistent
<1>1. NatInv => TableConsistent
  BY DEF NatInv, TableConsistent
<1> QED BY <1>1, TableInvariant, PTL

\* No address is leased twice, none is lost (ReleaseSessionIfEmpty and the
\* two halves of UpdateConnectionsStatus).
THEOREM AddressConservation == NatSpec => [](AddressesConserved /\ MapsAgree)
<1>1. NatInv => AddressesConserved /\ MapsAgree
  BY DEF NatInv
<1> QED BY <1>1, TableInvariant, PTL

\* No connection is lost between the buckets, the maps and the updater.
THEOREM NoConnectionLost ==
  NatSpec => [](ClientsPlaced /\ BucketsReachable /\ EmptySessionsPending)
<1>1. NatInv => ClientsPlaced /\ BucketsReachable /\ EmptySessionsPending
  BY DEF NatInv
<1> QED BY <1>1, TableInvariant, PTL

\* A session never mixes users.
THEOREM SessionOfOneUser == NatSpec => []OneUserPerSession
<1>1. NatInv => OneUserPerSession
  BY DEF NatInv
<1> QED BY <1>1, TableInvariant, PTL
-----------------------------------------------------------------------------
(* The table implements the lease *)

\* The pair and the members that the abstraction sees for each session: under
\* the table's invariant the members are those of the registered multiplexer.
LeaseView ==
  /\ \A s \in Sessions :
       /\ leaseOf[s] = IF session_to_mplx[s] = None THEN None
                       ELSE <<fake_ipv4[session_to_mplx[s]], fake_ipv6[session_to_mplx[s]]>>
       /\ membersOf[s] = IF session_to_mplx[s] = None THEN {}
                         ELSE sending[session_to_mplx[s]] \cup receiving[session_to_mplx[s]]
  /\ leaseOf = [s \in Sessions |-> leaseOf[s]]
  /\ membersOf = [s \in Sessions |-> membersOf[s]]

\* A connection in a bucket of n asked for the session n is registered under.
LEMMA PlacedInOwnSession ==
  ASSUME NatInv, NEW n \in Clients, NEW c \in Connections(n)
  PROVE  /\ c \in Clients
         /\ request[c].session_id \in Sessions
         /\ session_to_mplx[request[c].session_id] = n
<1>1. c \in Clients
  BY DEF NatInv, TypeOK, Connections
<1>2. /\ Registered(n) /\ request[n] # None /\ request[c] # None
      /\ request[c].session_id = SessionId(n)
  BY DEF NatInv, BucketsReachable, OneUserPerSession
<1>3. session_to_mplx[SessionId(n)] = n
  BY <1>2, RegisteredIff DEF NatInv
<1> QED BY <1>1, <1>2, <1>3, RequestFields DEF NatInv, TypeOK

LEMMA LeaseFields == NatInv => LeaseView
<1> SUFFICES ASSUME NatInv PROVE LeaseView
  OBVIOUS
<1>1. ASSUME NEW s \in Sessions, session_to_mplx[s] = None
      PROVE  membersOf[s] = {}
  BY <1>1, PlacedInOwnSession, NatAssumption DEF Placed, membersOf
<1>2. ASSUME NEW s \in Sessions, session_to_mplx[s] # None
      PROVE  membersOf[s] = Connections(session_to_mplx[s])
  <2> DEFINE m == session_to_mplx[s]
  <2>1. m \in Clients /\ SessionId(m) = s /\ Connections(m) \subseteq Clients
    BY <1>2 DEF NatInv, TypeOK, MapsAgree, Connections
  <2>2. \A c \in Connections(m) : request[c].session_id = s
    BY <2>1 DEF NatInv, OneUserPerSession
  <2>3. ASSUME NEW n \in Clients, NEW c \in Connections(n), request[c].session_id = s
        PROVE  n = m
    BY <2>3, PlacedInOwnSession
  <2> HIDE DEF m
  <2>4. \A c \in Clients : (Placed(c) /\ request[c].session_id = s) <=> c \in Connections(m)
    BY <2>1, <2>2, <2>3 DEF Placed
  <2>5. membersOf[s] = {c \in Clients : Placed(c) /\ request[c].session_id = s}
    BY DEF membersOf
  <2>6. membersOf[s] = Connections(m)
    BY <2>1, <2>4, <2>5
  <2> QED BY <2>6 DEF m
<1>3. \A s \in Sessions :
        leaseOf[s] = IF session_to_mplx[s] = None THEN None
                     ELSE <<fake_ipv4[session_to_mplx[s]], fake_ipv6[session_to_mplx[s]]>>
  BY DEF leaseOf
<1>4. leaseOf = [s \in Sessions |-> leaseOf[s]] /\ membersOf = [s \in Sessions |-> membersOf[s]]
  BY DEF leaseOf, membersOf
<1> QED BY <1>1, <1>2, <1>3, <1>4 DEF LeaseView, Connections

\* A registered session holds a pair of addresses.
LEMMA RegisteredLease ==
  ASSUME NatInv, LeaseView, NEW s \in Sessions, session_to_mplx[s] # None
  PROVE  leaseOf[s] # None
<1>1. /\ fake_ipv4[session_to_mplx[s]] \in Ipv4
      /\ fake_ipv6[session_to_mplx[s]] \in Ipv6
  BY DEF NatInv, MapsAgree, TypeOK
<1> QED BY <1>1, NatAssumption DEF LeaseView

\* Nothing is leased at first.
LEMMA LeaseInit == NatInit => Lease!Init
<1>1. NatInit => \A c \in Clients : ~Placed(c)
  BY DEF NatInit, Placed, Connections
<1> QED BY <1>1 DEF NatInit, Lease!Init, leaseOf, membersOf

\* A step that leaves every registered session its multiplexer and pair, or
\* drops a session it leaves without members, is a Leave.
LEMMA ShrinkIsLeave ==
  ASSUME NatInv, LeaseView, LeaseView',
         \A s \in Sessions : \/ session_to_mplx'[s] = session_to_mplx[s]
                             \/ session_to_mplx'[s] = None,
         UNCHANGED <<fake_ipv4, fake_ipv6>>,
         \A m \in Clients : sending'[m] \cup receiving'[m] \subseteq Connections(m)
  PROVE  Lease!Leave
<1>1. \A s \in Sessions : membersOf'[s] \subseteq membersOf[s]
  <2> SUFFICES ASSUME NEW s \in Sessions, session_to_mplx'[s] # None
               PROVE  membersOf'[s] \subseteq membersOf[s]
    BY DEF LeaseView
  <2>1. session_to_mplx'[s] = session_to_mplx[s] /\ session_to_mplx[s] \in Clients
    BY DEF NatInv, TypeOK
  <2> QED BY <2>1 DEF LeaseView, Connections
<1>2. \A s \in Sessions : membersOf[s] \subseteq Clients
  BY DEF membersOf
<1>3. membersOf' \in [Sessions -> SUBSET Clients]
  BY <1>1, <1>2 DEF LeaseView
<1>4. \A s \in Sessions : \/ leaseOf'[s] = leaseOf[s]
                          \/ leaseOf'[s] = None /\ membersOf'[s] = {}
  BY DEF LeaseView
<1> QED BY <1>1, <1>3, <1>4 DEF Lease!Leave, LeaseView

\* Joining an existing session is a Join.
LEMMA JoinSimulates ==
  ASSUME NatInv, LeaseView, LeaseView', NEW c \in Clients, NEW r \in Requests, AddToSession(c, r)
  PROVE  Lease!Next
<1> USE DEF NatInv
<1> DEFINE s == r.session_id
           m == session_to_mplx[s]
<1>1. s \in Sessions /\ m # None /\ m \in Clients
  BY RequestFields DEF AddToSession, TypeOK
<1>2. /\ sending'[m] \cup receiving'[m] = Connections(m) \cup {c}
      /\ \A n \in Clients \ {m} :
           sending'[n] = sending[n] /\ receiving'[n] = receiving[n]
      /\ UNCHANGED <<session_to_mplx, fake_ipv4, fake_ipv6>>
  BY <1>1, AcceptPlaces DEF AddToSession, fakes
<1>3. \A t \in Sessions : session_to_mplx[t] = m => t = s
  BY <1>1 DEF MapsAgree
<1> HIDE DEF s, m
<1>4. leaseOf[s] # None
  BY <1>1, RegisteredLease DEF m
<1>5. leaseOf' = leaseOf
  BY <1>2 DEF LeaseView
<1>6. \A t \in Sessions : membersOf'[t] = IF t = s THEN membersOf[s] \cup {c} ELSE membersOf[t]
  <2> SUFFICES ASSUME NEW t \in Sessions
               PROVE  membersOf'[t] = IF t = s THEN membersOf[s] \cup {c} ELSE membersOf[t]
    OBVIOUS
  <2>1. CASE t = s
    BY <1>1, <1>2, <2>1 DEF m, LeaseView, Connections
  <2>2. CASE t # s
    <3>1. session_to_mplx'[t] = session_to_mplx[t] /\ session_to_mplx[t] # m
      BY <1>2, <1>3, <2>2
    <3>2. CASE session_to_mplx[t] = None
      BY <2>2, <3>1, <3>2 DEF LeaseView
    <3>3. CASE session_to_mplx[t] # None
      <4> DEFINE n == session_to_mplx[t]
      <4>1. n \in Clients \ {m}
        BY <3>1, <3>3 DEF TypeOK
      <4>2. sending'[n] \cup receiving'[n] = Connections(n)
        BY <1>2, <4>1 DEF Connections
      <4>3. membersOf'[t] = sending'[n] \cup receiving'[n] /\ membersOf[t] = Connections(n)
        BY <3>1, <3>3 DEF LeaseView, Connections
      <4> QED BY <2>2, <4>2, <4>3
    <3> QED BY <3>2, <3>3
  <2> QED BY <2>1, <2>2
<1>7. membersOf' = [membersOf EXCEPT ![s] = @ \cup {c}]
  BY <1>1, <1>6 DEF LeaseView
<1> QED BY <1>1, <1>4, <1>5, <1>7 DEF Lease!Next, Lease!Join

\* Opening a session is an Acquire.
LEMMA AcquireSimulates ==
  ASSUME NatInv, LeaseView, LeaseView', NEW c \in Clients, NEW r \in Requests,
         NEW a \in Ipv4, NEW b \in Ipv6,
         Fresh(c), AddNewSession(c, r, a, b)
  PROVE  Lease!Next
<1> USE DEF NatInv
<1> DEFINE s == r.session_id
<1>1. s \in Sessions /\ c # None /\ session_to_mplx[s] = None
  BY RequestFields, NatAssumption DEF AddNewSession
<1>2. ~Registered(c) /\ Connections(c) = {}
  <2>1. ~Registered(c)
    BY NatAssumption DEF Fresh, MapsAgree, Registered
  <2> QED BY <2>1 DEF BucketsReachable
<1>3. /\ sending'[c] \cup receiving'[c] = {c}
      /\ \A n \in Clients \ {c} :
           sending'[n] = sending[n] /\ receiving'[n] = receiving[n]
      /\ session_to_mplx' = [session_to_mplx EXCEPT ![s] = c]
      /\ fake_ipv4' = [fake_ipv4 EXCEPT ![c] = a]
      /\ fake_ipv6' = [fake_ipv6 EXCEPT ![c] = b]
  BY <1>1, <1>2, AcceptPlaces DEF AddNewSession, Insert
<1>4. ipv4_to_mplx[a] = None /\ ipv6_to_mplx[b] = None
  BY DEF AddNewSession, PopAddresses, AddressesConserved
<1> HIDE DEF s
<1>5. \A t \in Sessions : ~Lease!Holds4(t, a) /\ ~Lease!Holds6(t, b)
  BY <1>4 DEF Lease!Holds4, Lease!Holds6, MapsAgree, LeaseView
<1>6. \A t \in Sessions : leaseOf'[t] = IF t = s THEN <<a, b>> ELSE leaseOf[t]
  <2> SUFFICES ASSUME NEW t \in Sessions
               PROVE  leaseOf'[t] = IF t = s THEN <<a, b>> ELSE leaseOf[t]
    OBVIOUS
  <2>1. CASE t = s
    BY <1>1, <1>3, <2>1 DEF TypeOK, LeaseView
  <2>2. CASE t # s
    <3>1. session_to_mplx'[t] = session_to_mplx[t] /\ session_to_mplx[t] # c
      BY <1>2, <1>3, <2>2 DEF Registered, TypeOK
    <3>2. CASE session_to_mplx[t] = None
      BY <2>2, <3>1, <3>2 DEF LeaseView
    <3>3. CASE session_to_mplx[t] # None
      <4>1. session_to_mplx[t] \in Clients \ {c}
        BY <3>1, <3>3 DEF TypeOK
      <4>2. /\ fake_ipv4'[session_to_mplx[t]] = fake_ipv4[session_to_mplx[t]]
            /\ fake_ipv6'[session_to_mplx[t]] = fake_ipv6[session_to_mplx[t]]
        BY <1>3, <4>1 DEF TypeOK
      <4> QED BY <2>2, <3>1, <3>3, <4>2 DEF LeaseView
    <3> QED BY <3>2, <3>3
  <2> QED BY <2>1, <2>2
<1>7. \A t \in Sessions : membersOf'[t] = IF t = s THEN {c} ELSE membersOf[t]
  <2> SUFFICES ASSUME NEW t \in Sessions
               PROVE  membersOf'[t] = IF t = s THEN {c} ELSE membersOf[t]
    OBVIOUS
  <2>1. CASE t = s
    BY <1>1, <1>3, <2>1 DEF TypeOK, LeaseView
  <2>2. CASE t # s
    <3>1. session_to_mplx'[t] = session_to_mplx[t] /\ session_to_mplx[t] # c
      BY <1>2, <1>3, <2>2 DEF Registered, TypeOK
    <3>2. CASE session_to_mplx[t] = None
      BY <2>2, <3>1, <3>2 DEF LeaseView
    <3>3. CASE session_to_mplx[t] # None
      <4> DEFINE n == session_to_mplx[t]
      <4>1. n \in Clients \ {c}
        BY <3>1, <3>3 DEF TypeOK
      <4>2. sending'[n] \cup receiving'[n] = Connections(n)
        BY <1>3, <4>1 DEF Connections
      <4>3. membersOf'[t] = sending'[n] \cup receiving'[n] /\ membersOf[t] = Connections(n)
        BY <3>1, <3>3 DEF LeaseView, Connections
      <4> QED BY <2>2, <4>2, <4>3
    <3> QED BY <3>2, <3>3
  <2> QED BY <2>1, <2>2
<1>8. leaseOf' = [leaseOf EXCEPT ![s] = <<a, b>>]
  BY <1>1, <1>6 DEF LeaseView
<1>9. membersOf' = [membersOf EXCEPT ![s] = {c}]
  BY <1>1, <1>7 DEF LeaseView
<1>10. leaseOf[s] = None
  BY <1>1 DEF LeaseView
<1> QED BY <1>1, <1>5, <1>8, <1>9, <1>10 DEF Lease!Next, Lease!Acquire

\* Deleting a connection, and each step of the update, is a Leave.
LEMMA DelSimulates ==
  ASSUME NatInv, LeaseView, LeaseView', NEW c \in Clients, DelConnectionByClientId(c)
  PROVE  Lease!Leave
<1>1. UNCHANGED <<fake_ipv4, fake_ipv6>>
  BY DEF DelConnectionByClientId, fakes
<1>2. \A s \in Sessions : \/ session_to_mplx'[s] = session_to_mplx[s]
                          \/ session_to_mplx'[s] = None
  BY DEF DelConnectionByClientId, ReleaseSessionIfEmpty, NatInv, TypeOK
<1>3. \A m \in Clients : sending'[m] \cup receiving'[m] \subseteq Connections(m)
  BY DEF DelConnectionByClientId, Connections, NatInv, TypeOK
<1> QED BY <1>1, <1>2, <1>3, ShrinkIsLeave DEF NatInv

LEMMA UpdateSimulates ==
  ASSUME NatInv, LeaseView, LeaseView', UpdateStep
  PROVE  Lease!Leave
<1>1. UNCHANGED <<fake_ipv4, fake_ipv6>>
  BY DEF UpdateStep, CollectExpired, EraseExpired, ReleaseEmptied, UpdateReturns, fakes
<1>2. \A s \in Sessions : \/ session_to_mplx'[s] = session_to_mplx[s]
                          \/ session_to_mplx'[s] = None
  <2>1. ASSUME NEW m \in Clients, ReleaseEmptied(m)
        PROVE  \A s \in Sessions : \/ session_to_mplx'[s] = session_to_mplx[s]
                                   \/ session_to_mplx'[s] = None
    BY <2>1 DEF ReleaseEmptied, ReleaseSessionIfEmpty, NatInv, TypeOK
  <2>2. ASSUME (\E second \in SUBSET Clients : CollectExpired(second))
                 \/ EraseExpired \/ UpdateReturns
        PROVE  session_to_mplx' = session_to_mplx
    BY <2>2 DEF CollectExpired, EraseExpired, UpdateReturns, maps
  <2> QED BY <2>1, <2>2 DEF UpdateStep
<1>3. \A m \in Clients : sending'[m] \cup receiving'[m] \subseteq Connections(m)
  <2>1. ASSUME NEW second \in SUBSET Clients, CollectExpired(second), NEW m \in Clients
        PROVE  sending'[m] \cup receiving'[m] \subseteq Connections(m)
    <3>1. CASE Registered(m)
      BY <2>1, <3>1 DEF CollectExpired, Kept
    <3>2. CASE ~Registered(m)
      BY <2>1, <3>2 DEF CollectExpired, Connections
    <3> QED BY <3>1, <3>2
  <2>2. ASSUME EraseExpired \/ UpdateReturns \/ \E m \in Clients : ReleaseEmptied(m)
        PROVE  UNCHANGED <<sending, receiving>>
    BY <2>2 DEF EraseExpired, ReleaseEmptied, UpdateReturns, buckets
  <2> QED BY <2>1, <2>2 DEF UpdateStep, Connections
<1> QED BY <1>1, <1>2, <1>3, ShrinkIsLeave DEF NatInv

\* A refused connection and the clock stutter.
LEMMA StutterSimulates ==
  ASSUME NatInv, LeaseView, LeaseView',
         \/ UNCHANGED natVars
         \/ ClockStep
         \/ \E c \in Clients, r \in Requests : RefuseConnection(c, r)
  PROVE  UNCHANGED <<leaseOf, membersOf>>
<1>1. UNCHANGED <<session_to_mplx, fake_ipv4, fake_ipv6, sending, receiving>>
  BY DEF natVars, ClockStep, SendWindowEnds, TtlEnds, RefuseConnection, maps,
         fakes, buckets
<1>2. \A s \in Sessions : leaseOf'[s] = leaseOf[s]
  BY <1>1 DEF LeaseView
<1>3. \A s \in Sessions : membersOf'[s] = membersOf[s]
  BY <1>1 DEF LeaseView
<1>4. leaseOf' = leaseOf
  BY <1>2 DEF LeaseView
<1>5. membersOf' = membersOf
  BY <1>3 DEF LeaseView
<1> QED BY <1>4, <1>5

LEMMA LeaseStep ==
  NatInv /\ LeaseView /\ LeaseView' /\ [NatNext]_natVars => [Lease!Next]_(Lease!leaseVars)
<1> SUFFICES ASSUME NatInv, LeaseView, LeaseView', [NatNext]_natVars
             PROVE  Lease!Next \/ UNCHANGED <<leaseOf, membersOf>>
  BY DEF Lease!leaseVars
<1>1. CASE \E c \in Clients, r \in Requests : AddConnection(c, r)
  BY <1>1, JoinSimulates, AcquireSimulates, StutterSimulates DEF AddConnection, Accept
<1>2. CASE \E c \in Clients : DelConnectionByClientId(c)
  BY <1>2, DelSimulates DEF Lease!Next
<1>3. CASE UpdateStep
  BY <1>3, UpdateSimulates DEF Lease!Next
<1>4. CASE ClockStep \/ UNCHANGED natVars
  BY <1>4, StutterSimulates
<1> QED BY <1>1, <1>2, <1>3, <1>4 DEF NatNext

\* The NAT table of table.cpp implements the lease abstraction.
THEOREM TableImplementsLease == NatSpec => LeaseSpec
BY LeaseInit, LeaseStep, LeaseFields, TableInvariant, PTL DEF NatSpec, LeaseSpec, Lease!Spec

-----------------------------------------------------------------------------
(* The sessions *)

\* What HandleWsOpenConnection carries from its check to its registration.
AskedKnown ==
  \A c \in Clients : phase[c] \in {"checked", "locked"} => asked[c] \in Requests

BeforeSweep == stop \in {"no", "requested", "flagged"}

\* Until the sweep an accepted session is in sessions_, where the sweep finds
\* it, also after running_ was reset; since then none is being registered and
\* those that were open have been told to close.
SweepReaches ==
  IF BeforeSweep
    THEN \A c \in Clients : phase[c] \in {"accepting", "streaming"} => c \in sessions
    ELSE \A c \in Clients : /\ phase[c] \notin {"locked", "added"}
                            /\ phase[c] \in {"accepting", "streaming"} => c \in posted

SessionTypeOK ==
  /\ phase \in [Clients -> Phases]
  /\ asked \in [Clients -> Requests \cup {None}]
  /\ posted \subseteq Clients /\ sessions \subseteq Clients /\ toClose \subseteq Clients
  /\ stop \in StopSteps

\* The inductive invariant of the sessions, over that of the NAT table.
SessionInv ==
  /\ SessionTypeOK
  /\ AskedKnown
  /\ EntryHasOwner
  /\ SessionsListed
  /\ SweepReaches

\* The phases that may own an entry of the table, and those that sessions_
\* lists while the server runs.
Owning == {"added", "accepting", "streaming", "closing", "erasing", "deleting"}
Listed == {"accepting", "streaming", "closing", "erasing"}
-----------------------------------------------------------------------------
(* The table's entries *)

\* A refusal excludes an acceptance, and registering c touches its entry only.
LEMMA RegistersOne ==
  ASSUME TypeOK, NEW c \in Clients, NEW r \in Requests, AddConnection(c, r)
  PROVE  /\ \A d \in Clients \ {c} : client_to_mplx'[d] = client_to_mplx[d]
         /\ RefusesConnection(c, r) => client_to_mplx' = client_to_mplx
<1>1. ASSUME RefusesConnection(c, r) PROVE ~Accept(c, r)
  BY <1>1, RequestFields DEF RefusesConnection, Accept, AddToSession, AddNewSession, MayJoin,
     NoFreeAddress, PopAddresses, TypeOK
<1>2. CASE Accept(c, r)
  BY <1>1, <1>2 DEF Accept, AddToSession, AddNewSession, Insert, TypeOK
<1>3. CASE RefuseConnection(c, r)
  BY <1>3 DEF RefuseConnection, maps
<1> QED BY <1>2, <1>3 DEF AddConnection

\* Deleting the entry of c, if it has one, touches no other.
LEMMA DeletesOne ==
  ASSUME TypeOK, NEW c \in Clients, DeleteEntry(c)
  PROVE  /\ \A d \in Clients \ {c} : client_to_mplx'[d] = client_to_mplx[d]
         /\ client_to_mplx'[c] = None
<1>1. CASE client_to_mplx[c] = None
  BY <1>1 DEF DeleteEntry, natVars, maps
<1>2. CASE client_to_mplx[c] # None
  BY <1>2 DEF DeleteEntry, DelConnectionByClientId, TypeOK
<1> QED BY <1>1, <1>2

\* The expiry thread and the clock register nothing.
LEMMA EntriesOnlyLeave ==
  ASSUME TypeOK, UpdateStep \/ ClockStep
  PROVE  \A c \in Clients : client_to_mplx'[c] # None => client_to_mplx[c] # None
<1>1. CASE EraseExpired
  BY <1>1 DEF EraseExpired
<1>2. CASE \/ \E second \in SUBSET Clients : CollectExpired(second)
           \/ \E m \in Clients : ReleaseEmptied(m)
           \/ UpdateReturns \/ ClockStep
  BY <1>2 DEF CollectExpired, ReleaseEmptied, UpdateReturns, ClockStep, SendWindowEnds,
     TtlEnds, maps
<1> QED BY <1>1, <1>2 DEF UpdateStep
-----------------------------------------------------------------------------
(* The steps of a session *)

LEMMA ServerInitInv == ServerInit => NatInv /\ SessionInv
<1> SUFFICES ASSUME ServerInit PROVE NatInv /\ SessionInv
  OBVIOUS
<1> USE DEF ServerInit
<1>1. SessionTypeOK
  <2>1. "none" \in Phases /\ "no" \in StopSteps
    BY DEF Phases, StopSteps
  <2> QED BY <2>1 DEF SessionTypeOK
<1>2. AskedKnown /\ EntryHasOwner /\ SessionsListed /\ SweepReaches
  BY DEF NatInit, AskedKnown, EntryHasOwner, SessionsListed, SweepReaches, BeforeSweep
<1> QED BY <1>1, <1>2, InitInv DEF SessionInv

\* A step of one session keeps the invariant if it keeps what concerns that
\* session.
LEMMA SessionMoves ==
  ASSUME SessionInv, NEW c \in Clients, NEW to \in Phases, GoTo(c, to), UNCHANGED stop,
         asked' \in [Clients -> Requests \cup {None}],
         posted' \subseteq Clients, sessions' \subseteq Clients, toClose' \subseteq Clients,
         \A d \in Clients \ {c} : /\ client_to_mplx'[d] = client_to_mplx[d]
                                  /\ asked'[d] = asked[d]
                                  /\ d \in posted <=> d \in posted'
                                  /\ d \in sessions <=> d \in sessions',
         to \in {"checked", "locked"} => asked'[c] \in Requests,
         client_to_mplx'[c] # None => to \in Owning,
         server_running => (c \in sessions' <=> to \in Listed),
         IF BeforeSweep
           THEN to \in {"accepting", "streaming"} => c \in sessions'
           ELSE /\ to \notin {"locked", "added"}
                /\ to \in {"accepting", "streaming"} => c \in posted'
  PROVE  SessionInv'
<1>1. phase' \in [Clients -> Phases] /\ phase'[c] = to /\ stop' = stop
      /\ \A d \in Clients \ {c} : phase'[d] = phase[d]
  BY DEF GoTo, SessionInv, SessionTypeOK
<1>2. SessionTypeOK'
  BY <1>1 DEF SessionInv, SessionTypeOK
<1>3. AskedKnown'
  BY <1>1 DEF SessionInv, AskedKnown
<1>4. EntryHasOwner'
  BY <1>1 DEF SessionInv, EntryHasOwner, Owning
<1>5. SessionsListed'
  <2> SUFFICES ASSUME server_running, NEW d \in Clients
               PROVE  d \in sessions' <=> phase'[d] \in Listed
    BY <1>1 DEF SessionsListed, server_running, Listed
  <2> QED BY <1>1 DEF SessionInv, SessionsListed, Listed
<1>6. SweepReaches'
  BY <1>1 DEF SessionInv, SweepReaches, BeforeSweep
<1> QED BY <1>2, <1>3, <1>4, <1>5, <1>6 DEF SessionInv

\* Before a session is registered.
Early == Handshakes \cup {"none", "handshaking", "checked", "closed"}

LEMMA EarlyMoves ==
  ASSUME SessionInv, NEW c \in Clients, NEW to \in Early, phase[c] \in Early, GoTo(c, to),
         UNCHANGED <<natVars, posted, sessions, toClose, stop>>,
         asked' \in [Clients -> Requests \cup {None}],
         \A d \in Clients \ {c} : asked'[d] = asked[d],
         to = "checked" => asked'[c] \in Requests
  PROVE  SessionInv'
<1>1. /\ to \in Phases /\ to \notin Owning /\ to \notin Listed /\ to # "locked"
      /\ to \notin {"accepting", "streaming", "added"}
  BY DEF Early, Phases, Owning, Listed, Handshakes
<1>2. phase[c] \notin Owning /\ phase[c] \notin Listed
  BY DEF Early, Owning, Listed, Handshakes
<1>3. client_to_mplx' = client_to_mplx /\ client_to_mplx[c] = None
  BY <1>2 DEF natVars, SessionInv, EntryHasOwner, Owning
<1>4. server_running => c \notin sessions
  BY <1>2 DEF SessionInv, SessionsListed, Listed
<1>5. posted' \subseteq Clients /\ sessions' \subseteq Clients /\ toClose' \subseteq Clients
  BY DEF SessionInv, SessionTypeOK
<1> QED BY <1>1, <1>3, <1>4, <1>5, SessionMoves

LEMMA ConnectStep ==
  ASSUME NatInv, SessionInv, NEW c \in Clients,
         \/ AcceptSocket(c) \/ DetectObfuscator(c) \/ PeekClientHello(c)
         \/ DetectProbing(c) \/ IsRealityHandshake(c) \/ PerformFakeHandshake(c)
         \/ HandleProxy(c) \/ ProxyWithFallback(c) \/ TlsHandshake(c) \/ HandleHttp(c)
         \/ (\E r \in Requests : OpenCheck(c, r))
  PROVE  UNCHANGED natVars /\ SessionInv'
<1>0. asked \in [Clients -> Requests \cup {None}]
  BY DEF SessionInv, SessionTypeOK
<1>1. ASSUME NEW from \in Early \ {"checked", "none"}, NEW to \in Early \ {"checked"},
             Handshake(c, from, to)
      PROVE  UNCHANGED natVars /\ SessionInv'
  BY <1>0, <1>1, EarlyMoves DEF Handshake
<1>2. CASE AcceptSocket(c)
  BY <1>0, <1>2, EarlyMoves DEF AcceptSocket, Early, Handshakes
<1>3. ASSUME NEW r \in Requests, OpenCheck(c, r) PROVE UNCHANGED natVars /\ SessionInv'
  <2>1. asked' \in [Clients -> Requests \cup {None}] /\ UNCHANGED natVars
        /\ \A d \in Clients \ {c} : asked'[d] = asked[d]
    BY <1>0, <1>3 DEF OpenCheck
  <2>2. CASE GoTo(c, "checked") /\ asked' = [asked EXCEPT ![c] = r]
    BY <1>0, <1>3, <2>1, <2>2, EarlyMoves DEF OpenCheck, Early
  <2>3. CASE GoTo(c, "closed") /\ UNCHANGED asked
    BY <1>0, <1>3, <2>1, <2>3, EarlyMoves DEF OpenCheck, Early
  <2> QED BY <1>3, <2>2, <2>3 DEF OpenCheck
<1>4. CASE \/ DetectObfuscator(c) \/ PeekClientHello(c) \/ DetectProbing(c)
           \/ IsRealityHandshake(c) \/ PerformFakeHandshake(c) \/ HandleProxy(c)
           \/ ProxyWithFallback(c) \/ TlsHandshake(c) \/ HandleHttp(c)
  <2>1. PICK from \in Early \ {"checked", "none"}, to \in Early \ {"checked"} :
          Handshake(c, from, to)
    BY <1>4 DEF DetectObfuscator, PeekClientHello, DetectProbing, IsRealityHandshake,
       PerformFakeHandshake, HandleProxy, ProxyWithFallback, TlsHandshake, HandleHttp,
       Early, Handshakes
  <2> QED BY <1>1, <2>1
<1> QED BY <1>2, <1>3, <1>4

LEMMA RegisterStep ==
  ASSUME NatInv, SessionInv, NEW c \in Clients, OpenLock(c) \/ OpenAdd(c) \/ OpenInsert(c)
  PROVE  [NatNext]_natVars /\ SessionInv'
<1> USE DEF SessionInv, SessionTypeOK
<1>1. CASE OpenLock(c)
  <2>1. UNCHANGED <<natVars, client_to_mplx>>
    BY <1>1 DEF OpenLock, natVars
  <2>2. CASE MayOpen(c)
    <3>1. GoTo(c, "locked") /\ UNCHANGED asked /\ server_running /\ BeforeSweep
      BY <1>1, <2>2 DEF OpenLock, MayOpen, server_running, BeforeSweep
    <3>2. asked[c] \in Requests /\ client_to_mplx[c] = None
      BY <1>1 DEF OpenLock, AskedKnown, EntryHasOwner
    <3>3. "locked" \in Phases /\ "locked" \notin Listed /\ c \notin sessions
      BY <2>2 DEF Phases, Listed, MayOpen
    <3> QED BY <1>1, <2>1, <3>1, <3>2, <3>3, SessionMoves DEF OpenLock
  <2>3. CASE ~MayOpen(c)
    <3>1. GoTo(c, "closed") /\ asked' = [asked EXCEPT ![c] = None]
      BY <1>1, <2>3 DEF OpenLock
    <3>2. phase[c] \in Early /\ "closed" \in Early
      BY <1>1 DEF OpenLock, Early
    <3> QED BY <1>1, <2>1, <3>1, <3>2, EarlyMoves DEF OpenLock
  <2> QED BY <2>2, <2>3
<1>2. CASE OpenAdd(c)
  <2> DEFINE r == asked[c]
  <2>1. r \in Requests /\ AddConnection(c, r) /\ client_to_mplx[c] = None /\ BeforeSweep
    BY <1>2 DEF OpenAdd, AskedKnown, EntryHasOwner, SweepReaches
  <2>2. NatNext
    BY <2>1 DEF NatNext
  <2>3. /\ \A d \in Clients \ {c} : client_to_mplx'[d] = client_to_mplx[d]
        /\ RefusesConnection(c, r) => client_to_mplx' = client_to_mplx
    BY <2>1, RegistersOne DEF NatInv
  <2> DEFINE to == IF RefusesConnection(c, r) THEN "closed" ELSE "added"
  <2>4. GoTo(c, to) /\ asked' = [asked EXCEPT ![c] = None]
        /\ UNCHANGED <<posted, sessions, toClose, stop>>
    BY <1>2 DEF OpenAdd
  <2>5. /\ to \in Phases /\ to \notin Listed
        /\ to \notin {"checked", "locked", "accepting", "streaming"}
        /\ client_to_mplx'[c] # None => to \in Owning
    BY <2>1, <2>3 DEF Phases, Listed, Owning
  <2>6. server_running => c \notin sessions
    BY <1>2 DEF OpenAdd, SessionsListed
  <2> HIDE DEF to, r
  <2>7. SessionInv'
    BY <2>1, <2>3, <2>4, <2>5, <2>6, SessionMoves
  <2> QED BY <2>2, <2>7
<1>3. CASE OpenInsert(c)
  <2>1. UNCHANGED <<natVars, client_to_mplx, asked, posted, toClose, stop>>
        /\ GoTo(c, "accepting") /\ sessions' = sessions \cup {c}
    BY <1>3 DEF OpenInsert, natVars
  <2>2. BeforeSweep /\ "accepting" \in Phases /\ "accepting" \in Listed /\ "accepting" \in Owning
    BY <1>3 DEF OpenInsert, SweepReaches, Phases, Listed, Owning
  <2> QED BY <2>1, <2>2, SessionMoves
<1> QED BY <1>1, <1>2, <1>3

LEMMA CloseStep ==
  ASSUME NatInv, SessionInv, NEW c \in Clients,
         \/ AcceptDone(c) \/ TransportFails(c) \/ DoClose(c)
         \/ CloseCallback(c) \/ EraseSession(c) \/ CloseDelete(c)
  PROVE  [NatNext]_natVars /\ SessionInv'
<1> USE DEF SessionInv, SessionTypeOK
<1>1. CASE AcceptDone(c)
  <2>1. UNCHANGED <<natVars, client_to_mplx, asked, posted, sessions, toClose, stop>>
        /\ GoTo(c, "streaming")
    BY <1>1 DEF AcceptDone, natVars
  <2>2. "streaming" \in Phases /\ "streaming" \in Listed /\ "streaming" \in Owning
    BY DEF Phases, Listed, Owning
  <2>3. BeforeSweep /\ c \in sessions
    BY <1>1 DEF AcceptDone, SweepReaches
  <2> QED BY <2>1, <2>2, <2>3, SessionMoves
<1>2. CASE TransportFails(c) \/ DoClose(c)
  <2>1. UNCHANGED <<natVars, client_to_mplx, asked, sessions, toClose, stop>>
        /\ GoTo(c, "closing") /\ posted' = posted \ {c}
    BY <1>2 DEF TransportFails, DoClose, natVars
  <2>2. "closing" \in Phases /\ "closing" \in Listed /\ "closing" \in Owning
    BY DEF Phases, Listed, Owning
  <2>3. server_running => c \in sessions
    BY <1>2 DEF TransportFails, DoClose, SessionsListed
  <2> QED BY <2>1, <2>2, <2>3, SessionMoves
<1>3. CASE CloseCallback(c)
  <2> DEFINE to == IF server_running THEN "erasing" ELSE "deleting"
  <2>1. UNCHANGED <<natVars, client_to_mplx, asked, posted, sessions, toClose, stop>>
        /\ GoTo(c, to)
    BY <1>3 DEF CloseCallback, natVars
  <2>2. /\ to \in Phases /\ to \in Owning
        /\ server_running => to \in Listed
        /\ to \notin {"checked", "locked", "accepting", "streaming", "added"}
    BY DEF Phases, Owning, Listed
  <2>3. server_running => c \in sessions
    BY <1>3 DEF CloseCallback, SessionsListed
  <2> HIDE DEF to
  <2> QED BY <2>1, <2>2, <2>3, SessionMoves
<1>4. CASE EraseSession(c)
  <2>1. UNCHANGED <<natVars, client_to_mplx, asked, posted, toClose, stop>>
        /\ GoTo(c, "deleting") /\ sessions' = sessions \ {c}
    BY <1>4 DEF EraseSession, WithoutSession, natVars
  <2>2. "deleting" \in Phases /\ "deleting" \notin Listed /\ "deleting" \in Owning
    BY DEF Phases, Listed, Owning
  <2> QED BY <2>1, <2>2, SessionMoves
<1>5. CASE CloseDelete(c)
  <2>1. UNCHANGED <<asked, posted, sessions, toClose, stop>>
        /\ GoTo(c, "closed") /\ DeleteEntry(c)
    BY <1>5 DEF CloseDelete
  <2>2. /\ \A d \in Clients \ {c} : client_to_mplx'[d] = client_to_mplx[d]
        /\ client_to_mplx'[c] = None
    BY <2>1, DeletesOne DEF NatInv
  <2>3. "closed" \in Phases /\ "closed" \notin Listed
    BY DEF Phases, Listed
  <2>4. server_running => c \notin sessions
    BY <1>5 DEF CloseDelete, SessionsListed
  <2>5. [NatNext]_natVars
    BY <2>1 DEF DeleteEntry, NatNext
  <2> QED BY <2>1, <2>2, <2>3, <2>4, <2>5, SessionMoves
<1> QED BY <1>1, <1>2, <1>3, <1>4, <1>5
-----------------------------------------------------------------------------
(* The expiry thread, the clocks and Stop *)

\* A step that moves no session and registers nothing.
LEMMA SessionsStay ==
  ASSUME SessionInv, UNCHANGED <<phase, asked>>,
         posted \subseteq posted', posted' \subseteq Clients, toClose' \subseteq Clients,
         stop' \in StopSteps, BeforeSweep' => BeforeSweep, server_running' => server_running,
         \A c \in Clients : client_to_mplx'[c] # None => client_to_mplx[c] # None,
         sessions' = sessions \/ (sessions' = {} /\ ~BeforeSweep /\ ~server_running),
         BeforeSweep /\ ~BeforeSweep' =>
           \A c \in Clients : /\ phase[c] \notin {"locked", "added"}
                              /\ phase[c] \in {"accepting", "streaming"} => c \in posted'
  PROVE  SessionInv'
<1>1. SessionTypeOK'
  BY DEF SessionInv, SessionTypeOK
<1>2. AskedKnown' /\ EntryHasOwner'
  BY DEF SessionInv, AskedKnown, EntryHasOwner
<1>3. SessionsListed'
  BY DEF SessionInv, SessionsListed
<1>4. SweepReaches'
  <2>1. CASE BeforeSweep'
    BY <2>1 DEF SessionInv, SweepReaches
  <2>2. CASE ~BeforeSweep /\ ~BeforeSweep'
    BY <2>2 DEF SessionInv, SweepReaches
  <2>3. CASE BeforeSweep /\ ~BeforeSweep'
    <3>1. \A c \in Clients : /\ phase'[c] \notin {"locked", "added"}
                             /\ phase'[c] \in {"accepting", "streaming"} => c \in posted'
      BY <2>3
    <3> QED BY <2>3, <3>1 DEF SweepReaches
  <2> QED BY <2>1, <2>2, <2>3
<1> QED BY <1>1, <1>2, <1>3, <1>4 DEF SessionInv

LEMMA ExpiryStep ==
  ASSUME NatInv, SessionInv, Expiry \/ ClockTicks
  PROVE  [NatNext]_natVars /\ SessionInv'
<1> USE DEF SessionInv, SessionTypeOK
<1>1. CASE \E c \in Clients : CloseExpired(c)
  <2>1. /\ UNCHANGED <<natVars, client_to_mplx, phase, asked, sessions, stop>>
        /\ posted \subseteq posted' /\ posted' \subseteq Clients /\ toClose' \subseteq Clients
    BY <1>1 DEF CloseExpired, natVars
  <2> QED BY <2>1, SessionsStay DEF BeforeSweep, server_running
<1>2. CASE \/ \E second \in SUBSET Clients : StartUpdate(second)
           \/ ContinueUpdate \/ FinishUpdate \/ ClockTicks
  <2>1. /\ UpdateStep \/ ClockStep
        /\ UNCHANGED <<phase, asked, posted, sessions, stop>> /\ toClose' \subseteq Clients
    BY <1>2 DEF StartUpdate, ContinueUpdate, FinishUpdate, ClockTicks, UpdateStep, serverVars,
       NatInv, TypeOK
  <2>2. \A c \in Clients : client_to_mplx'[c] # None => client_to_mplx[c] # None
    BY <2>1, EntriesOnlyLeave DEF NatInv
  <2>3. NatNext
    BY <2>1 DEF NatNext
  <2> QED BY <2>1, <2>2, <2>3, SessionsStay DEF BeforeSweep, server_running
<1> QED BY <1>1, <1>2 DEF Expiry

LEMMA StopStepInv ==
  ASSUME NatInv, SessionInv, StopManager \/ Stopping \/ Stopped
  PROVE  UNCHANGED natVars /\ SessionInv'
<1> USE DEF SessionInv, SessionTypeOK, BeforeSweep, server_running, StopStep
<1>1. CASE StopSweep
  <2>1. /\ UNCHANGED <<natVars, client_to_mplx, phase, asked, sessions, toClose>>
        /\ posted' = posted \cup {c \in sessions : IsOpen(c)}
        /\ stop = "flagged" /\ stop' = "swept" /\ MutexFree
    BY <1>1 DEF StopSweep, natVars
  <2>2. \A c \in Clients : /\ phase[c] \notin {"locked", "added"}
                           /\ phase[c] \in {"accepting", "streaming"} => c \in posted'
    BY <2>1 DEF MutexFree, IsOpen, SweepReaches
  <2>3. "swept" \in StopSteps
    BY DEF StopSteps
  <2> QED BY <2>1, <2>2, <2>3, SessionsStay
<1>2. CASE StopManager \/ StopServer \/ StopIo \/ JoinIo \/ JoinExpiry
  <2>1. /\ UNCHANGED <<natVars, client_to_mplx, phase, asked, posted, sessions, toClose>>
        /\ <<stop, stop'>> \in {<<"no", "requested">>, <<"requested", "flagged">>,
                                <<"swept", "ioStopped">>, <<"ioStopped", "joined">>,
                                <<"cleared", "done">>}
    BY <1>2 DEF StopManager, StopServer, StopIo, JoinIo, JoinExpiry, natVars
  <2>2. stop' \in StopSteps
    BY <2>1 DEF StopSteps
  <2> QED BY <2>1, <2>2, SessionsStay
<1>3. CASE ClearSessions
  <2>1. /\ UNCHANGED <<natVars, client_to_mplx, phase, asked, posted, toClose>>
        /\ sessions' = {} /\ stop = "joined" /\ stop' = "cleared"
    BY <1>3 DEF ClearSessions, natVars
  <2>2. "cleared" \in StopSteps
    BY DEF StopSteps
  <2> QED BY <2>1, <2>2, SessionsStay
<1>4. CASE Stopped
  BY <1>4, SessionsStay DEF Stopped, vars, natVars, serverVars
<1> QED BY <1>1, <1>2, <1>3, <1>4 DEF Stopping

\* Every step of the server is a step of its NAT table or leaves it alone.
LEMMA ServerStep ==
  ASSUME NatInv, SessionInv, [ServerNext]_vars
  PROVE  [NatNext]_natVars /\ SessionInv'
<1>1. CASE \E c \in Clients : Turn(c) \/ Client(c)
  BY <1>1, ConnectStep, RegisterStep, CloseStep DEF Turn, Client
<1>2. CASE Expiry \/ ClockTicks
  BY <1>2, ExpiryStep
<1>3. CASE StopManager \/ Stopping \/ Stopped
  BY <1>3, StopStepInv
<1>4. CASE UNCHANGED vars
  <2>1. UNCHANGED <<natVars, client_to_mplx, phase, asked, posted, sessions, toClose, stop>>
    BY <1>4 DEF vars, natVars, serverVars
  <2>2. stop' \in StopSteps /\ posted' \subseteq Clients /\ toClose' \subseteq Clients
    BY <2>1 DEF SessionInv, SessionTypeOK
  <2> QED BY <2>1, <2>2, SessionsStay DEF BeforeSweep, server_running
<1> QED BY <1>1, <1>2, <1>3, <1>4 DEF ServerNext
-----------------------------------------------------------------------------
(* The theorems *)

\* The inductive invariant of the server and its NAT table.
THEOREM ServerInvariant == ServerSpec => [](NatInv /\ SessionInv)
<1>1. NatInv /\ SessionInv /\ [ServerNext]_vars => (NatInv /\ SessionInv)'
  BY ServerStep, StepInv
<1> QED BY <1>1, ServerInitInv, PTL DEF ServerSpec

\* The sessions, the expiry thread and Stop drive the table as module NatTable
\* says, so that what is proved of the table holds in the server.
THEOREM DrivesNatTable == ServerSpec => NatSpec
<1>1. NatInv /\ SessionInv /\ [ServerNext]_vars => [NatNext]_natVars
  BY ServerStep
<1>2. ServerInit => NatInit
  BY DEF ServerInit
<1> QED BY <1>1, <1>2, ServerInvariant, PTL DEF ServerSpec, NatSpec

\* The NAT table, sessions_ and the sessions agree whichever of expiry, peer
\* and Stop closes a session (server.cpp:287-335).
THEOREM RegistrationsStayInStep == ServerSpec => []RegistrationsAgree
<1>1. NatInv /\ SessionInv => RegistrationsAgree
  BY DEF NatInv, SessionInv, SessionTypeOK, RegistrationsAgree, ServerTypeOK
<1> QED BY <1>1, ServerInvariant, PTL

\* Once Stop has swept sessions_ no session is open, even one that was past
\* the first running_ check when Stop began (server.cpp:288).
THEOREM SweepClosesAll == ServerSpec => []NoneOpenAfterSweep
<1>1. SessionInv => NoneOpenAfterSweep
  BY DEF SessionInv, SweepReaches, BeforeSweep, NoneOpenAfterSweep, IsOpen
<1> QED BY <1>1, ServerInvariant, PTL
=============================================================================
