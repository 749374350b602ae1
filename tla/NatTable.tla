------------------------------ MODULE NatTable ------------------------------
(***************************************************************************)
(* The server's NAT table: fptn-server/nat/table.cpp with the session      *)
(* multiplexers (connection_multiplexer.cpp) and the physical connections  *)
(* (client_connection.cpp) it owns.                                        *)
(*                                                                         *)
(* A logical session (session_id) owns one fake IPv4 and one fake IPv6     *)
(* address and a multiplexer that groups the physical connections of the   *)
(* session into a sending and a receiving bucket.  Every public method of  *)
(* the table runs under its mutex and is one step, except                  *)
(* UpdateConnectionsStatus, which drops the shared lock between collecting *)
(* the expired connections and releasing what they leave behind.           *)
(*                                                                         *)
(* A client id is a per-process counter (web/session/session.cpp), so an   *)
(* id is registered at most once; a multiplexer object is named by the     *)
(* client id whose AddConnection created it.  Time is two sets: the        *)
(* connections whose send window, and whose ttl, has passed.  The clock    *)
(* may move between two reads of it made by the same call.                 *)
(***************************************************************************)
EXTENDS Naturals

CONSTANTS
  Clients,    \* client ids, and so also the names of multiplexers
  Sessions,   \* session ids clients may ask for
  Users,      \* user names a token may carry
  Requests,   \* the connect requests that arrive
  Ipv4,       \* fake IPv4 addresses (network, broadcast and tun excluded)
  Ipv6,       \* fake IPv6 addresses
  None        \* a null pointer, or an absent key

\* sends: send_duration_ms # 0; expires: ttl_ms # 0.
Request == [session_id : Sessions, username : Users,
            sends : BOOLEAN, expires : BOOLEAN]

ASSUME NatAssumption ==
  /\ Requests \subseteq Request
  /\ None \notin Clients /\ None \notin Requests
  /\ None \notin Ipv4 /\ None \notin Ipv6 /\ None \notin Ipv4 \X Ipv6

VARIABLES
  request,          \* what each client id asked for, None if not yet used
  session_to_mplx, client_to_mplx, ipv4_to_mplx, ipv6_to_mplx,
  free_ipv4,        \* copies of each address in the free list
  free_ipv6,
  fake_ipv4,        \* the address pair of each multiplexer object
  fake_ipv6,
  sending,          \* the two buckets of each multiplexer object
  receiving,
  sendPast,         \* connections whose send window has passed
  ttlPast,          \* connections whose ttl has passed
  update,           \* where UpdateConnectionsStatus is
  expired, emptied  \* its local vectors

maps    == <<session_to_mplx, client_to_mplx, ipv4_to_mplx, ipv6_to_mplx>>
pool    == <<free_ipv4, free_ipv6>>
fakes   == <<fake_ipv4, fake_ipv6>>
buckets == <<sending, receiving>>
clock   == <<sendPast, ttlPast>>
updater == <<update, expired, emptied>>
natVars == <<request, session_to_mplx, client_to_mplx, ipv4_to_mplx,
             ipv6_to_mplx, free_ipv4, free_ipv6, fake_ipv4, fake_ipv6,
             sending, receiving, sendPast, ttlPast, update, expired, emptied>>

-----------------------------------------------------------------------------
(* ClientConnection *)

IsBidirectional(r) == ~r.sends /\ ~r.expires

\* past is the set of connections whose send window is over at the read.
IsSending(r, c, past)   == IsBidirectional(r) \/ c \notin past
IsReceiving(r, c, past) == IsBidirectional(r) \/ c \in past

\* Defect: only a connection with a send window expires.
IsExpiredSender(c) == request[c].expires /\ request[c].sends /\ c \in ttlPast

IsExpired(c) == request[c].expires /\ c \in ttlPast

(* ConnectionMultiplexer *)

UserName(m)    == request[m].username
SessionId(m)   == request[m].session_id
Connections(m) == sending[m] \cup receiving[m]
Empty(m)       == Connections(m) = {}

\* Defect: the two clock reads in the opposite order.
PlaceByRoleSwapped(c, r, m, first, second) ==
  /\ sending' = [sending EXCEPT ![m] = @ \cup {x \in {c} : IsSending(r, x, second)}]
  /\ receiving' = [receiving EXCEPT ![m] = @ \cup {x \in {c} : IsReceiving(r, x, first)}]

\* PlaceByRole asks IsSending first and IsReceiving second; each reads the
\* clock for itself.
PlaceByRole(c, r, m, first, second) ==
  /\ sending' = IF IsSending(r, c, first)
                  THEN [sending EXCEPT ![m] = @ \cup {c}] ELSE sending
  /\ receiving' = IF IsReceiving(r, c, second)
                    THEN [receiving EXCEPT ![m] = @ \cup {c}] ELSE receiving

\* A send window of no length is over when the connection is accepted; any
\* other one may end between the two reads.
AcceptAndPlace(c, r, m) ==
  LET first == IF r.sends THEN sendPast ELSE sendPast \cup {c}
  IN  \E second \in {first, sendPast \cup {c}} :
        /\ PlaceByRole(c, r, m, first, second)
        /\ sendPast' = second

-----------------------------------------------------------------------------
(* Table *)

\* The mutex is free for AddConnection, DelConnectionByClientId and lookups.
Unlocked == update # "releasing"

\* std::unordered_map::insert leaves an existing entry alone.
Insert(map, key, m) == IF map[key] = None THEN [map EXCEPT ![key] = m] ELSE map

Registered(m) == \E s \in Sessions : session_to_mplx[s] = m

MayJoin(m, r) == UserName(m) = r.username

\* Join an existing session.
AddToSession(c, r) ==
  LET m == session_to_mplx[r.session_id]
  IN  /\ m # None
      /\ MayJoin(m, r)
      /\ c \notin Connections(m)
      /\ AcceptAndPlace(c, r, m)
      /\ client_to_mplx' = Insert(client_to_mplx, c, m)
      /\ request' = [request EXCEPT ![c] = r]
      /\ UNCHANGED <<session_to_mplx, ipv4_to_mplx, ipv6_to_mplx, ttlPast,
                     pool, fakes, updater>>

PopAddresses(a, b) ==
  /\ free_ipv4[a] > 0 /\ free_ipv6[b] > 0
  /\ free_ipv4' = [free_ipv4 EXCEPT ![a] = @ - 1]
  /\ free_ipv6' = [free_ipv6 EXCEPT ![b] = @ - 1]

\* A new multiplexer, with an address pair popped from the free lists.
AddNewSession(c, r, a, b) ==
  /\ session_to_mplx[r.session_id] = None
  /\ PopAddresses(a, b)
  /\ fake_ipv4' = [fake_ipv4 EXCEPT ![c] = a]
  /\ fake_ipv6' = [fake_ipv6 EXCEPT ![c] = b]
  /\ AcceptAndPlace(c, r, c)
  /\ session_to_mplx' = Insert(session_to_mplx, r.session_id, c)
  /\ ipv4_to_mplx' = Insert(ipv4_to_mplx, a, c)
  /\ ipv6_to_mplx' = Insert(ipv6_to_mplx, b, c)
  /\ client_to_mplx' = Insert(client_to_mplx, c, c)
  /\ request' = [request EXCEPT ![c] = r]
  /\ UNCHANGED <<ttlPast, updater>>

NoFreeAddress == (\A a \in Ipv4 : free_ipv4[a] = 0)
                   \/ (\A b \in Ipv6 : free_ipv6[b] = 0)

\* AddConnection returns nullptr: the session is another user's, the client
\* id is already in it, or the address pool is exhausted.
RefusesConnection(c, r) ==
  LET m == session_to_mplx[r.session_id]
  IN  \/ m # None /\ UserName(m) # r.username
      \/ m # None /\ c \in Connections(m)
      \/ m = None /\ NoFreeAddress

RefuseConnection(c, r) ==
  /\ RefusesConnection(c, r)
  /\ request' = [request EXCEPT ![c] = r]
  /\ UNCHANGED <<maps, pool, fakes, buckets, clock, updater>>

Fresh(c) == request[c] = None

Accept(c, r) ==
  \/ AddToSession(c, r)
  \/ \E a \in Ipv4, b \in Ipv6 : AddNewSession(c, r, a, b)

AddConnection(c, r) ==
  /\ Unlocked
  /\ Fresh(c)
  /\ Accept(c, r) \/ RefuseConnection(c, r)

\* Defects: only the session id is looked up, or only the pointer compared.
MayReleaseStale(m, empty) == empty /\ session_to_mplx[SessionId(m)] # None
MayReleaseBusy(m, empty)  == session_to_mplx[SessionId(m)] = m

\* empty: the buckets of m hold nothing when the call is made.  The pointer
\* comparison recognises a session id that now names another multiplexer.
MayRelease(m, empty) == empty /\ session_to_mplx[SessionId(m)] = m

ReleaseSessionIfEmpty(m, empty) ==
  IF MayRelease(m, empty)
  THEN /\ free_ipv4' = [free_ipv4 EXCEPT ![fake_ipv4[m]] = @ + 1]
       /\ free_ipv6' = [free_ipv6 EXCEPT ![fake_ipv6[m]] = @ + 1]
       /\ ipv4_to_mplx' = [ipv4_to_mplx EXCEPT ![fake_ipv4[m]] = None]
       /\ ipv6_to_mplx' = [ipv6_to_mplx EXCEPT ![fake_ipv6[m]] = None]
       /\ session_to_mplx' = [session_to_mplx EXCEPT ![SessionId(m)] = None]
  ELSE UNCHANGED <<pool, session_to_mplx, ipv4_to_mplx, ipv6_to_mplx>>

DelConnectionByClientId(c) ==
  LET m == client_to_mplx[c]
  IN  /\ Unlocked
      /\ m # None
      /\ client_to_mplx' = [client_to_mplx EXCEPT ![c] = None]
      /\ sending' = [sending EXCEPT ![m] = @ \ {c}]
      /\ receiving' = [receiving EXCEPT ![m] = @ \ {c}]
      /\ ReleaseSessionIfEmpty(m, Connections(m) \ {c} = {})
      /\ UNCHANGED <<request, fakes, clock, updater>>

\* Defects: expired connections stay; emptiness is read before the re-sort.
KeptAll(m, dead) == Connections(m)
LeftEmptyBefore(snd, rcv) == {m \in Clients : Registered(m) /\ Empty(m)}

Kept(m, dead) == Connections(m) \ dead
LeftEmpty(snd, rcv) == {m \in Clients : Registered(m) /\ snd[m] \cup rcv[m] = {}}

\* UpdateConnectionsStatus, first half (shared lock): every registered
\* multiplexer drops its expired connections and re-sorts the others.
\* second is the clock at the last IsReceiving read.
CollectExpired(second) ==
  LET all == UNION {Connections(m) : m \in {n \in Clients : Registered(n)}}
      dead == {c \in all : IsExpired(c)}
  IN  /\ update = "idle"
      /\ sendPast \subseteq second
      /\ second \subseteq sendPast \cup all
      /\ sendPast' = second
      /\ sending' = [m \in Clients |-> IF Registered(m)
                       THEN {c \in Kept(m, dead) : IsSending(request[c], c, sendPast)}
                       ELSE sending[m]]
      /\ receiving' = [m \in Clients |-> IF Registered(m)
                       THEN {c \in Kept(m, dead) : IsReceiving(request[c], c, second)}
                       ELSE receiving[m]]
      /\ expired' = dead
      /\ emptied' = LeftEmpty(sending', receiving')
      /\ update' = IF expired' = {} /\ emptied' = {} THEN "idle" ELSE "collected"
      /\ UNCHANGED <<request, maps, pool, fakes, ttlPast>>

\* Second half (unique lock held until UpdateReturns).
EraseExpired ==
  /\ update = "collected"
  /\ update' = "releasing"
  /\ client_to_mplx' = [c \in Clients |->
                          IF c \in expired THEN None ELSE client_to_mplx[c]]
  /\ UNCHANGED <<request, session_to_mplx, ipv4_to_mplx, ipv6_to_mplx, pool,
                 fakes, buckets, clock, expired, emptied>>

ReleaseEmptied(m) ==
  /\ update = "releasing"
  /\ m \in emptied
  /\ ReleaseSessionIfEmpty(m, Empty(m))
  /\ emptied' = emptied \ {m}
  /\ UNCHANGED <<request, client_to_mplx, fakes, buckets, clock, update, expired>>

UpdateReturns ==
  /\ update = "releasing"
  /\ emptied = {}
  /\ update' = "idle"
  /\ expired' = {}
  /\ UNCHANGED <<request, maps, pool, fakes, buckets, clock, emptied>>

(* The clock *)

Placed(c) == \E m \in Clients : c \in Connections(m)

SendWindowEnds(c) ==
  /\ Placed(c) /\ c \notin sendPast
  /\ sendPast' = sendPast \cup {c}
  /\ UNCHANGED <<request, maps, pool, fakes, buckets, ttlPast, updater>>

TtlEnds(c) ==
  /\ Placed(c) /\ request[c].expires /\ c \notin ttlPast
  /\ ttlPast' = ttlPast \cup {c}
  /\ UNCHANGED <<request, maps, pool, fakes, buckets, sendPast, updater>>

-----------------------------------------------------------------------------
NatInit ==
  /\ request = [c \in Clients |-> None]
  /\ session_to_mplx = [s \in Sessions |-> None]
  /\ client_to_mplx = [c \in Clients |-> None]
  /\ ipv4_to_mplx = [a \in Ipv4 |-> None]
  /\ ipv6_to_mplx = [b \in Ipv6 |-> None]
  /\ free_ipv4 = [a \in Ipv4 |-> 1]
  /\ free_ipv6 = [b \in Ipv6 |-> 1]
  /\ fake_ipv4 = [m \in Clients |-> None]
  /\ fake_ipv6 = [m \in Clients |-> None]
  /\ sending = [m \in Clients |-> {}]
  /\ receiving = [m \in Clients |-> {}]
  /\ sendPast = {} /\ ttlPast = {}
  /\ update = "idle" /\ expired = {} /\ emptied = {}

UpdateStep ==
  \/ \E second \in SUBSET Clients : CollectExpired(second)
  \/ EraseExpired
  \/ \E m \in Clients : ReleaseEmptied(m)
  \/ UpdateReturns

ClockStep == \E c \in Clients : SendWindowEnds(c) \/ TtlEnds(c)

NatNext ==
  \/ \E c \in Clients, r \in Requests : AddConnection(c, r)
  \/ \E c \in Clients : DelConnectionByClientId(c)
  \/ UpdateStep
  \/ ClockStep

NatSpec == NatInit /\ [][NatNext]_natVars

-----------------------------------------------------------------------------
(* Properties *)

TypeOK ==
  /\ request \in [Clients -> Requests \cup {None}]
  /\ session_to_mplx \in [Sessions -> Clients \cup {None}]
  /\ client_to_mplx \in [Clients -> Clients \cup {None}]
  /\ ipv4_to_mplx \in [Ipv4 -> Clients \cup {None}]
  /\ ipv6_to_mplx \in [Ipv6 -> Clients \cup {None}]
  /\ free_ipv4 \in [Ipv4 -> Nat] /\ free_ipv6 \in [Ipv6 -> Nat]
  /\ fake_ipv4 \in [Clients -> Ipv4 \cup {None}]
  /\ fake_ipv6 \in [Clients -> Ipv6 \cup {None}]
  /\ sending \in [Clients -> SUBSET Clients]
  /\ receiving \in [Clients -> SUBSET Clients]
  /\ sendPast \subseteq Clients /\ ttlPast \subseteq Clients
  /\ update \in {"idle", "collected", "releasing"}
  /\ expired \subseteq Clients /\ emptied \subseteq Clients

\* Every address is either once in its free list or leased to one session,
\* across the window in which a session emptied by UpdateConnectionsStatus
\* may be joined, deleted or recreated before it is released (table.cpp:184).
AddressesConserved ==
  /\ \A a \in Ipv4 : free_ipv4[a] = IF ipv4_to_mplx[a] = None THEN 1 ELSE 0
  /\ \A b \in Ipv6 : free_ipv6[b] = IF ipv6_to_mplx[b] = None THEN 1 ELSE 0

\* The session map and the two address maps name the same multiplexers, each
\* under its own session id and its own addresses, so a packet for a fake
\* address reaches the session that leases it.
MapsAgree ==
  /\ \A s \in Sessions :
       LET m == session_to_mplx[s]
       IN  m # None => /\ request[m] # None /\ SessionId(m) = s
                       /\ fake_ipv4[m] # None /\ ipv4_to_mplx[fake_ipv4[m]] = m
                       /\ fake_ipv6[m] # None /\ ipv6_to_mplx[fake_ipv6[m]] = m
  /\ \A a \in Ipv4 :
       LET m == ipv4_to_mplx[a] IN m # None => Registered(m) /\ fake_ipv4[m] = a
  /\ \A b \in Ipv6 :
       LET m == ipv6_to_mplx[b] IN m # None => Registered(m) /\ fake_ipv6[m] = b

\* A client id the table knows is in a bucket of a registered multiplexer,
\* unless UpdateConnectionsStatus has just dropped it; in particular the two
\* clock reads of PlaceByRole never leave a connection in neither bucket.
ClientsPlaced ==
  \A c \in Clients :
    LET m == client_to_mplx[c]
    IN  m # None => \/ Registered(m) /\ c \in Connections(m)
                    \/ update = "collected" /\ c \in expired

\* Whatever is in a bucket can be found and deleted: its multiplexer is
\* registered and its client id maps to that multiplexer.
BucketsReachable ==
  \A m \in Clients : \A c \in Connections(m) :
    Registered(m) /\ client_to_mplx[c] = m

\* A multiplexer carries connections of one session and of one user only.
OneUserPerSession ==
  \A m \in Clients : \A c \in Connections(m) :
    /\ request[m] # None /\ request[c] # None
    /\ request[c].session_id = SessionId(m)
    /\ request[c].username = UserName(m)

\* A registered session without connections is one that the running
\* UpdateConnectionsStatus is about to release: no address is leaked.
EmptySessionsPending ==
  \A m \in Clients : Registered(m) /\ Empty(m) => m \in emptied

\* What UpdateConnectionsStatus has collected stays out of the buckets until
\* it is erased, and was known to the table before.
ExpiredUnplaced ==
  /\ \A c \in expired : request[c] # None /\ ~Placed(c)
  /\ \A m \in emptied : request[m] # None
  /\ \A c \in Clients : client_to_mplx[c] # None =>
       request[c] # None /\ request[client_to_mplx[c]] # None

\* The three maps, the buckets and the running update tell one story: what the
\* maps name exists, what exists can be found, and nothing is leaked between
\* the steps of UpdateConnectionsStatus (table.cpp:147-209); nor does another
\* user's connection get into a session (table.cpp:53).
TableConsistent ==
  /\ TypeOK /\ MapsAgree /\ BucketsReachable /\ OneUserPerSession
  /\ EmptySessionsPending /\ ExpiredUnplaced

\* The inductive invariant of the table.
NatInv ==
  /\ TypeOK
  /\ AddressesConserved
  /\ MapsAgree
  /\ ClientsPlaced
  /\ BucketsReachable
  /\ OneUserPerSession
  /\ EmptySessionsPending
  /\ ExpiredUnplaced

\* The table implements the lease abstraction: a session's lease is the pair
\* of its multiplexer, its members the connections that asked for the session
\* and are in any bucket, of a registered multiplexer or not.
leaseOf == [s \in Sessions |-> LET m == session_to_mplx[s]
              IN IF m = None THEN None ELSE <<fake_ipv4[m], fake_ipv6[m]>>]
membersOf == [s \in Sessions |->
                {c \in Clients : Placed(c) /\ request[c].session_id = s}]
Lease == INSTANCE AddressLease WITH lease <- leaseOf, members <- membersOf
LeaseSpec == Lease!Spec
=============================================================================
