---------------------------- MODULE AddressLease ----------------------------
(***************************************************************************)
(* What the NAT table promises the rest of the server, with no maps, free  *)
(* lists, multiplexers or locks: a session leases one fake IPv4 and one    *)
(* fake IPv6 address, nobody else holds either of them meanwhile, and the  *)
(* lease ends only when the session has no member connection left.         *)
(***************************************************************************)
CONSTANTS Clients, Sessions, Ipv4, Ipv6, None

VARIABLES
  lease,    \* session -> the address pair it leases, or None
  members   \* session -> its member connections

leaseVars == <<lease, members>>

Init ==
  /\ lease = [s \in Sessions |-> None]
  /\ members = [s \in Sessions |-> {}]

Holds4(s, a) == lease[s] # None /\ lease[s][1] = a
Holds6(s, b) == lease[s] # None /\ lease[s][2] = b

\* A first connection leases a pair that no session holds.
Acquire(s, c, a, b) ==
  /\ lease[s] = None
  /\ \A t \in Sessions : ~Holds4(t, a) /\ ~Holds6(t, b)
  /\ lease' = [lease EXCEPT ![s] = <<a, b>>]
  /\ members' = [members EXCEPT ![s] = {c}]

Join(s, c) ==
  /\ lease[s] # None
  /\ members' = [members EXCEPT ![s] = @ \cup {c}]
  /\ UNCHANGED lease

\* Members leave; a session left with none may give its pair back at once,
\* later, or not at all if another member joins first.
Leave ==
  /\ members' \in [Sessions -> SUBSET Clients]
  /\ \A s \in Sessions : members'[s] \subseteq members[s]
  /\ lease' = [s \in Sessions |-> lease'[s]]
  /\ \A s \in Sessions : \/ lease'[s] = lease[s]
                         \/ lease'[s] = None /\ members'[s] = {}

Next ==
  \/ \E s \in Sessions, c \in Clients, a \in Ipv4, b \in Ipv6 : Acquire(s, c, a, b)
  \/ \E s \in Sessions, c \in Clients : Join(s, c)
  \/ Leave

Spec == Init /\ [][Next]_leaseVars
=============================================================================
