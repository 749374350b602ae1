----------------------------- MODULE WebTraffic -----------------------------
(***************************************************************************)
(* What the web sessions of a server exchange with the other side: with a  *)
(* client the packets that come for it, module PacketPath; with whoever    *)
(* only looks, and with a client in Reality mode before its handshake, the *)
(* answer of another site, module HandshakeCache.  The two share nothing:  *)
(* a behaviour is one of the one or one of the other.                      *)
(***************************************************************************)
EXTENDS PacketPath, HandshakeCache

CONSTANT Halves    \* what is looked at: "packets", "answers"

VARIABLE half

trafficVars == <<half, vars, cacheVars>>

TrafficInit == half \in Halves /\ PathInit /\ CacheInit

TrafficNext ==
  /\ UNCHANGED half
  /\ \/ half = "packets" /\ PathNext /\ UNCHANGED cacheVars
     \/ half = "answers" /\ CacheNext /\ UNCHANGED vars

SenderTurn(c) == half = "packets" /\ RunSender(c) /\ UNCHANGED <<half, cacheVars>>

\* The fairness of FairPathSpec.
TrafficSpec ==
  /\ TrafficInit /\ [][TrafficNext]_trafficVars
  /\ \A c \in Clients : WF_trafficVars(SenderTurn(c))
=============================================================================
