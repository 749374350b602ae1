------------------------------ MODULE Transport ------------------------------
(***************************************************************************)
(* What a connection manager drives (connection_manager.cpp:276-297): the  *)
(* strategy of the settings is chosen once, and runs until it is dropped.  *)
(* The instances give the strategies their template arguments.  "client"   *)
(* is one of their connections on its own: the pools see of it IsStarted   *)
(* and IsStopped, in the tunnels' up and the mimicry's up.                 *)
(***************************************************************************)
EXTENDS Naturals, FiniteSets

CONSTANTS
  Kinds,        \* the strategies of a run
  Lifetime, Lead, ConnectMax, RollingIds,       \* rolling tunnels
  Stagger1, Stagger2,
  PerType, MaxPool, Ttls, SendTimes, MinSending, MimicryLead, MimicryMax,
  MimicryIds,                                   \* browser mimicry
  MaxFailed, MaxLost, MaxQueue

ASSUME KindsAssumption == Kinds \subseteq {"single", "dual", "triple", "mimicry", "client"}

VARIABLES
  kind,         \* connection_strategy of the configuration
  running, pool, closing, open, managed, failed, lost,     \* every pool
  repair, since,                                           \* rolling tunnels
  senders, receivers, making, told,                        \* browser mimicry
  flags, torn, stopper, posted, phase, reader, sender, watchdog, queue, link,
  held, driven, gone                                       \* one client

poolVars    == <<running, pool, closing, open, managed, failed, lost>>
tunnelVars  == <<repair, since>>
browserVars == <<senders, receivers, making, told>>
clientVars  == <<flags, torn, stopper, posted, phase, reader, sender, watchdog,
                 queue, link, held, driven, gone>>
vars == <<kind, poolVars, tunnelVars, browserVars, clientVars>>

\* The template arguments of the rolling tunnels.
Tunnels   == {"single", "dual", "triple"}
CountOf   == [single |-> 1, dual |-> 2, triple |-> 3]
StaggerOf == [single |-> Stagger1, dual |-> Stagger2, triple |-> Stagger2]

Tunnel(t) == INSTANCE RollingTunnel
               WITH Count <- CountOf[t], Stagger <- StaggerOf[t], Ids <- RollingIds
Mimicry == INSTANCE BrowserMimicry
             WITH Lead <- MimicryLead, ConnectMax <- MimicryMax, Ids <- MimicryIds
Client == INSTANCE WebsocketClient

ASSUME TunnelsAssumption ==
  \A t \in Tunnels : Tunnel(t)!TunnelAssumption /\ Tunnel(t)!DurationsFit

ASSUME PartsAssumption == Mimicry!MimicryAssumption /\ Client!QueueAssumption

\* That replacements come in time rests on how long leads and lives are.
ASSUME TimesAssumption == (\A t \in Tunnels : Tunnel(t)!LeadFits) /\ Mimicry!LivesFit

-----------------------------------------------------------------------------
NoPool    == /\ running = FALSE /\ pool = {} /\ closing = {} /\ open = {}
             /\ managed = FALSE /\ failed = 0 /\ lost = 0
NoTunnel  == since = 0 /\ \A t \in Tunnels : repair = Tunnel(t)!NoRepair
NoBrowser == senders = {} /\ receivers = {} /\ making = Mimicry!Idle /\ told = FALSE
NoClient  == Client!ClientInit

Init ==
  /\ kind \in Kinds
  /\ \/ (\E t \in Tunnels : kind = t /\ Tunnel(t)!Init) /\ NoBrowser /\ NoClient
     \/ kind = "mimicry" /\ Mimicry!MimicryInit /\ NoTunnel /\ NoClient
     \/ kind = "client" /\ Client!ClientInit /\ NoPool /\ NoTunnel /\ NoBrowser

OfTunnel  == UNCHANGED <<kind, browserVars, clientVars>>
OfMimicry == UNCHANGED <<kind, tunnelVars, clientVars>>
OfClient  == UNCHANGED <<kind, poolVars, tunnelVars, browserVars>>

Next ==
  \/ (\E t \in Tunnels : kind = t /\ Tunnel(t)!Next) /\ OfTunnel
  \/ kind = "mimicry" /\ Mimicry!MimicryNext /\ OfMimicry
  \/ kind = "client" /\ Client!ClientNext /\ OfClient

\* The coroutines of the chosen strategy, each as a part that gets its turns.
Manages ==
  \/ (\E t \in Tunnels : kind = t /\ Tunnel(t)!Manage) /\ OfTunnel
  \/ kind = "mimicry" /\ Mimicry!Manage /\ OfMimicry

Connects ==
  \/ /\ \E t \in Tunnels : kind = t /\ (Tunnel(t)!RepairChecks \/ Tunnel(t)!RepairFails)
     /\ OfTunnel
  \/ kind = "mimicry" /\ Mimicry!MakeStep /\ OfMimicry
  \/ kind = "client" /\ Client!ConnectStep /\ OfClient

Places ==
  \/ (\E t \in Tunnels : kind = t /\ Tunnel(t)!RepairPlaces) /\ OfTunnel
  \/ kind = "mimicry" /\ Mimicry!EnterPool /\ OfMimicry

Closes ==
  \/ (\E t \in Tunnels, id \in RollingIds : kind = t /\ Tunnel(t)!CloseClient(id)) /\ OfTunnel
  \/ (\E id \in MimicryIds : kind = "mimicry" /\ Mimicry!CloseClient(id)) /\ OfMimicry

TimePasses ==
  \/ (\E t \in Tunnels : kind = t /\ Tunnel(t)!Tick) /\ OfTunnel
  \/ kind = "mimicry" /\ Mimicry!Tick /\ OfMimicry

ClientTurn(Part) == kind = "client" /\ Part /\ OfClient

Spec == Init /\ [][Next]_vars

\* The event loop gives every coroutine and timer its turns, and time passes.
\* Nobody has to stop anything, and no connection has to fail or to be lost.
FairSpec ==
  /\ Spec
  /\ WF_vars(Manages) /\ WF_vars(Connects) /\ WF_vars(Places) /\ WF_vars(Closes)
  /\ WF_vars(TimePasses)
  /\ WF_vars(ClientTurn(Client!PostTeardown)) /\ WF_vars(ClientTurn(Client!Teardown))
  /\ WF_vars(ClientTurn(Client!ReaderTurn)) /\ WF_vars(ClientTurn(Client!SenderTurn))
  /\ WF_vars(ClientTurn(Client!WatchdogFires)) /\ WF_vars(ClientTurn(Client!Destroy))
-----------------------------------------------------------------------------
(* Properties *)

\* Every variable has its type, for the strategy that was chosen.
TransportTypeOK ==
  /\ \A t \in Tunnels : kind = t => Tunnel(t)!TypeOK
  /\ kind = "mimicry" => Mimicry!MimicryTypeOK
  /\ kind = "client" => Client!ClientTypeOK

\* Every open connection is in the pool, about to enter it, or waiting for its
\* closing coroutine: none is leaked by a replacement, a loss, or a Stop that
\* comes in the middle of one (rolling_tunnel.h:301-335,
\* browser_mimicry.cpp:235-248, 339-347).
OpenAreOwned ==
  /\ TransportTypeOK
  /\ \A t \in Tunnels : kind = t => Tunnel(t)!OpenAreOwned
  /\ kind = "mimicry" => Mimicry!PoolOwnsOpen

\* The deadlines of a rolling tunnel stay apart, and no connection gets so
\* short a life that it is due for replacement at once
\* (rolling_tunnel.h:345-346, 376-390).
DeadlinesApart ==
  \A t \in Tunnels : kind = t => Tunnel(t)!LivesLongEnough /\ Tunnel(t)!ClosesOneAtATime

\* A connection that is started is served: Send draws only from connections
\* that are in the pool with the list's status (browser_mimicry.cpp:226-229,
\* 272-290), and a client that says it is started has both its coroutines
\* (websocket_client.cpp:643, 709).
StartedIsServed ==
  /\ kind = "mimicry" => Mimicry!ListsFollowPool
  /\ kind = "client" => Client!StartedIsServed

\* Deadlines alone never cut the traffic (rolling_tunnel.h:149-154,
\* browser_mimicry.cpp:300-330).
NoGap ==
  [][ /\ \A t \in Tunnels : kind = t => Tunnel(t)!KeepsOne
      /\ kind = "mimicry" => Mimicry!KeepsSendPool ]_vars

\* Liveness: a strategy that is not stopped gets over losses and failed
\* starts: a tunnel fills up again (rolling_tunnel.h:244-295), and a mimicry
\* pool has again a connection that carries (browser_mimicry.cpp:213-350).
PoolFills ==
  (kind # "client" /\ running)
    ~> \/ ~running
       \/ \E t \in Tunnels : kind = t /\ Cardinality(Tunnel(t)!Healthy) = CountOf[t]
       \/ kind = "mimicry" /\ Mimicry!Carries

\* Liveness: a client that its strategy lets go of is destroyed, whenever its
\* Stop came: before it was initialised, while the sender waited for a packet,
\* or after the event loop ended (websocket_client.cpp:147-156, 161-265); and
\* one whose connection is lost notices it, so that its pool can replace it
\* (websocket_client.cpp:785-809).
ClientEnds == Client!ReleasedIsFreed /\ Client!LossStops
=============================================================================
