------------------------- MODULE RouteManagerProofs -------------------------
(***************************************************************************)
(* Theorems about the route manager, for any sets of workers, callers,     *)
(* addresses, networks and name servers and any number of crashes: its     *)
(* type, that what is noted is routed, and that Clean gives everything     *)
(* back but the routes raced with.                                         *)
(***************************************************************************)
EXTENDS RouteManager, TLAPS

Holding(w) == worker[w] \in {"popped", "checked", "located", "adding", "failed"}
InHand(w)  == worker[w] \in {"adding", "failed"}
Owns(k)    == caller[k] \in {"applying", "deleting"}

\* Apply has configured the system and no Clean has given it back yet.
SettingsTaken ==
  \/ running /\ \A k \in Callers : caller[k] # "applying"
  \/ \E k \in Callers : caller[k] = "deleting"

\* mutex_ has one owner; what the owner knows holds until it lets go.
OwnerKnows ==
  /\ \A k, j \in Callers : Owns(k) /\ Owns(j) => k = j
  /\ \A k \in Callers :
       /\ caller[k] = "applying" => running
       /\ caller[k] = "deleting" => ~running /\ tracked = {}
  /\ (\A k \in Callers : caller[k] # "deleting") => doomed = {}

\* What a worker knows of the address in its hands, or a Clean has come by.
WorkerKnows ==
  /\ \A w \in Workers :
       /\ Holding(w) => held[w] \in Dest
       /\ worker[w] = "located" => running \/ held[w] \in raced
       /\ InHand(w) => held[w] \in tracked \cup raced
       /\ InHand(w) /\ held[w] \in installed => held[w] \in raced
  /\ \A v, w \in Workers :
       InHand(v) /\ InHand(w) /\ held[v] = held[w] /\ v # w => held[v] \in raced

\* Every route of the client is noted, about to be deleted, or raced.
RoutesAccounted ==
  /\ installed \cap Dest \subseteq tracked \cup doomed \cup raced
  /\ ~running => tracked \subseteq raced
  /\ ~SettingsTaken => installed \cap Networks \subseteq raced

OwnFile(f) == OwnServers \ VpnServers \subseteq f /\ f \subseteq OwnServers

\* resolv.conf, or its backup while the VPN's servers are added, is the user's.
ResolvAccounted ==
  /\ system.backup = {} => OwnFile(system.resolv)
  /\ \A f \in system.backup : OwnFile(f)
  /\ OwnServers \ VpnServers \subseteq system.resolv
  /\ system.resolv \subseteq NameServers
  /\ ~SettingsTaken => system.backup = {}

\* The gateway is known whenever it is needed; a rule is left over by each crash
\* at most; before the first crash the link's own servers are not forgotten.
SettingsAccounted ==
  /\ running \/ system.route # "own" => gateway
  /\ system.rules <= crashes + (IF SettingsTaken THEN 1 ELSE 0)
  /\ ~SettingsTaken => system.route = "own"
  /\ crashes = 0 => /\ system.saved = "own"
                    /\ ~SettingsTaken => system.link = "own"

\* With IPv6 the network's gateway is the one detected, its default route is
\* never lost, and the VPN's routes are there only while the settings are taken;
\* without, the gateway detected is the VPN's or none.
Ipv6Accounted ==
  /\ ipv6 => /\ gateway6 # "vpn"
             /\ running \/ (\E k \in Callers : caller[k] # "idle") => gateway6 = "own"
             /\ "own" \in system.route6 /\ "stray" \notin system.route6
             /\ ~SettingsTaken => system.route6 = {"own"}
  /\ ~ipv6 => gateway6 # "own" /\ "own" \notin system.route6
  /\ ~device => /\ system.route6 \cap DeviceRoutes6 = {}
                /\ \A k \in Callers : caller[k] # "applying"
  /\ crashes = 0 /\ gateway6 = "none" => "stray" \notin system.route6

\* The inductive invariant of the route manager.
RouteInv ==
  /\ NotedIsRouted
  /\ OwnerKnows
  /\ WorkerKnows
  /\ RoutesAccounted
  /\ ResolvAccounted
  /\ SettingsAccounted
  /\ Ipv6Accounted

LEMMA RouteInitInv == RouteInit => RouteInv
<1> SUFFICES ASSUME RouteInit PROVE RouteInv
  OBVIOUS
<1> USE RouteAssumption DEF RouteInit, Fresh, NoBackup, NoDest
<1>1. NotedIsRouted
  <2>1. system \in Systems
    BY DEF NameServers, Systems, OwnRoutes6
  <2>2. queue \in Seq(Dest) /\ Len(queue) <= QueueMax
    OBVIOUS
  <2>3. crashes \in 0..MaxCrashes
    OBVIOUS
  <2>4. QED
    BY <2>1, <2>2, <2>3, Zenon DEF NotedIsRouted, RouteTypeOK, Places, Lives
<1>2. OwnerKnows /\ WorkerKnows /\ RoutesAccounted
  BY DEF OwnerKnows, Owns, WorkerKnows, Holding, InHand, RoutesAccounted
<1>3. ResolvAccounted /\ SettingsAccounted
  BY DEF ResolvAccounted, SettingsAccounted, SettingsTaken, OwnFile, NameServers
<1>4. Ipv6Accounted
  BY DEF Ipv6Accounted, SettingsTaken, OwnRoutes6, DeviceRoutes6
<1>5. QED
  BY <1>1, <1>2, <1>3, <1>4 DEF RouteInv

\* The steps of a worker keep the invariant.
LEMMA WorkerInv ==
  ASSUME RouteInv, NEW w \in Workers, WorkerStep(w) \/ SpuriousWakeup(w)
  PROVE  RouteInv'
<1> USE RouteAssumption
    DEF RouteInv, NotedIsRouted, RouteTypeOK, OwnerKnows, WorkerKnows, RoutesAccounted,
        ResolvAccounted, SettingsAccounted, Ipv6Accounted, SettingsTaken, Owns, Holding,
        InHand, Places, Goes, At, systemVars, network, history
<1>1. CASE TakeRoutes(w)
  <2>1. CASE worker' = [worker EXCEPT ![w] = "popped"]
    <3>1. /\ worker[w] = "top" /\ held' = [held EXCEPT ![w] = Head(queue)]
          /\ queue' = Tail(queue) /\ queue # <<>>
          /\ UNCHANGED <<running, tracked, installed, caller, doomed, life, history, systemVars>>
      BY <1>1, <2>1 DEF TakeRoutes, WorkerRunning
    <3>2. /\ Head(queue) \in Dest /\ Tail(queue) \in Seq(Dest)
          /\ Len(Tail(queue)) <= QueueMax
      BY <3>1
    <3>3. QED
      BY <2>1, <3>1, <3>2
  <2>2. CASE worker' # [worker EXCEPT ![w] = "popped"]
    BY <1>1, <2>2 DEF TakeRoutes, WorkerRunning
  <2>3. QED
    BY <2>1, <2>2
<1>2. CASE FallAsleep(w)
  BY <1>2 DEF FallAsleep
<1>3. CASE CheckRunning(w)
  BY <1>3 DEF CheckRunning
<1>4. CASE Locate(w)
  BY <1>4 DEF Locate, MayLocate
<1>5. CASE NoInterface(w)
  BY <1>5 DEF NoInterface
<1>6. CASE Track(w)
  BY <1>6 DEF Track, MutexFree
<1>7. CASE AddRoute(w)
  BY <1>7 DEF AddRoute
<1>8. CASE AddRefused(w)
  BY <1>8 DEF AddRefused
<1>9. CASE AddFails(w)
  BY <1>9 DEF AddFails, Forgets
<1>10. CASE Forget(w)
  BY <1>10 DEF Forget, MutexFree
<1>11. CASE SpuriousWakeup(w)
  BY <1>11 DEF SpuriousWakeup
<1>12. QED
  BY <1>1, <1>2, <1>3, <1>4, <1>5, <1>6, <1>7, <1>8, <1>9, <1>10, <1>11 DEF WorkerStep

\* The steps of Apply and Clean keep the invariant.
LEMMA CallerInv ==
  ASSUME RouteInv, CallerStep \/ \E k \in Callers : Apply(k) \/ CleanBegins(k)
  PROVE  RouteInv'
<1> USE RouteAssumption DEF RouteInv, Moves, systemVars, network, history
<1>1. ASSUME NEW k \in Callers, Apply(k) PROVE RouteInv'
  <2>1. ~SettingsTaken /\ ~SettingsTaken' /\ doomed = {}
    BY <1>1 DEF Apply, SettingsTaken, MutexFree, OwnerKnows, NotedIsRouted, RouteTypeOK
  <2>2. NotedIsRouted'
    <3>1. gateway6' \in {"none", "own", "vpn"}
      BY <1>1 DEF Apply, DetectGateway6, NotedIsRouted, RouteTypeOK
    <3>2. QED
      BY <1>1, <3>1 DEF Apply, DetectGateway, NotedIsRouted, RouteTypeOK
  <2>3. OwnerKnows' /\ WorkerKnows'
    BY <1>1 DEF Apply, MutexFree, OwnerKnows, Owns, WorkerKnows, Holding, InHand, NotedIsRouted,
         RouteTypeOK
  <2>4. RoutesAccounted' /\ ResolvAccounted'
    BY <1>1, <2>1 DEF Apply, RoutesAccounted, ResolvAccounted
  <2>5. SettingsAccounted'
    BY <1>1, <2>1 DEF Apply, DetectGateway, SettingsAccounted
  <2>6. Ipv6Accounted'
    <3>1. /\ running' = TRUE /\ UNCHANGED <<system, device, ipv6, crashes>> /\ device
          /\ gateway6' \in DetectGateway6
      BY <1>1 DEF Apply
    <3>2. ipv6 => gateway6' = "own"
      BY <2>1, <3>1 DEF Ipv6Accounted, DetectGateway6
    <3>3. ~ipv6 => gateway6' # "own"
      BY <3>1 DEF Ipv6Accounted, DetectGateway6
    <3>4. gateway6' = "none" => gateway6 = "none"
      BY <3>1 DEF DetectGateway6
    <3>5. QED
      BY <2>1, <3>1, <3>2, <3>3, <3>4 DEF Ipv6Accounted
  <2>7. QED
    BY <2>2, <2>3, <2>4, <2>5, <2>6
<1>2. ASSUME NEW k \in Callers, Configure(k) PROVE RouteInv'
  <2>1. ~SettingsTaken /\ SettingsTaken'
    BY <1>2 DEF Configure, SettingsTaken, OwnerKnows, Owns, NotedIsRouted, RouteTypeOK
  <2>2. /\ system.backup = {} /\ system.rules <= crashes /\ gateway
    BY <1>2, <2>1 DEF Configure, ResolvAccounted, SettingsAccounted, OwnerKnows,
       NotedIsRouted, RouteTypeOK
  <2>3. PICK added \in {{"server"}, DeviceRoutes6} :
          system' = [route |-> "tun", route6 |-> system.route6 \cup added,
                     rules |-> system.rules + 1, link |-> "vpn", saved |-> system.link,
                     resolv |-> system.resolv \cup VpnServers, backup |-> {system.resolv},
                     sysctl |-> "vpn"]
    <3> DEFINE s == TakeRoute(AppendRules(TakeSysctls(system)))
    <3>0. /\ system \in Systems
          /\ system = [route |-> system.route, route6 |-> system.route6, rules |-> system.rules,
                       link |-> system.link, saved |-> system.saved, resolv |-> system.resolv,
                       backup |-> system.backup, sysctl |-> system.sysctl]
      BY DEF NotedIsRouted, RouteTypeOK, Systems
    <3>1. PICK t \in TakeRoute6(s) : system' = TakeDns(t)
      BY <1>2 DEF Configure, Configured
    <3>2. PICK added \in {{"server"}, DeviceRoutes6} : t = [s EXCEPT !.route6 = @ \cup added]
      BY <3>1 DEF TakeRoute6
    <3>3. s = [system EXCEPT !.rules = @ + 1, !.route = "tun", !.sysctl = "vpn"]
      BY <3>0 DEF TakeRoute, AppendRules, TakeSysctls, Systems
    <3>4. t = [system EXCEPT !.rules = @ + 1, !.route = "tun", !.sysctl = "vpn",
                             !.route6 = @ \cup added]
      BY <3>0, <3>2, <3>3 DEF Systems
    <3> HIDE DEF s
    <3>5. t = [route |-> "tun", route6 |-> system.route6 \cup added,
               rules |-> system.rules + 1, link |-> system.link, saved |-> system.saved,
               resolv |-> system.resolv, backup |-> {}, sysctl |-> "vpn"]
      BY <2>2, <3>0, <3>4
    <3>6. QED
      BY <3>1, <3>5 DEF TakeDns, Backup, NoBackup, GetLinuxDnsServers
  <2>4. NotedIsRouted'
    <3>1. system' \in Systems
      <4>1. /\ system \in Systems
            /\ crashes \in 0..MaxCrashes
        BY DEF NotedIsRouted, RouteTypeOK
      <4>2. system.rules + 1 \in 0..(MaxCrashes + 1)
        BY <2>2, <4>1 DEF Systems
      <4>3. /\ {system.resolv} \in SUBSET SUBSET NameServers
            /\ system.resolv \cup VpnServers \in SUBSET NameServers
            /\ system.route6 \cup added \in SUBSET {"own", "tun", "server", "stray"}
        BY <4>1 DEF NameServers, Systems, DeviceRoutes6
      <4>4. QED
        BY <2>3, <4>1, <4>2, <4>3 DEF Systems
    <3>2. QED
      BY <1>2, <3>1 DEF Configure, AddNetworks, NotedIsRouted, RouteTypeOK
  <2>5. OwnerKnows' /\ WorkerKnows'
    BY <1>2 DEF Configure, AddNetworks, OwnerKnows, Owns, WorkerKnows, Holding, InHand,
         NotedIsRouted, RouteTypeOK
  <2>6. RoutesAccounted'
    BY <1>2, <2>1 DEF Configure, AddNetworks, RoutesAccounted
  <2>7. ResolvAccounted'
    BY <1>2, <2>1, <2>2, <2>3 DEF ResolvAccounted, OwnFile, NameServers, NotedIsRouted, RouteTypeOK,
       Systems
  <2>8. SettingsAccounted'
    BY <1>2, <2>1, <2>2, <2>3 DEF Configure, SettingsAccounted, NotedIsRouted, RouteTypeOK, Systems
  <2>9. Ipv6Accounted'
    <3>1. /\ UNCHANGED <<running, gateway6, device, ipv6, crashes>> /\ running /\ device
          /\ system'.route6 = system.route6 \cup added
      BY <1>2, <2>3 DEF Configure, OwnerKnows, Ipv6Accounted, NotedIsRouted, RouteTypeOK, Systems
    <3>2. QED
      BY <2>1, <3>1 DEF Ipv6Accounted, DeviceRoutes6
  <2>10. QED
    BY <2>4, <2>5, <2>6, <2>7, <2>8, <2>9
<1>3. ASSUME NEW k \in Callers, CleanBegins(k) \/ DropQueue(k) PROVE RouteInv'
  <2>1. SettingsTaken' = SettingsTaken
    BY <1>3 DEF CleanBegins, DropQueue, SettingsTaken, NotedIsRouted, RouteTypeOK
  <2>2. NotedIsRouted'
    <3>1. queue' \in Seq(Dest) /\ Len(queue') <= QueueMax
      <4>1. queue' = queue \/ queue' = <<>>
        BY <1>3 DEF CleanBegins, DropQueue
      <4>2. CASE queue' = <<>>
        BY <4>2
      <4>3. QED
        BY <4>1, <4>2 DEF NotedIsRouted, RouteTypeOK
    <3>2. QED
      BY <1>3, <3>1 DEF CleanBegins, DropQueue, NotedIsRouted, RouteTypeOK
  <2>3. OwnerKnows' /\ WorkerKnows'
    BY <1>3 DEF CleanBegins, DropQueue, OwnerKnows, Owns, WorkerKnows, Holding, InHand,
         NotedIsRouted, RouteTypeOK
  <2>4. RoutesAccounted' /\ ResolvAccounted' /\ SettingsAccounted' /\ Ipv6Accounted'
    BY <1>3, <2>1 DEF CleanBegins, DropQueue, RoutesAccounted, ResolvAccounted,
       SettingsAccounted, Ipv6Accounted, NotedIsRouted, RouteTypeOK
  <2>5. QED
    BY <2>2, <2>3, <2>4
<1>4. ASSUME NEW k \in Callers, CollectRoutes(k) PROVE RouteInv'
  <2>1. SettingsTaken'
    BY <1>4 DEF CollectRoutes, SettingsTaken, NotedIsRouted, RouteTypeOK
  <2>2. NotedIsRouted'
    <3>1. raced' \subseteq Dest \cup Networks
      BY <1>4 DEF CollectRoutes, NotedIsRouted, RouteTypeOK, WorkerKnows, Holding
    <3>2. QED
      BY <1>4, <3>1 DEF CollectRoutes, NotedIsRouted, RouteTypeOK
  <2>3. OwnerKnows'
    BY <1>4 DEF CollectRoutes, MutexFree, OwnerKnows, Owns, NotedIsRouted, RouteTypeOK
  <2>4. WorkerKnows'
    BY <1>4 DEF CollectRoutes, WorkerKnows, Holding, InHand
  <2>5. RoutesAccounted'
    BY <1>4, <2>1 DEF CollectRoutes, MutexFree, OwnerKnows, RoutesAccounted
  <2>6. ResolvAccounted'
    BY <1>4, <2>1 DEF CollectRoutes, ResolvAccounted
  <2>7. SettingsAccounted'
    BY <1>4, <2>1 DEF CollectRoutes, SettingsAccounted, NotedIsRouted, RouteTypeOK, Systems
  <2>8. Ipv6Accounted'
    BY <1>4, <2>1 DEF CollectRoutes, Ipv6Accounted, NotedIsRouted, RouteTypeOK
  <2>9. QED
    BY <2>2, <2>3, <2>4, <2>5, <2>6, <2>7, <2>8
<1>5. ASSUME NEW k \in Callers, NEW d \in Dest, DeleteRoute(k, d) PROVE RouteInv'
  BY <1>5 DEF DeleteRoute, NotedIsRouted, RouteTypeOK, OwnerKnows, WorkerKnows, RoutesAccounted,
     ResolvAccounted, SettingsAccounted, Ipv6Accounted, SettingsTaken, Owns, Holding, InHand
<1>6. ASSUME NEW k \in Callers, CleanReturns(k) PROVE RouteInv'
  <2>1. /\ ~SettingsTaken' /\ SettingsTaken /\ doomed = {} /\ tracked = {} /\ ~running
    BY <1>6 DEF CleanReturns, SettingsTaken, OwnerKnows, Owns, NotedIsRouted, RouteTypeOK
  <2>2. PICK left \in SUBSET {"own", "tun", "server", "stray"} :
          /\ system' = [system EXCEPT !.rules = IF @ = 0 THEN 0 ELSE @ - 1,
                          !.route = IF gateway THEN "own" ELSE @, !.link = system.saved,
                          !.resolv = @ \ VpnServers, !.backup = {}, !.route6 = left]
          /\ gateway6 = "none" => left = system.route6
          /\ gateway6 = "own" => left = (system.route6 \ DeviceRoutes6) \cup {"own"}
          /\ gateway6 = "vpn" => /\ left \cap DeviceRoutes6 = {}
                                 /\ system.route6 \ DeviceRoutes6 \subseteq left
                                 /\ left \subseteq system.route6 \cup {"stray"}
    <3> DEFINE s == ReturnRoute(DeleteRules(system))
    <3>1. PICK t \in ReturnRoute6(s) : system' = ReturnDns(t)
      BY <1>6 DEF CleanReturns, Restored
    <3>2. s = [system EXCEPT !.rules = IF @ = 0 THEN 0 ELSE @ - 1,
                             !.route = IF gateway THEN "own" ELSE @]
      BY DEF ReturnRoute, DeleteRules, NotedIsRouted, RouteTypeOK, Systems
    <3>3. /\ s.route6 = system.route6 /\ system.route6 \in SUBSET {"own", "tun", "server", "stray"}
          /\ gateway6 \in {"none", "own", "vpn"}
      BY <3>2 DEF NotedIsRouted, RouteTypeOK, Systems
    <3>4. PICK left \in SUBSET {"own", "tun", "server", "stray"} :
            /\ t = [s EXCEPT !.route6 = left]
            /\ gateway6 = "none" => left = system.route6
            /\ gateway6 = "own" => left = (system.route6 \ DeviceRoutes6) \cup {"own"}
            /\ gateway6 = "vpn" => /\ left \cap DeviceRoutes6 = {}
                                   /\ system.route6 \ DeviceRoutes6 \subseteq left
                                   /\ left \subseteq system.route6 \cup {"stray"}
      <4> HIDE DEF s
      <4>1. CASE gateway6 = "none"
        <5>1. t = s /\ s = [s EXCEPT !.route6 = system.route6]
          BY <3>1, <3>2, <3>3, <4>1 DEF ReturnRoute6, NotedIsRouted, RouteTypeOK, Systems
        <5>2. QED
          BY <3>3, <4>1, <5>1
      <4>2. CASE gateway6 = "own"
        BY <3>1, <3>3, <4>2 DEF ReturnRoute6
      <4>3. CASE gateway6 = "vpn"
        <5>1. PICK stray \in {{}, {"stray"}} :
                t = [s EXCEPT !.route6 = (s.route6 \ DeviceRoutes6) \cup stray]
          BY <3>1, <4>3 DEF ReturnRoute6
        <5> DEFINE left == (s.route6 \ DeviceRoutes6) \cup stray
        <5>2. /\ left \in SUBSET {"own", "tun", "server", "stray"}
              /\ left \cap DeviceRoutes6 = {} /\ system.route6 \ DeviceRoutes6 \subseteq left
              /\ left \subseteq system.route6 \cup {"stray"}
          BY <3>3 DEF DeviceRoutes6
        <5> HIDE DEF left
        <5>3. QED
          BY <4>3, <5>1, <5>2 DEF left
      <4>4. QED
        BY <3>3, <4>1, <4>2, <4>3
    <3>5. t = [system EXCEPT !.rules = IF @ = 0 THEN 0 ELSE @ - 1,
                             !.route = IF gateway THEN "own" ELSE @, !.route6 = left]
      BY <3>2, <3>4 DEF NotedIsRouted, RouteTypeOK, Systems
    <3> HIDE DEF s
    <3>6. QED
      <4>1. system' = [t EXCEPT !.link = t.saved, !.resolv = t.resolv \ VpnServers, !.backup = {}]
        BY <3>1 DEF ReturnDns, NoBackup
      <4>2. t.saved = system.saved /\ t.resolv = system.resolv
        BY <3>5 DEF NotedIsRouted, RouteTypeOK, Systems
      <4>3. system \in Systems
        BY DEF NotedIsRouted, RouteTypeOK
      <4>4. system' = [system EXCEPT !.rules = IF @ = 0 THEN 0 ELSE @ - 1,
                          !.route = IF gateway THEN "own" ELSE @, !.link = system.saved,
                          !.resolv = @ \ VpnServers, !.backup = {}, !.route6 = left]
        BY <3>5, <4>1, <4>2, <4>3 DEF Systems
      <4>5. QED
        BY <3>4, <4>4
  <2>3. NotedIsRouted'
    <3>1. system' \in Systems
      <4>1. system \in Systems
        BY DEF NotedIsRouted, RouteTypeOK
      <4>2. (IF system.rules = 0 THEN 0 ELSE system.rules - 1) \in 0..(MaxCrashes + 1)
        BY <4>1 DEF Systems
      <4>3. system.resolv \ VpnServers \in SUBSET NameServers
        BY <4>1 DEF Systems
      <4>4. QED
        BY <2>2, <4>1, <4>2, <4>3 DEF Systems
    <3>2. QED
      BY <1>6, <2>1, <3>1 DEF CleanReturns, NotedIsRouted, RouteTypeOK
  <2>4. OwnerKnows' /\ WorkerKnows'
    BY <1>6, <2>1 DEF CleanReturns, OwnerKnows, Owns, WorkerKnows, Holding, InHand,
         NotedIsRouted, RouteTypeOK
  <2>5. RoutesAccounted'
    BY <1>6, <2>1 DEF CleanReturns, RoutesAccounted
  <2>6. ResolvAccounted'
    BY <2>1, <2>2 DEF ResolvAccounted, OwnFile, NameServers, NotedIsRouted, RouteTypeOK,
       Systems
  <2>7. SettingsAccounted'
    BY <1>6, <2>1, <2>2 DEF CleanReturns, SettingsAccounted, NotedIsRouted, RouteTypeOK, Systems
  <2>8. Ipv6Accounted'
    <3>1. /\ UNCHANGED <<gateway6, device, ipv6, crashes>> /\ system'.route6 = left
          /\ running' = FALSE /\ gateway6 \in {"none", "own", "vpn"}
      <4>1. system'.route6 = left
        BY <2>2 DEF NotedIsRouted, RouteTypeOK, Systems
      <4>2. QED
        BY <1>6, <4>1 DEF CleanReturns, NotedIsRouted, RouteTypeOK
    <3>2. CASE ipv6
      <4>1. gateway6 = "own" /\ system.route6 \ DeviceRoutes6 = {"own"}
        <5>1. caller[k] # "idle"
          BY <1>6 DEF CleanReturns
        <5>2. system.route6 \in SUBSET {"own", "tun", "server", "stray"}
          BY DEF NotedIsRouted, RouteTypeOK, Systems
        <5>3. QED
          BY <3>2, <5>1, <5>2 DEF Ipv6Accounted, DeviceRoutes6
      <4>2. left = {"own"}
        BY <2>2, <4>1
      <4>3. QED
        BY <1>6, <2>1, <3>1, <3>2, <4>1, <4>2 DEF Ipv6Accounted, DeviceRoutes6, CleanReturns,
           NotedIsRouted, RouteTypeOK
    <3>3. CASE ~ipv6
      BY <1>6, <2>1, <2>2, <3>1, <3>3 DEF Ipv6Accounted, DeviceRoutes6, CleanReturns,
         NotedIsRouted, RouteTypeOK
    <3>4. QED
      BY <3>2, <3>3
  <2>9. QED
    BY <2>3, <2>4, <2>5, <2>6, <2>7, <2>8
<1>7. QED
  BY <1>1, <1>2, <1>3, <1>4, <1>5, <1>6 DEF CallerStep

\* Packets and the destructor keep the invariant.
LEMMA OtherInv ==
  ASSUME RouteInv,
         \/ \E d \in Dest : Enqueue(d)
         \/ CloseDevice \/ Destroy \/ FlagWorkers \/ NotifyWorkers \/ JoinWorkers \/ Destroyed
  PROVE  RouteInv'
<1> USE RouteAssumption
    DEF RouteInv, NotedIsRouted, RouteTypeOK, OwnerKnows, WorkerKnows, RoutesAccounted,
        ResolvAccounted, SettingsAccounted, Ipv6Accounted, SettingsTaken, Owns, Holding,
        InHand, Places, Lives, systemVars, network, history
<1>1. ASSUME NEW d \in Dest, Enqueue(d) PROVE RouteInv'
  <2>1. queue' \in Seq(Dest) /\ Len(queue') <= QueueMax
    BY <1>1 DEF Enqueue, Room
  <2>2. CASE UNCHANGED <<worker, held>>
    BY <1>1, <2>1, <2>2 DEF Enqueue
  <2>3. ASSUME NEW w \in Asleep, Goes(w, "top") PROVE RouteInv'
    BY <1>1, <2>1, <2>3 DEF Enqueue, Asleep, Goes
  <2>4. QED
    BY <1>1, <2>2, <2>3 DEF Enqueue
<1>2. CASE Destroy
  BY <1>2 DEF Destroy
<1>3. CASE FlagWorkers
  BY <1>3 DEF FlagWorkers
<1>4. CASE NotifyWorkers
  BY <1>4 DEF NotifyWorkers, Notified, Asleep
<1>5. CASE JoinWorkers
  BY <1>5 DEF JoinWorkers
<1>6. CASE Destroyed
  BY <1>6 DEF Destroyed
<1>7. CASE CloseDevice
  <2>1. /\ system' = [system EXCEPT !.route = IF @ = "tun" THEN "none" ELSE @,
                                    !.route6 = @ \ DeviceRoutes6]
        /\ device' = FALSE /\ \A k \in Callers : caller[k] = "idle"
        /\ UNCHANGED <<running, queue, worker, held, tracked, installed, caller, doomed, life,
                       history, gateway, gateway6, ipv6, crashes>>
    BY <1>7 DEF CloseDevice, WithoutDevice
  <2>2. system' \in Systems
    BY <2>1 DEF Systems
  <2>3. /\ system'.route6 = system.route6 \ DeviceRoutes6
        /\ system'.route = IF system.route = "tun" THEN "none" ELSE system.route
        /\ system'.rules = system.rules /\ system'.link = system.link
        /\ system'.saved = system.saved /\ system'.resolv = system.resolv
        /\ system'.backup = system.backup
    BY <2>1 DEF Systems
  <2>4. NotedIsRouted' /\ OwnerKnows' /\ WorkerKnows' /\ RoutesAccounted'
    BY <2>1, <2>2
  <2>5. ResolvAccounted' /\ SettingsAccounted' /\ Ipv6Accounted'
    BY <2>1, <2>3 DEF DeviceRoutes6
  <2>6. QED
    BY <2>4, <2>5
<1>8. QED
  BY <1>1, <1>2, <1>3, <1>4, <1>5, <1>6, <1>7

\* A crash, and the healing of resolv.conf at the next start, keep it too.
LEMMA CrashInv ==
  ASSUME RouteInv, CrashAndRestart
  PROVE  RouteInv'
<1> USE RouteAssumption DEF RouteInv
<1>1. /\ running' = FALSE /\ queue' = <<>> /\ worker' = [w \in Workers |-> "top"]
      /\ held' = [w \in Workers |-> NoDest] /\ caller' = [k \in Callers |-> "idle"]
      /\ life' = "alive" /\ tracked' = {} /\ doomed' = {} /\ missed' = {} /\ refused' = {}
      /\ gateway' = FALSE /\ gateway6' = "none" /\ device' = TRUE /\ ipv6' = ipv6
      /\ raced' = installed /\ installed' = installed
      /\ crashes' = crashes + 1 /\ crashes < MaxCrashes
  BY DEF CrashAndRestart, CrashBound, Fresh
<1>2. ~SettingsTaken'
  BY <1>1 DEF SettingsTaken
<1>3. /\ WithoutDevice(system) \in Systems
      /\ WithoutDevice(system).backup = system.backup
      /\ WithoutDevice(system).resolv = system.resolv
      /\ WithoutDevice(system).rules = system.rules
      /\ WithoutDevice(system).route6 = system.route6 \ DeviceRoutes6
  BY DEF NotedIsRouted, RouteTypeOK, WithoutDevice, Systems
<1> DEFINE s == WithoutDevice(system)
<1>4. /\ HealStaleResolvConf(s) \in Systems
      /\ HealStaleResolvConf(s).backup = {}
      /\ HealStaleResolvConf(s).rules = system.rules
      /\ HealStaleResolvConf(s).route6 = system.route6 \ DeviceRoutes6
      /\ OwnFile(HealStaleResolvConf(s).resolv)
  <2> HIDE DEF s
  <2>1. CASE s.backup = {}
    BY <1>3, <2>1 DEF HealStaleResolvConf, NoBackup, ResolvAccounted, s
  <2>2. CASE s.backup # {}
    <3> DEFINE file == CHOOSE f \in s.backup : TRUE
    <3>1. file \in s.backup
      BY <2>2
    <3>2. OwnFile(file) /\ file \in SUBSET NameServers
      BY <1>3, <3>1 DEF ResolvAccounted, Systems, s
    <3>3. HealStaleResolvConf(s) = [s EXCEPT !.resolv = file, !.backup = {}]
      BY <2>2 DEF HealStaleResolvConf, NoBackup
    <3> HIDE DEF file
    <3>4. s \in Systems /\ s.rules = system.rules /\ s.route6 = system.route6 \ DeviceRoutes6
      BY <1>3 DEF s
    <3>5. QED
      BY <3>2, <3>3, <3>4 DEF Systems
  <2>3. QED
    BY <2>1, <2>2
<1>5. system' = [HealStaleResolvConf(s) EXCEPT !.saved = "own", !.route = "own"]
  BY DEF CrashAndRestart
<1> HIDE DEF s
<1>6. NotedIsRouted'
  <2>1. system' \in Systems
    BY <1>4, <1>5 DEF Systems
  <2>2. queue' \in Seq(Dest) /\ Len(queue') <= QueueMax
    BY <1>1
  <2>3. crashes' \in 0..MaxCrashes
    BY <1>1 DEF NotedIsRouted, RouteTypeOK
  <2>4. QED
    BY <1>1, <2>1, <2>2, <2>3 DEF NotedIsRouted, RouteTypeOK, Places, Lives
<1>7. OwnerKnows' /\ WorkerKnows' /\ RoutesAccounted'
  BY <1>1, <1>2 DEF OwnerKnows, Owns, WorkerKnows, Holding, InHand, RoutesAccounted
<1>8. ResolvAccounted'
  BY <1>4, <1>5 DEF ResolvAccounted, OwnFile, NameServers, Systems
<1>9. SettingsAccounted'
  <2>1. system.rules <= crashes + 1 /\ crashes \in Nat /\ system.rules \in Nat
    BY DEF SettingsAccounted, NotedIsRouted, RouteTypeOK, Systems
  <2>2. QED
    BY <1>1, <1>2, <1>4, <1>5, <2>1 DEF SettingsAccounted, Systems
<1>10. Ipv6Accounted'
  <2>1. system'.route6 = system.route6 \ DeviceRoutes6 /\ crashes' # 0
    BY <1>1, <1>4, <1>5 DEF Systems, NotedIsRouted, RouteTypeOK
  <2>2. ipv6 => system'.route6 = {"own"}
    BY <2>1 DEF Ipv6Accounted, NotedIsRouted, RouteTypeOK, Systems, DeviceRoutes6
  <2>3. QED
    BY <1>1, <1>2, <2>1, <2>2 DEF Ipv6Accounted
<1>11. QED
  BY <1>6, <1>7, <1>8, <1>9, <1>10

LEMMA RouteStepInv == RouteInv /\ [RouteNext]_routeVars => RouteInv'
<1>1. CASE UNCHANGED routeVars
  BY <1>1 DEF routeVars, systemVars, network, history, RouteInv, NotedIsRouted, RouteTypeOK,
     OwnerKnows, WorkerKnows, RoutesAccounted, ResolvAccounted, SettingsAccounted,
     Ipv6Accounted, SettingsTaken, Owns, Holding, InHand
<1>2. CASE RouteNext
  BY <1>1, <1>2, WorkerInv, CallerInv, OtherInv, CrashInv DEF RouteNext, DestructorStep, Gone
<1>3. QED
  BY <1>1, <1>2

\* The invariant holds in every state, before and after any number of crashes.
THEOREM RouteInvariant == RouteSpec => []RouteInv
  BY RouteInitInv, RouteStepInv, PTL DEF RouteSpec

\* An IPv4 address noted in dns_routes_ipv4_ has its route, a worker busy with
\* it, or a command the system refused, which the code takes for a success
\* (route_manager.cpp:181): it is never noted for a route that a Clean deleted,
\* nor left noted where no command could be made (route_manager.cpp:1140).
THEOREM NotedRoutesExist == RouteSpec => []NotedIsRouted
<1>1. RouteInv => NotedIsRouted
  BY DEF RouteInv
<1>2. QED
  BY <1>1, RouteInvariant, PTL

\* When Clean has returned, every route is gone that was not in a worker's hands
\* as it collected, resolv.conf and the IPv4 default route are the user's again,
\* and so are, unless the program has crashed, the rules and the link's servers.
\* So is the IPv6 default route of a network that has one; without one, the VPN's
\* IPv6 routes may stay until the device closes, and a default route over the
\* physical interface where a second Apply took the VPN's gateway for the network's.
\* The sysctls are set for good.
THEOREM CleanRestoresSystem == RouteSpec => []OnlyRacedRoutesLeft
<1>1. RouteInv => OnlyRacedRoutesLeft
  <2> SUFFICES ASSUME RouteInv, ~running, MutexFree PROVE OnlyRacedRoutesLeft
    BY DEF OnlyRacedRoutesLeft
  <2>1. ~SettingsTaken /\ doomed = {}
    BY DEF MutexFree, SettingsTaken, RouteInv, OwnerKnows
  <2>2. installed \subseteq raced
    BY <2>1 DEF RouteInv, RoutesAccounted, NotedIsRouted, RouteTypeOK
  <2>3. ResolvIsOwn
    BY <2>1 DEF RouteInv, ResolvAccounted, OwnFile, ResolvIsOwn, NoBackup
  <2>4. crashes = 0 => system.rules = 0 /\ system.link = "own"
    BY <2>1 DEF RouteInv, SettingsAccounted, NotedIsRouted, RouteTypeOK, Systems
  <2>5. system.route = "own"
    BY <2>1 DEF RouteInv, SettingsAccounted
  <2>6. Ipv6IsOwn
    BY <2>1 DEF RouteInv, Ipv6Accounted, Ipv6IsOwn, NotedIsRouted, RouteTypeOK, Systems,
       DeviceRoutes6
  <2>7. QED
    BY <2>2, <2>3, <2>4, <2>5, <2>6 DEF OnlyRacedRoutesLeft
<1>2. QED
  BY <1>1, RouteInvariant, PTL
=============================================================================
