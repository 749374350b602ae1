---------------------------- MODULE RouteManager ----------------------------
(***************************************************************************)
(* The client's route manager (fptn-client/routing/route_manager.cpp) in   *)
(* its Linux build: Apply and Clean, called by the supervisor and by the   *)
(* application, what they change in the system, the queue of addresses     *)
(* that split tunnelling wants routed past the VPN, the workers that add   *)
(* those routes, the destructor, and a crash with the restart after it.    *)
(*                                                                         *)
(* A worker takes mutex_ twice for an address, once to look at running_    *)
(* and once to note the route in dns_routes_ipv4_ or dns_routes_ipv6_, and *)
(* runs the system command without it.  What is done under a mutex in one  *)
(* go is one step; Apply and Clean keep mutex_ over their commands.        *)
(***************************************************************************)
EXTENDS Naturals, Sequences

CONSTANTS
  Workers,      \* the route workers
  Callers,      \* the threads that call Apply and Clean
  Ipv4, Ipv6,   \* the addresses that get routes
  QueueMax,     \* kMaxQueueSize
  Networks,     \* the IPv4 networks the configuration excludes or includes
  OwnServers,   \* the name servers resolv.conf lists without the VPN
  VpnServers,   \* the VPN's name servers and the user's custom one
  MaxCrashes,   \* bound on crashes
  PacketCrashes \* bound on the crashes after which packets still bring addresses

Dest == Ipv4 \cup Ipv6
NoDest == "none"
NoBackup == {}    \* else the set of the one file kept

ASSUME RouteAssumption ==
  /\ Ipv4 \cap Ipv6 = {} /\ Dest \cap Networks = {}
  /\ QueueMax \in Nat /\ MaxCrashes \in Nat /\ PacketCrashes \in Nat

VARIABLES
  running,      \* running_
  queue,        \* route_queue_
  worker,       \* where each worker is
  held,         \* the address each worker works on
  tracked,      \* dns_routes_ipv4_ and dns_routes_ipv6_
  installed,    \* the system's routes for such addresses and Networks
  system,       \* the rest of what Apply and Clean change in the system
  gateway,      \* whether detected_gateway_ipv4_ is set
  gateway6,     \* detected_gateway_ipv6_: none, the network's own or the VPN's
  device,       \* whether the TUN device is open
  ipv6,         \* whether the network has an IPv6 gateway
  caller,       \* where each caller is
  doomed,       \* the routes the running Clean still has to delete
  life,         \* of the object: alive, then the steps of its destructor
  raced,        \* history: routes added around a Clean, or left by a crash
  refused,      \* history: noted addresses the system refused a route for
  crashes,      \* how often the program has crashed
  missed        \* history: workers that missed the destructor's notification

history == <<raced, missed, refused>>
network == <<gateway, gateway6, device, ipv6>>
systemVars == <<system, network, crashes>>
routeVars == <<running, queue, worker, held, tracked, installed, caller,
               doomed, life, history, systemVars>>

Places == {"top", "tested", "asleep", "popped", "checked", "located",
           "adding", "failed", "exited"}
Lives == {"alive", "flagging", "notifying", "joining", "cleaning", "gone"}

MutexFree == \A k \in Callers : caller[k] \notin {"applying", "deleting"}
QueueMutexFree == \A w \in Workers : worker[w] # "tested"
WorkerRunning == life \in {"alive", "flagging"}

At(w, place) == worker[w] = place

\* The address in hand lasts for one turn of the loop.
Goes(w, place) ==
  /\ worker' = [worker EXCEPT ![w] = place]
  /\ held' = IF place = "top" THEN [held EXCEPT ![w] = NoDest] ELSE held

-----------------------------------------------------------------------------
(* Enqueue, by the thread that handles packets, joined before the device closes *)

Asleep == {w \in Workers : worker[w] = "asleep"}

Room == Len(queue) < QueueMax

\* Pushes and wakes one worker, or drops the address when the queue is full.
Enqueue(d) ==
  /\ life = "alive" /\ device /\ QueueMutexFree /\ crashes <= PacketCrashes
  /\ Room
  /\ queue' = Append(queue, d)
  /\ IF Asleep = {} THEN UNCHANGED <<worker, held>> ELSE \E w \in Asleep : Goes(w, "top")
  /\ UNCHANGED <<running, tracked, installed, caller, doomed, life, history, systemVars>>

(* RunRouteWorker *)

\* The loop condition, and under queue_mutex_ the predicate of the wait.
TakeRoutes(w) ==
  /\ At(w, "top") /\ QueueMutexFree
  /\ CASE ~WorkerRunning -> Goes(w, "exited") /\ UNCHANGED queue
       [] WorkerRunning /\ queue # <<>> ->
            /\ worker' = [worker EXCEPT ![w] = "popped"]
            /\ held' = [held EXCEPT ![w] = Head(queue)]
            /\ queue' = Tail(queue)
       [] OTHER -> Goes(w, "tested") /\ UNCHANGED queue
  /\ UNCHANGED <<running, tracked, installed, caller, doomed, life, history, systemVars>>

\* From here on a notification is heard.
FallAsleep(w) ==
  /\ At(w, "tested") /\ Goes(w, "asleep")
  /\ UNCHANGED <<running, queue, tracked, installed, caller, doomed,
                 life, history, systemVars>>

SpuriousWakeup(w) ==
  /\ At(w, "asleep") /\ Goes(w, "top")
  /\ UNCHANGED <<running, queue, tracked, installed, caller, doomed,
                 life, history, systemVars>>

CheckRunning(w) ==
  /\ At(w, "popped") /\ Goes(w, IF running THEN "checked" ELSE "top")
  /\ UNCHANGED <<running, queue, tracked, installed, caller, doomed,
                 life, history, systemVars>>

(* ApplyDnsRoutesIPv4 and ApplyDnsRoutesIPv6 *)

\* Defect: running_ is not read again under mutex_.
MayLocateAnyTime == TRUE

MayLocate == running

\* The addresses of a family need its gateway; split tunnelling routes past
\* the VPN only.
GatewayKnown(d) == IF d \in Ipv4 THEN gateway ELSE gateway6 # "none"

\* The first locked part, which copies the gateway.
Locate(w) ==
  /\ At(w, "checked") /\ MutexFree
  /\ Goes(w, IF MayLocate /\ GatewayKnown(held[w]) THEN "located" ELSE "top")
  /\ UNCHANGED <<running, queue, tracked, installed, caller, doomed,
                 life, history, systemVars>>

NoInterface(w) ==
  /\ At(w, "located") /\ Goes(w, "top")
  /\ UNCHANGED <<running, queue, tracked, installed, caller, doomed,
                 life, history, systemVars>>

\* The second locked part.
Track(w) ==
  /\ At(w, "located") /\ MutexFree
  /\ Goes(w, IF held[w] \in tracked THEN "top" ELSE "adding")
  /\ tracked' = tracked \cup {held[w]}
  /\ UNCHANGED <<running, queue, installed, caller, doomed, life, history, systemVars>>

\* The system command.
AddRoute(w) ==
  /\ At(w, "adding") /\ held[w] \notin installed
  /\ Goes(w, "top")
  /\ installed' = installed \cup {held[w]}
  /\ refused' = refused \ {held[w]}
  /\ UNCHANGED <<running, queue, tracked, caller, doomed, life, raced, missed, systemVars>>

\* A command that failed, for a route the system already has or any other
\* reason, is reported as a success: the address stays noted.
AddRefused(w) ==
  /\ At(w, "adding") /\ Goes(w, "top")
  /\ refused' = refused \cup ({held[w]} \cap Ipv4 \cap (tracked \ installed))
  /\ UNCHANGED <<running, queue, tracked, installed, caller, doomed,
                 life, raced, missed, systemVars>>

\* Defect: a failed IPv4 route stays noted, as a failed IPv6 route does.
KeepFailed == {}

Forgets == Ipv4

\* No command could be made of the address; only the IPv4 code takes mutex_
\* again to forget it.
AddFails(w) ==
  /\ At(w, "adding")
  /\ Goes(w, IF held[w] \in Forgets THEN "failed" ELSE "top")
  /\ UNCHANGED <<running, queue, tracked, installed, caller, doomed,
                 life, history, systemVars>>

Forget(w) ==
  /\ At(w, "failed") /\ MutexFree
  /\ Goes(w, "top")
  /\ tracked' = tracked \ {held[w]} /\ refused' = refused \ {held[w]}
  /\ UNCHANGED <<running, queue, installed, caller, doomed, life, raced,
                 missed, systemVars>>

-----------------------------------------------------------------------------
(* What the commands of Apply and Clean do to the system *)

\* The IPv6 routes over the TUN device, which end with it.
DeviceRoutes6 == {"server", "tun"}

\* The servers Apply finds on the interface, to be given back by Clean.
GetLinuxDnsServers == system.link

\* A gateway is kept from an earlier Apply when there is none to detect.
DetectGateway == gateway \/ system.route = "own"

\* The gateway of the first IPv6 default route listed, which may be the VPN's.
DetectGateway6 ==
  LET defaults == system.route6 \ {"server"}
  IN IF defaults = {} THEN {gateway6}
     ELSE {IF r = "own" THEN "own" ELSE "vpn" : r \in defaults}

\* The first backup stays until Clean or HealStaleResolvConf removes it.
Backup(s) == IF s.backup = NoBackup THEN {s.resolv} ELSE s.backup

\* Appended once more by every Apply.
AppendRules(s) == [s EXCEPT !.rules = @ + 1]

\* Settings of the kernel that nothing sets back.
TakeSysctls(s) == [s EXCEPT !.sysctl = "vpn"]

TakeRoute(s) == [s EXCEPT !.route = "tun"]

\* Whatever the gateway: a route to the VPN's IPv6 name server and a default
\* route through it, which may be refused where there is one already.
TakeRoute6(s) ==
  {[s EXCEPT !.route6 = @ \cup DeviceRoutes6]} \cup
  IF s.route6 \cap {"own", "stray"} = {} THEN {}
  ELSE {[s EXCEPT !.route6 = @ \cup {"server"}]}

TakeDns(s) ==
  [s EXCEPT !.saved = GetLinuxDnsServers, !.link = "vpn",
            !.backup = Backup(s), !.resolv = @ \cup VpnServers]

Configured(s) ==
  {TakeDns(t) : t \in TakeRoute6(TakeRoute(AppendRules(TakeSysctls(s))))}

\* Noted in additional_routes_ whatever becomes of the commands.
AddNetworks == IF gateway THEN Networks ELSE {}

\* One copy of each rule is deleted.
DeleteRules(s) == [s EXCEPT !.rules = IF @ = 0 THEN 0 ELSE @ - 1]

ReturnRoute(s) == IF gateway THEN [s EXCEPT !.route = "own"] ELSE s

\* Only with an IPv6 gateway; a default route by the VPN's address over the
\* physical interface may be refused.
ReturnRoute6(s) ==
  LET left == s.route6 \ DeviceRoutes6
  IN CASE gateway6 = "none" -> {s}
       [] gateway6 = "own"  -> {[s EXCEPT !.route6 = left \cup {"own"}]}
       [] gateway6 = "vpn"  -> {[s EXCEPT !.route6 = left \cup stray] :
                                  stray \in {{}, {"stray"}}}

\* A server of the user's that is also the VPN's goes with it.
ReturnDns(s) ==
  [s EXCEPT !.link = s.saved, !.resolv = @ \ VpnServers, !.backup = NoBackup]

Restored(s) == {ReturnDns(t) : t \in ReturnRoute6(ReturnRoute(DeleteRules(s)))}

\* The kernel drops the routes of a device that is closed.
WithoutDevice(s) ==
  [s EXCEPT !.route = IF @ = "tun" THEN "none" ELSE @, !.route6 = @ \ DeviceRoutes6]

HealStaleResolvConf(s) ==
  IF s.backup = NoBackup THEN s
  ELSE [s EXCEPT !.resolv = CHOOSE file \in s.backup : TRUE, !.backup = NoBackup]

(* Apply and Clean *)

Moves(k, from, to) == caller[k] = from /\ caller' = [caller EXCEPT ![k] = to]

\* Under mutex_ from here to Configure.  The VPN manager opens the device before.
Apply(k) ==
  /\ life = "alive" /\ device /\ Moves(k, "idle", "applying") /\ MutexFree
  /\ ~running /\ running' = TRUE
  /\ gateway' = DetectGateway
  /\ gateway6' \in DetectGateway6
  /\ UNCHANGED <<queue, worker, held, tracked, installed, doomed, life,
                 history, system, device, ipv6, crashes>>

Configure(k) ==
  /\ Moves(k, "applying", "idle")
  /\ system' \in Configured(system)
  /\ installed' = installed \cup AddNetworks
  /\ UNCHANGED <<running, queue, worker, held, tracked, doomed, life,
                 history, network, crashes>>

\* Clean looks at running_ first.  The programs call it before they stop the
\* VPN manager, the destructor once more.
CleanBegins(k) ==
  /\ running /\ (life = "cleaning" \/ (life = "alive" /\ device))
  /\ Moves(k, "idle", "dropping")
  /\ UNCHANGED <<running, queue, worker, held, tracked, installed, doomed,
                 life, history, systemVars>>

DropQueue(k) ==
  /\ Moves(k, "dropping", "locking") /\ QueueMutexFree
  /\ queue' = <<>>
  /\ UNCHANGED <<running, worker, held, tracked, installed, doomed, life, history, systemVars>>

\* Under mutex_: the routes to delete are collected, and forgotten.
CollectRoutes(k) ==
  /\ Moves(k, "locking", "deleting") /\ MutexFree
  /\ running' = FALSE
  /\ doomed' = tracked
  /\ tracked' = {} /\ refused' = {}
  /\ raced' = raced \cup {held[w] : w \in {v \in Workers :
                             worker[v] \in {"located", "adding", "failed"}}}
  /\ UNCHANGED <<queue, worker, held, installed, life, missed, systemVars>>

DeleteRoute(k, d) ==
  /\ caller[k] = "deleting" /\ d \in doomed
  /\ installed' = installed \ {d}
  /\ doomed' = doomed \ {d}
  /\ UNCHANGED <<running, queue, worker, held, tracked, caller, life, history, systemVars>>

CleanReturns(k) ==
  /\ Moves(k, "deleting", "idle") /\ doomed = {}
  /\ running' = FALSE
  /\ system' \in Restored(system)
  /\ installed' = installed \ Networks
  /\ UNCHANGED <<queue, worker, held, tracked, doomed, life,
                 history, network, crashes>>

\* The VPN manager stops: the device's routes go with it.
CloseDevice ==
  /\ life = "alive" /\ device /\ \A k \in Callers : caller[k] = "idle"
  /\ device' = FALSE
  /\ system' = WithoutDevice(system)
  /\ UNCHANGED <<running, queue, worker, held, tracked, installed, caller, doomed, life,
                 history, gateway, gateway6, ipv6, crashes>>

(* ~RouteManager, once nobody else has a reference; the VPN manager has one *)

Destroy ==
  /\ life = "alive" /\ ~device /\ \A k \in Callers : caller[k] = "idle"
  /\ life' = "flagging"
  /\ UNCHANGED <<running, queue, worker, held, tracked, installed, caller,
                 doomed, history, systemVars>>

\* worker_running_ = false, without queue_mutex_.
FlagWorkers ==
  /\ life = "flagging" /\ life' = "notifying"
  /\ UNCHANGED <<running, queue, worker, held, tracked, installed, caller,
                 doomed, history, systemVars>>

\* Defect: nobody is notified.
NobodyNotified == {}

Notified == Asleep

\* notify_all: whoever has tested the predicate and is not yet asleep misses it.
NotifyWorkers ==
  /\ life = "notifying" /\ life' = "joining"
  /\ worker' = [w \in Workers |-> IF w \in Notified THEN "top" ELSE worker[w]]
  /\ missed' = {w \in Workers : worker[w] = "tested"}
  /\ UNCHANGED <<running, queue, held, tracked, installed, caller, doomed, raced, refused,
                 systemVars>>

JoinWorkers ==
  /\ life = "joining" /\ \A w \in Workers : At(w, "exited")
  /\ life' = "cleaning"
  /\ UNCHANGED <<running, queue, worker, held, tracked, installed, caller,
                 doomed, history, systemVars>>

Destroyed ==
  /\ life = "cleaning" /\ ~running /\ \A k \in Callers : caller[k] = "idle"
  /\ life' = "gone"
  /\ UNCHANGED <<running, queue, worker, held, tracked, installed, caller,
                 doomed, history, systemVars>>

Gone == life = "gone" /\ UNCHANGED routeVars
-----------------------------------------------------------------------------
\* The network's IPv6 is taken not to come or go.
OwnRoutes6 == IF ipv6 THEN {"own"} ELSE {}

\* The object as its constructor leaves it.
Fresh ==
  [running |-> FALSE, queue |-> <<>>, worker |-> [w \in Workers |-> "top"],
   held |-> [w \in Workers |-> NoDest],
   caller |-> [k \in Callers |-> "idle"], life |-> "alive"]

RouteInit ==
  /\ running = Fresh.running /\ queue = Fresh.queue /\ worker = Fresh.worker
  /\ held = Fresh.held /\ caller = Fresh.caller /\ life = Fresh.life
  /\ tracked = {} /\ installed = {} /\ doomed = {}
  /\ raced = {} /\ missed = {} /\ refused = {}
  /\ ipv6 \in BOOLEAN
  /\ system = [route |-> "own", route6 |-> OwnRoutes6, rules |-> 0, link |-> "own",
               saved |-> "own", resolv |-> OwnServers, backup |-> NoBackup,
               sysctl |-> "own"]
  /\ gateway = FALSE /\ gateway6 = "none" /\ device = TRUE /\ crashes = 0

\* Bound on the states a crash is explored in: the system is configured, and
\* no address has a route.
CrashBound == crashes < MaxCrashes /\ installed = Networks

\* The process ends, the TUN device and its default route with it; the next one
\* heals resolv.conf first, and needs a default route again to log in.
CrashAndRestart ==
  /\ life # "gone" /\ CrashBound /\ crashes' = crashes + 1
  /\ running' = Fresh.running /\ queue' = Fresh.queue /\ worker' = Fresh.worker
  /\ held' = Fresh.held /\ caller' = Fresh.caller /\ life' = Fresh.life
  /\ tracked' = {} /\ doomed' = {} /\ missed' = {} /\ refused' = {}
  /\ gateway' = FALSE /\ gateway6' = "none" /\ device' = TRUE
  /\ raced' = installed
  /\ system' = [HealStaleResolvConf(WithoutDevice(system))
                 EXCEPT !.saved = "own", !.route = "own"]
  /\ UNCHANGED <<installed, ipv6>>

\* Each worker goes on by itself, except when it is asleep.
WorkerStep(w) ==
  \/ TakeRoutes(w) \/ FallAsleep(w) \/ CheckRunning(w)
  \/ Locate(w) \/ NoInterface(w) \/ Track(w)
  \/ AddRoute(w) \/ AddRefused(w) \/ AddFails(w) \/ Forget(w)

CallerStep ==
  \E k \in Callers :
    \/ Configure(k) \/ DropQueue(k) \/ CollectRoutes(k) \/ CleanReturns(k)
    \/ \E d \in Dest : DeleteRoute(k, d)

DestructorStep ==
  \/ FlagWorkers \/ NotifyWorkers \/ JoinWorkers \/ Destroyed
  \/ life = "cleaning" /\ \E k \in Callers : CleanBegins(k)

RouteNext ==
  \/ \E d \in Dest : Enqueue(d)
  \/ \E w \in Workers : WorkerStep(w) \/ SpuriousWakeup(w)
  \/ \E k \in Callers : Apply(k) \/ CleanBegins(k)
  \/ CallerStep \/ CloseDevice \/ Destroy \/ DestructorStep \/ CrashAndRestart \/ Gone

RouteSpec == RouteInit /\ [][RouteNext]_routeVars

\* The threads keep running; packets, callers and spurious wakeups owe nothing.
FairRouteSpec ==
  /\ RouteSpec
  /\ \A w \in Workers : WF_routeVars(WorkerStep(w))
  /\ WF_routeVars(CallerStep) /\ WF_routeVars(DestructorStep)
-----------------------------------------------------------------------------
(* Properties *)

NameServers == OwnServers \cup VpnServers

Systems ==
  [route : {"own", "tun", "none"}, route6 : SUBSET {"own", "tun", "server", "stray"},
   rules : 0..(MaxCrashes + 1), link : {"own", "vpn"}, saved : {"own", "vpn"},
   resolv : SUBSET NameServers, backup : SUBSET SUBSET NameServers, sysctl : {"own", "vpn"}]

RouteTypeOK ==
  /\ running \in BOOLEAN
  /\ queue \in Seq(Dest) /\ Len(queue) <= QueueMax
  /\ worker \in [Workers -> Places]
  /\ held \in [Workers -> Dest \cup {NoDest}]
  /\ tracked \subseteq Dest /\ refused \subseteq tracked
  /\ installed \subseteq Dest \cup Networks /\ raced \subseteq Dest \cup Networks
  /\ doomed \subseteq Dest
  /\ caller \in [Callers -> {"idle", "applying", "dropping", "locking", "deleting"}]
  /\ life \in Lives
  /\ missed \subseteq Workers
  /\ gateway \in BOOLEAN /\ gateway6 \in {"none", "own", "vpn"}
  /\ device \in BOOLEAN /\ ipv6 \in BOOLEAN /\ crashes \in 0..MaxCrashes
  /\ system \in Systems

\* An IPv4 address noted as routed, which later packets are not routed again
\* for, has its route in the system or a worker busy with it, unless the
\* system refused the route: a cleaned route is never mistaken for a present
\* one, nor one that could not be asked for (route_manager.cpp:1140).
NotedIsRouted ==
  /\ RouteTypeOK
  /\ \A d \in tracked \cap Ipv4 :
       \/ d \in installed \cup refused
       \/ \E w \in Workers : held[w] = d /\ worker[w] \in {"adding", "failed"}

\* resolv.conf lists the user's servers and none of the VPN's, but for a server
\* of both, and the backup is gone.
ResolvIsOwn ==
  /\ system.backup = NoBackup
  /\ OwnServers \ VpnServers \subseteq system.resolv /\ system.resolv \subseteq OwnServers

\* A network with IPv6 has its default route and nothing of the VPN's.  Without
\* IPv6 the VPN's routes may stay until the device closes, since Clean deletes
\* them by the gateway it detected (route_manager.cpp:877), and a default route
\* is left over the physical interface only where a later Apply took the VPN's
\* own gateway for the network's.
Ipv6IsOwn ==
  IF ipv6 THEN system.route6 = {"own"}
  ELSE /\ system.route6 \subseteq {"stray"} \cup (IF device THEN DeviceRoutes6 ELSE {})
       /\ crashes = 0 /\ gateway6 = "none" => "stray" \notin system.route6

\* After Clean no rule and no IPv4 route of the client is left, but for the
\* addresses a worker had in hand, past its locked look at running_, when Clean
\* collected them, and IPv6 is as above; the sysctls are not asked about, as
\* nothing sets them back.  What a crash leaves is healed in resolv.conf alone:
\* rules, link servers and routes may stay.
OnlyRacedRoutesLeft ==
  ~running /\ MutexFree =>
    /\ installed \subseteq raced
    /\ ResolvIsOwn
    /\ Ipv6IsOwn
    /\ crashes = 0 => system.rules = 0 /\ system.link = "own"
    /\ system.route = "own"

\* Liveness: the destructor returns, unless the process is killed or a worker
\* between its test of the queue and its sleep missed the notification.
DestructionEnds ==
  (life = "flagging") ~> (life = "gone" \/ missed # {} \/ life = "alive")
=============================================================================
