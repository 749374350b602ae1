----------------------------- MODULE VpnManager -----------------------------
(***************************************************************************)
(* The client's VPN manager (vpn_manager.cpp) over its connection manager: *)
(* Start and Stop as the command line client and the tray call them, the   *)
(* supervisor thread that restarts a lost connection, the two packet paths *)
(* that contend for mutex_, and whether the routes are applied.            *)
(*                                                                         *)
(* config_.http_client is a thin wrapper (vpn/http/client.cpp) of the      *)
(* ConnectionManager.  The route manager is here only its running_ flag:   *)
(* Apply and Clean exclude each other and do nothing the second time.      *)
(***************************************************************************)
EXTENDS ConnectionManager

CONSTANT MaxRestarts   \* kMaxFullRestarts_

ASSUME VpnAssumption == MaxRestarts \in Nat

VARIABLES
  vpnRunning,      \* VpnManager::running_
  ever_connected_, gave_up_, reconnecting_,
  restarts,        \* full_restart_count of the supervisor
  routes,          \* the routes are applied
  tun,             \* the tun device is open
  present,         \* http_client and virtual_net_interface are set
  holder,          \* the thread that holds mutex_
  supervisor,      \* where the supervisor thread is
  packets,         \* where the thread of ProcessWebSocketPackets is
  jwt,             \* the access token is known
  app              \* where the application's thread is

supVars == <<ever_connected_, gave_up_, reconnecting_, restarts>>
vpnVars == <<vpnRunning, supVars, routes, tun, present, holder, supervisor,
             packets, jwt, app>>
prepVars == <<cmVars, vpnRunning, supVars, routes, tun, holder, supervisor, packets>>
allVars == <<cmVars, vpnVars>>

Supervisors == {"off", "waiting", "looking", "asking", "quitting", "givingUp",
                "locking", "stopping", "cleaning", "backoff", "applying",
                "relocking", "restarting", "exited"}
Apps == {"options", "token", "server", "name", "credentials", "dns", "idle", "opening",
         "applying", "starting", "up", "cleaning",
         "flagging", "joining", "draining", "closingTun", "closingHttp",
         "stoppingHttp", "resetting", "destroying", "exited"}

Sup(from, to) == supervisor = from /\ supervisor' = to
App(from, to) == app = from /\ app' = to
Acquire(who)  == holder = "nobody" /\ holder' = who
Release(who)  == holder = who /\ holder' = "nobody"

\* What IsStarted() answers when its try_lock succeeds.
VpnIsStarted == vpnRunning /\ ~gave_up_ /\ (ever_connected_ \/ (present /\ IsStarted))

-----------------------------------------------------------------------------
(* Supervise *)

\* Half a second, or a notification.
Wait ==
  /\ Sup("waiting", IF vpnRunning THEN "looking" ELSE "exited")
  /\ UNCHANGED <<cmVars, vpnRunning, supVars, routes, tun, present, holder, packets, app, jwt>>

Look ==
  /\ Sup("looking", IF IsConnected THEN "waiting" ELSE "asking")
  /\ ever_connected_' = (ever_connected_ \/ IsConnected)
  /\ restarts' = IF IsConnected THEN 0 ELSE restarts
  /\ reconnecting_' = (~IsConnected /\ (ever_connected_ \/ reconnecting_))
  /\ UNCHANGED <<cmVars, vpnRunning, gave_up_, routes, tun, present, holder, packets, app, jwt>>

RestartsSpent == restarts >= MaxRestarts

\* Defect: a connection is restarted while it retries on its own.
RetryingToo == TRUE

MustRestart == ~IsStarted

Ask ==
  /\ IF ~MustRestart
       THEN Sup("asking", "waiting") /\ UNCHANGED restarts
       ELSE IF RestartsSpent
         THEN Sup("asking", "quitting") /\ UNCHANGED restarts
         ELSE Sup("asking", "locking") /\ restarts' = restarts + 1
  /\ UNCHANGED <<cmVars, vpnRunning, ever_connected_, gave_up_, reconnecting_,
                 routes, tun, present, holder, packets, app, jwt>>

CleanForGood ==
  /\ Sup("quitting", "givingUp")
  /\ routes' = FALSE
  /\ UNCHANGED <<cmVars, vpnRunning, supVars, tun, present, holder, packets, app, jwt>>

\* Defect: the supervisor just leaves.
GaveUpSilently == gave_up_

GaveUp == TRUE

GiveUp ==
  /\ Sup("givingUp", "exited")
  /\ gave_up_' = GaveUp
  /\ reconnecting_' = FALSE
  /\ UNCHANGED <<cmVars, vpnRunning, ever_connected_, restarts, routes, tun,
                 present, holder, packets, app, jwt>>

\* http_client->Stop() under mutex_.
LockAndStop ==
  /\ Sup("locking", "stopping")
  /\ Acquire("supervisor")
  /\ BeginStop
  /\ UNCHANGED <<vpnRunning, supVars, routes, tun, present, packets, app, jwt>>

\* Defect: mutex_ is kept over the cleaning of the routes and the backoff.
KeepMutex == holder

MutexAfterStop == "nobody"

HttpStopped ==
  /\ Sup("stopping", "cleaning") /\ call = "none"
  /\ holder' = MutexAfterStop
  /\ UNCHANGED <<cmVars, vpnRunning, supVars, routes, tun, present, packets, app, jwt>>

CleanRoutes ==
  /\ Sup("cleaning", "backoff")
  /\ routes' = FALSE
  /\ UNCHANGED <<cmVars, vpnRunning, supVars, tun, present, holder, packets, app, jwt>>

\* The backoff is over, or Stop has notified.
Backoff ==
  /\ Sup("backoff", IF vpnRunning THEN "applying" ELSE "exited")
  /\ UNCHANGED <<cmVars, vpnRunning, supVars, routes, tun, present, holder, packets, app, jwt>>

\* Defect: the connection comes back without its routes.
NoReapply == routes

Reapplied == TRUE

ReapplyRoutes ==
  /\ Sup("applying", "relocking")
  /\ routes' = Reapplied
  /\ UNCHANGED <<cmVars, vpnRunning, supVars, tun, present, holder, packets, app, jwt>>

LockAndStart ==
  /\ Sup("relocking", "restarting")
  /\ Acquire("supervisor")
  /\ BeginStart
  /\ UNCHANGED <<vpnRunning, supVars, routes, tun, present, packets, app, jwt>>

HttpRestarted ==
  /\ Sup("restarting", "waiting") /\ call = "none"
  /\ Release("supervisor")
  /\ UNCHANGED <<cmVars, vpnRunning, supVars, routes, tun, present, packets, app, jwt>>

-----------------------------------------------------------------------------
(* The packet paths *)

\* The tun device's thread hands a batch to the connection under mutex_.
PacketsFromTun ==
  /\ tun /\ vpnRunning
  /\ Acquire("tun")
  /\ UNCHANGED <<cmVars, vpnRunning, supVars, routes, tun, present, supervisor, packets, app, jwt>>

FromTunDone ==
  /\ Release("tun")
  /\ UNCHANGED <<cmVars, vpnRunning, supVars, routes, tun, present, supervisor, packets, app, jwt>>

\* The connection queues a batch; the worker of ProcessWebSocketPackets
\* takes it and writes it to the device under mutex_.
PacketsFromWebSocket ==
  /\ packets = "idle" /\ worker = "looping" /\ vpnRunning
  /\ packets' = "batch"
  /\ UNCHANGED <<cmVars, vpnRunning, supVars, routes, tun, present, holder, supervisor, app, jwt>>

WriteBatch ==
  /\ packets = "batch" /\ packets' = "writing"
  /\ Acquire("packets")
  /\ UNCHANGED <<cmVars, vpnRunning, supVars, routes, tun, present, supervisor, app, jwt>>

BatchWritten ==
  /\ packets = "writing" /\ packets' = "idle"
  /\ Release("packets")
  /\ UNCHANGED <<cmVars, vpnRunning, supVars, routes, tun, present, supervisor, app, jwt>>

PacketsExit ==
  /\ packets = "idle" /\ ~vpnRunning
  /\ packets' = "exited"
  /\ UNCHANGED <<cmVars, vpnRunning, supVars, routes, tun, present, holder, supervisor, app, jwt>>

-----------------------------------------------------------------------------
(* The command line client before it starts the VPN (fptn-client-cli.cpp);  *)
(* what the tray does before that is in TrayApp.  A failure ends the program. *)

Prepare(from, to) == app = from /\ app' \in {to, "exited"}

\* The arguments are parsed and a default gateway is found, or not; the other
\* options fall back to defaults.
ReadOptions ==
  /\ Prepare("options", "token")
  /\ UNCHANGED <<prepVars, present, jwt>>

\* ConfigFile::Parse: the token is decoded and lists at least one server.
ParseToken ==
  /\ Prepare("token", "server")
  /\ UNCHANGED <<prepVars, present, jwt>>

\* The server asked for, when the token lists it; otherwise the race for a
\* login, which also brings the access token.  The race may never return
\* (module LoginSearch).
ChooseServer ==
  /\ app = "server"
  /\ \/ app' = "name" /\ jwt' \in BOOLEAN
     \/ app' = "exited" /\ UNCHANGED jwt
  /\ UNCHANGED <<prepVars, present>>

\* The server's name has an address: the http client is constructed.
ResolveServer ==
  /\ Prepare("name", "credentials")
  /\ present' = (app' = "credentials")
  /\ UNCHANGED <<prepVars, jwt>>

\* Login asks the server only when there is no access token yet.
SignIn ==
  /\ IF jwt THEN App("credentials", "dns") ELSE Prepare("credentials", "dns")
  /\ jwt' = (app' = "dns")
  /\ present' = (app' = "dns")
  /\ UNCHANGED prepVars

\* GetDns makes five attempts; then the device, the route manager, the plugins
\* and the VPN manager are constructed.
AskDns ==
  /\ Prepare("dns", "idle")
  /\ present' = (app' = "idle")
  /\ UNCHANGED <<prepVars, jwt>>

(* The application: Start, the main loop, Stop, and destruction *)

Start ==
  /\ App("idle", "opening")
  /\ Acquire("app")
  /\ vpnRunning' = TRUE
  /\ UNCHANGED <<cmVars, supVars, routes, tun, present, supervisor, packets, jwt>>

\* One of the five attempts succeeds.
TunOpens ==
  /\ App("opening", "applying")
  /\ tun' = TRUE
  /\ UNCHANGED <<cmVars, vpnRunning, supVars, routes, present, holder, supervisor, packets, jwt>>

\* None does: Start returns false, which no caller looks at, with running_
\* set and neither thread started.
TunFails ==
  /\ App("opening", "up")
  /\ Release("app")
  /\ UNCHANGED <<cmVars, vpnRunning, supVars, routes, tun, present, supervisor, packets, jwt>>

ApplyRoutes ==
  /\ App("applying", "starting")
  /\ routes' = TRUE
  /\ BeginStart
  /\ UNCHANGED <<vpnRunning, supVars, tun, present, holder, supervisor, packets, jwt>>

StartThreads ==
  /\ App("starting", "up") /\ call = "none"
  /\ supervisor' = "waiting" /\ packets' = "idle"
  /\ Release("app")
  /\ UNCHANGED <<cmVars, vpnRunning, supVars, routes, tun, present, jwt>>

\* A signal, the user, or IsStarted() answered false (which its try_lock may
\* do at any time before the first connection).  The command line client
\* cleans the routes before it stops, the tray just stops.
LeaveCli ==
  /\ App("up", "cleaning")
  /\ UNCHANGED <<cmVars, vpnRunning, supVars, routes, tun, present, holder, supervisor, packets,
                 jwt>>

LeaveTray ==
  /\ App("up", "flagging")
  /\ UNCHANGED <<cmVars, vpnRunning, supVars, routes, tun, present, holder, supervisor, packets,
                 jwt>>

CleanBeforeStop ==
  /\ App("cleaning", "flagging")
  /\ routes' = FALSE
  /\ UNCHANGED <<cmVars, vpnRunning, supVars, tun, present, holder, supervisor, packets, jwt>>

\* Defect: mutex_ is not released before the threads are joined.
FlagKeepsMutex == Acquire("app")

FlagUnderMutex == holder = "nobody" /\ UNCHANGED holder

Stop ==
  /\ App("flagging", "joining")
  /\ FlagUnderMutex
  /\ vpnRunning' = FALSE
  /\ UNCHANGED <<cmVars, supVars, routes, tun, present, supervisor, packets, jwt>>

\* Defect: Stop does not wait for the supervisor.
NotJoined == TRUE

SupervisorJoined == supervisor \in {"off", "exited"}

JoinSupervisor ==
  /\ App("joining", "draining") /\ SupervisorJoined
  /\ UNCHANGED <<cmVars, vpnRunning, supVars, routes, tun, present, holder, supervisor, packets,
                 jwt>>

JoinPackets ==
  /\ App("draining", "closingTun") /\ packets \in {"off", "exited"}
  /\ UNCHANGED <<cmVars, vpnRunning, supVars, routes, tun, present, holder, supervisor, packets,
                 jwt>>

\* The device joins its thread.
StopTun ==
  /\ App("closingTun", "closingHttp") /\ holder # "tun"
  /\ tun' = FALSE
  /\ UNCHANGED <<cmVars, vpnRunning, supVars, routes, present, holder, supervisor, packets, jwt>>

StopHttp ==
  /\ App("closingHttp", "stoppingHttp")
  /\ BeginStop
  /\ UNCHANGED <<vpnRunning, supVars, routes, tun, present, holder, supervisor, packets, jwt>>

StopHttpDone ==
  /\ App("stoppingHttp", "resetting") /\ call = "none"
  /\ UNCHANGED <<cmVars, vpnRunning, supVars, routes, tun, present, holder, supervisor, packets,
                 jwt>>

ResetClients ==
  /\ App("resetting", "destroying") /\ holder = "nobody"
  /\ present' = FALSE
  /\ UNCHANGED <<cmVars, vpnRunning, supVars, routes, tun, holder, supervisor, packets, jwt>>

\* Defect: the route manager's destructor leaves the routes alone.
LeftBehind == routes

RoutesAfterDestruction == FALSE

\* The last reference to the route manager goes with the VpnManager.
DestroyRouteManager ==
  /\ App("destroying", "exited")
  /\ routes' = RoutesAfterDestruction
  /\ UNCHANGED <<cmVars, vpnRunning, supVars, tun, present, holder, supervisor, packets, jwt>>

Exited == app = "exited" /\ UNCHANGED allVars
-----------------------------------------------------------------------------
VpnInit ==
  /\ CmInit
  /\ vpnRunning = FALSE /\ routes = FALSE /\ tun = FALSE
  /\ ever_connected_ = FALSE /\ gave_up_ = FALSE /\ reconnecting_ = FALSE
  /\ restarts = 0
  /\ holder = "nobody"
  /\ supervisor = "off" /\ packets = "off"
  /\ app \in {"options", "idle"}      \* the command line client, the tray
  /\ present = (app = "idle") /\ jwt = (app = "idle")

LockingStep == LockAndStop \/ LockAndStart
SupervisorStep ==
  \/ Wait \/ Look \/ Ask \/ CleanForGood \/ GiveUp \/ HttpStopped
  \/ CleanRoutes \/ Backoff \/ ReapplyRoutes \/ HttpRestarted

PacketStep == FromTunDone \/ BatchWritten \/ PacketsExit

AppStep ==
  \/ ReadOptions \/ ParseToken \/ ResolveServer \/ SignIn \/ AskDns
  \/ TunOpens \/ TunFails \/ ApplyRoutes \/ StartThreads
  \/ CleanBeforeStop \/ JoinSupervisor \/ JoinPackets \/ StopTun
  \/ StopHttp \/ StopHttpDone \/ ResetClients \/ DestroyRouteManager

VpnNext ==
  \/ CmStep /\ UNCHANGED vpnVars
  \/ SupervisorStep \/ LockingStep
  \/ PacketsFromTun \/ PacketsFromWebSocket \/ WriteBatch \/ PacketStep
  \/ ChooseServer \/ Start \/ LeaveCli \/ LeaveTray \/ Stop \/ AppStep \/ Exited

VpnSpec == VpnInit /\ [][VpnNext]_allVars

\* Every thread keeps running, and a thread blocked on mutex_ gets it in the
\* end though the packet paths take it again and again.  The network, the
\* device and the user owe nothing.
FairVpnSpec ==
  /\ VpnSpec
  /\ WF_allVars(WorkerStep /\ UNCHANGED vpnVars)
  /\ WF_allVars(LoopReturns /\ loop = "stopped" /\ UNCHANGED vpnVars)
  /\ WF_allVars(CallStep /\ UNCHANGED vpnVars)
  /\ WF_allVars(SupervisorStep) /\ WF_allVars(PacketStep) /\ WF_allVars(AppStep)
  /\ SF_allVars(LockingStep) /\ SF_allVars(WriteBatch) /\ SF_allVars(Stop)
-----------------------------------------------------------------------------
(* Properties *)

VpnTypeOK ==
  /\ CmTypeOK
  /\ vpnRunning \in BOOLEAN /\ routes \in BOOLEAN /\ tun \in BOOLEAN
  /\ present \in BOOLEAN /\ ever_connected_ \in BOOLEAN
  /\ gave_up_ \in BOOLEAN /\ reconnecting_ \in BOOLEAN
  /\ restarts \in 0..MaxRestarts
  /\ holder \in {"nobody", "supervisor", "tun", "packets", "app"}
  /\ supervisor \in Supervisors
  /\ packets \in {"off", "idle", "batch", "writing", "exited"}
  /\ app \in Apps /\ jwt \in BOOLEAN

\* While the application is up a running connection has its routes, across
\* every restart; one that was given up has none, and none is left when the
\* program exits, though the supervisor may apply them after the client has
\* cleaned them (vpn_manager.cpp:366-406, fptn-client-cli.cpp:606-607).
RoutesFollowConnection ==
  /\ app = "up" /\ running /\ call = "none" => routes
  /\ gave_up_ \/ app = "exited" => ~routes

\* A connection manager that says it is started has its worker, and a VPN
\* manager that does, once it has connected, its supervisor: no lost connection
\* goes unnoticed; and the supervisor
\* restarts only a connection whose worker is done, never one that still
\* retries on its own (vpn_manager.cpp:50-55, 362).
SupervisedWhileStarted ==
  /\ VpnTypeOK /\ StartedHasWorker
  /\ VpnIsStarted /\ ever_connected_ => supervisor \notin {"off", "exited"}
  /\ supervisor \in {"locking", "stopping", "cleaning", "backoff", "applying", "relocking"}
       => ~running /\ worker \in {"off", "exited"}

\* Nothing uses the strategy, the http client or the device once the Stop of
\* either manager has reset them (connection_manager.cpp:213-225,
\* vpn_manager.cpp:129-193).
NoUseAfterReset ==
  /\ NoResetWhileUsed
  /\ ~present => /\ supervisor \in {"off", "exited"}
                 /\ packets \in {"off", "exited"}
                 /\ holder = "nobody" /\ worker = "off"

\* Liveness: a connection the supervisor has found dead is started again,
\* unless the user stops the VPN meanwhile.
LossAnswered == (supervisor = "locking") ~> (running \/ ~vpnRunning)

\* Liveness: Stop ends and the program exits, whatever thread holds mutex_ or
\* waits; except in the one case where the connection manager's worker spins.
StopEndsOrSpins == (app = "flagging") ~> (app = "exited" \/ Spinning)
=============================================================================
