-------------------------- MODULE VpnManagerProofs --------------------------
(***************************************************************************)
(* Theorems about the connection manager, for every MaxReconnections: its  *)
(* type, the life of the strategy object, and that a worker which spins on *)
(* a stopped io_context does so for ever.  Then about the VPN manager, for *)
(* any number of attempts and of restarts: that the connection manager     *)
(* inside it behaves as one on its own, that a started connection is       *)
(* supervised and has its routes, and that nothing is used after Stop has  *)
(* reset it.                                                               *)
(***************************************************************************)
EXTENDS VpnManager, TLAPS

(* The connection manager on its own *)

\* From its flag on Stop has cleared running_, and from its join on there is
\* no worker.
CallerCleared ==
  /\ call \in {"looking", "stopping", "breaking", "joining", "resetting", "spawning"}
       => ~running
  /\ call \in {"resetting", "spawning"} => worker = "off"

\* A worker that passed the check of its attempts has one left to count.
AttemptCounted ==
  worker \in {"creating", "deciding", "launching", "looping", "returned",
              "cleaning", "counting"}
    => attempts < MaxReconnections

\* What the worker is about to launch is a strategy with an io_context that
\* has not been stopped, unless a Stop has come by since.
LaunchesFresh ==
  /\ (worker = "deciding" /\ running) => strategy /\ loop = "fresh"
  /\ worker = "launching" => loop = "fresh" \/ call = "joining"
  /\ Spinning => call = "joining"

\* The inductive invariant of the connection manager.
CmInv ==
  /\ CmTypeOK
  /\ NoResetWhileUsed
  /\ StartedHasWorker
  /\ CallerCleared
  /\ AttemptCounted
  /\ LaunchesFresh

LEMMA CmInitInv == CmInit => CmInv
<1> SUFFICES ASSUME CmInit PROVE CmInv
  OBVIOUS
<1>1. attempts \in 0..MaxReconnections
  BY ManagerAssumption DEF CmInit
<1>2. CmTypeOK
  BY <1>1, Zenon DEF CmInit, CmTypeOK, Workers, Calls
<1>3. NoResetWhileUsed /\ StartedHasWorker /\ CallerCleared /\ AttemptCounted
        /\ LaunchesFresh
  BY Zenon DEF CmInit, NoResetWhileUsed, StartedHasWorker, CallerCleared,
     AttemptCounted, LaunchesFresh, Spinning
<1>4. QED
  BY <1>2, <1>3 DEF CmInv

\* The steps of the worker keep the invariant.
LEMMA WorkerInv ==
  ASSUME CmInv, WorkerStep
  PROVE  CmInv'
<1> USE ManagerAssumption
    DEF CmInv, CmTypeOK, NoResetWhileUsed, StartedHasWorker, CallerCleared,
        AttemptCounted, LaunchesFresh, Spinning, Workers, Calls, Work, Tunnel
<1>1. CASE CheckAttempts
  BY <1>1 DEF CheckAttempts, AttemptsLeft
<1>2. CASE CreateStrategy
  BY <1>2 DEF CreateStrategy, MayCreate
<1>3. CASE Decide
  BY <1>3 DEF Decide
<1>4. CASE Launch
  BY <1>4 DEF Launch
<1>5. CASE AfterLoop
  BY <1>5 DEF AfterLoop
<1>6. CASE CleanStrategy
  BY <1>6 DEF CleanStrategy, MayClean
<1>7. CASE EndRun
  BY <1>7 DEF EndRun, RunningAfterRun
<1>8. CASE \E late \in BOOLEAN : CountAttempt(late)
  BY <1>8 DEF CountAttempt
<1>9. QED
  BY <1>1, <1>2, <1>3, <1>4, <1>5, <1>6, <1>7, <1>8 DEF WorkerStep

\* The steps of the strategy's event loop keep the invariant.
LEMMA LoopInv ==
  ASSUME CmInv, LoopReturns \/ Spin \/ PoolStep
  PROVE  CmInv'
<1> USE DEF CmInv, CmTypeOK, NoResetWhileUsed, StartedHasWorker, CallerCleared,
        AttemptCounted, LaunchesFresh, Spinning, Workers, Calls, Work, Tunnel
<1>1. CASE LoopReturns
  BY <1>1 DEF LoopReturns
<1>2. CASE Spin
  BY <1>2 DEF Spin, cmVars
<1>3. CASE PoolChanges
  BY <1>3 DEF PoolChanges, HandlersRun
<1>4. CASE PoolLost
  BY <1>4 DEF PoolLost, HandlersRun
<1>5. QED
  BY <1>1, <1>2, <1>3, <1>4 DEF PoolStep

\* The steps of Start and Stop keep the invariant.
LEMMA CallInv ==
  ASSUME CmInv, CallStep \/ BeginStart \/ BeginStop
  PROVE  CmInv'
<1> USE ManagerAssumption
    DEF CmInv, CmTypeOK, NoResetWhileUsed, StartedHasWorker, CallerCleared,
        AttemptCounted, LaunchesFresh, Spinning, Workers, Calls, Call, Tunnel
<1>1. CASE BeginStart
  BY <1>1 DEF BeginStart
<1>2. CASE BeginStop
  BY <1>2 DEF BeginStop
<1>3. CASE FlagStop
  BY <1>3 DEF FlagStop
<1>4. CASE LookAtStrategy
  BY <1>4 DEF LookAtStrategy
<1>5. CASE StopStrategy
  BY <1>5 DEF StopStrategy
<1>6. CASE BreakLoop
  BY <1>6 DEF BreakLoop, LoopAfterStop
<1>7. CASE JoinWorker
  BY <1>7 DEF JoinWorker, Joined
<1>8. CASE ResetStrategy
  BY <1>8 DEF ResetStrategy
<1>9. CASE SpawnWorker
  BY <1>9 DEF SpawnWorker
<1>10. QED
  BY <1>1, <1>2, <1>3, <1>4, <1>5, <1>6, <1>7, <1>8, <1>9 DEF CallStep

LEMMA CmStepInv == CmInv /\ [CmNext]_cmVars => CmInv'
<1>1. CASE UNCHANGED cmVars
  BY <1>1 DEF CmInv, CmTypeOK, NoResetWhileUsed, StartedHasWorker, CallerCleared,
     AttemptCounted, LaunchesFresh, Spinning, cmVars
<1>2. CASE CmNext
  BY <1>2, WorkerInv, LoopInv, CallInv DEF CmNext, CmStep
<1>3. QED
  BY <1>1, <1>2

\* The invariant holds in every state of Start, Stop and the worker.
THEOREM ManagerInvariant == CmSpec => []CmInv
  BY CmInitInv, CmStepInv, PTL DEF CmSpec

\* Every variable of the manager keeps its type; the attempts never exceed
\* their maximum (connection_manager.cpp:318-345).
THEOREM ManagerTypeCorrect == CmSpec => []CmTypeOK
<1>1. CmInv => CmTypeOK
  BY DEF CmInv
<1>2. QED
  BY <1>1, ManagerInvariant, PTL

\* Stop never destroys the strategy object that the worker runs: it joins
\* first (connection_manager.cpp:213-225).
THEOREM NeverResetWhileUsed == CmSpec => []NoResetWhileUsed
<1>1. CmInv => NoResetWhileUsed
  BY DEF CmInv
<1>2. QED
  BY <1>1, ManagerInvariant, PTL

\* A manager that says it is started has a worker.
THEOREM StartedMeansWorker == CmSpec => []StartedHasWorker
<1>1. CmInv => StartedHasWorker
  BY DEF CmInv
<1>2. QED
  BY <1>1, ManagerInvariant, PTL

\* While Stop uses strategy_connection_ without the mutex, the worker neither
\* replaces it nor drops it (connection_manager.cpp:209-216).
THEOREM StrategyNotDropped == CmSpec => StrategyKept
<1> DEFINE Kept == call \in {"looking", "stopping", "breaking", "joining"}
                     => strategy' = strategy
<1>1. CmInv /\ [CmNext]_cmVars => [Kept]_cmVars
  <2> SUFFICES ASSUME CmInv, CmNext,
                      call \in {"looking", "stopping", "breaking", "joining"}
               PROVE  strategy' = strategy
    BY DEF cmVars
  <2>1. ~running
    BY DEF CmInv, CallerCleared
  <2>2. CASE WorkerStep
    BY <2>1, <2>2 DEF WorkerStep, CheckAttempts, CreateStrategy, MayCreate, Decide,
       Launch, AfterLoop, CleanStrategy, MayClean, EndRun, CountAttempt
  <2>3. CASE LoopReturns \/ Spin \/ PoolStep
    BY <2>3 DEF LoopReturns, Spin, PoolStep, PoolChanges, PoolLost, Tunnel, cmVars
  <2>4. CASE CallStep \/ BeginStart \/ BeginStop
    BY <2>4 DEF CallStep, BeginStart, BeginStop, FlagStop, LookAtStrategy, StopStrategy,
       BreakLoop, JoinWorker, ResetStrategy, SpawnWorker, Call
  <2>5. QED
    BY <2>2, <2>3, <2>4 DEF CmNext, CmStep
<1>2. QED
  BY <1>1, ManagerInvariant, PTL DEF CmSpec, StrategyKept

\* A worker that spins does so for ever, and the Stop that joins it never
\* moves on: no step of any thread ends it (base_strategy_connection.cpp:61).
THEOREM SpinIsForever == CmSpec => [][Spinning => (Spinning' /\ call' = "joining")]_cmVars
<1>1. CmInv /\ [CmNext]_cmVars
        => [Spinning => (Spinning' /\ call' = "joining")]_cmVars
  <2> SUFFICES ASSUME CmInv, CmNext, Spinning
               PROVE  Spinning' /\ call' = "joining"
    BY DEF cmVars
  <2>1. call = "joining" /\ worker = "looping" /\ tunnelRunning /\ loop = "stopped"
    BY DEF CmInv, LaunchesFresh, Spinning
  <2>2. CASE WorkerStep
    BY <2>1, <2>2 DEF WorkerStep, CheckAttempts, CreateStrategy, Decide, Launch,
       AfterLoop, CleanStrategy, EndRun, CountAttempt, Work
  <2>3. CASE LoopReturns \/ Spin \/ PoolStep
    BY <2>1, <2>3 DEF LoopReturns, Spin, Spinning, PoolStep, PoolChanges, PoolLost,
       HandlersRun, cmVars
  <2>4. CASE CallStep \/ BeginStart \/ BeginStop
    BY <2>1, <2>4 DEF CallStep, BeginStart, BeginStop, FlagStop, LookAtStrategy,
       StopStrategy, BreakLoop, JoinWorker, Joined, ResetStrategy, SpawnWorker, Call
  <2>5. QED
    BY <2>2, <2>3, <2>4 DEF CmNext, CmStep
<1>2. QED
  BY <1>1, ManagerInvariant, PTL DEF CmSpec
-----------------------------------------------------------------------------
(* The VPN manager *)

Preparing  == {"options", "token", "server", "name", "credentials", "dns", "idle"}
Opening    == {"opening", "applying", "starting"}
Running    == {"up", "cleaning", "flagging"}
HttpClosed == {"closingHttp", "stoppingHttp", "resetting", "destroying", "exited"}

\* The supervisor has found the connection dead and not yet started it again.
Restarting == {"quitting", "givingUp", "locking", "stopping", "cleaning",
               "backoff", "applying", "relocking"}

\* Whether the worker runs and running_ agree, but while Stop joins it.
WorkerAgrees ==
  /\ ~running => \/ worker \in {"off", "exited"}
                 \/ call \in {"looking", "stopping", "breaking", "joining"}
  /\ call = "spawning" => starting

\* mutex_ is held by the thread that is at a place where it holds it.
HolderAgrees ==
  /\ (holder = "supervisor") <=> (supervisor \in {"stopping", "restarting"})
  /\ (holder = "app") <=> (app \in Opening)
  /\ (holder = "packets") <=> (packets = "writing")
  /\ holder = "tun" => tun

\* One thread at a time is in Start or Stop of the connection manager.
OneCaller ==
  /\ call # "none" => \/ supervisor \in {"stopping", "restarting"}
                      \/ app \in {"starting", "stoppingHttp"}
  /\ supervisor = "stopping" \/ app = "stoppingHttp" => call = "none" \/ ~starting
  /\ app = "stoppingHttp" /\ call = "none" => worker = "off"

\* How far the application is and which threads it has started or joined.
ThreadsFollowApp ==
  /\ app \in Preparing \cup Opening => supervisor = "off" /\ packets = "off"
  /\ app \in {"draining", "closingTun"} \cup HttpClosed => supervisor \in {"off", "exited"}
  /\ app \in {"closingTun"} \cup HttpClosed => packets \in {"off", "exited"}
  /\ app \in HttpClosed => ~tun
  /\ app \in Preparing => ~tun /\ ~vpnRunning
  /\ app \in Opening \cup Running => vpnRunning
  /\ present <=> (app \notin {"options", "token", "server", "name", "destroying", "exited"})
  /\ app \in Preparing \cup {"opening", "applying", "resetting", "destroying", "exited"}
       => worker = "off" /\ ~running

\* What the supervisor's place says of the connection and the supervision.
SupervisorKnows ==
  /\ supervisor = "off" => ~ever_connected_ /\ ~gave_up_
  /\ supervisor = "off" /\ app # "starting" => ~running /\ worker = "off"
  /\ supervisor \in Restarting => ~running /\ worker \in {"off", "exited"}
  /\ supervisor = "exited" => ~vpnRunning \/ gave_up_
  /\ gave_up_ => supervisor = "exited" /\ ~running

\* When the routes are applied, and when they are not.
RoutesAgree ==
  /\ app \in Preparing \cup {"opening", "applying"} => ~routes
  /\ app = "starting" => routes
  /\ app = "up" /\ supervisor \notin {"off", "exited", "givingUp", "backoff", "applying"} => routes
  /\ supervisor = "givingUp" \/ gave_up_ => ~routes
  /\ app = "exited" => ~routes

\* The inductive invariant of the VPN manager, on top of CmInv.
VpnInv ==
  /\ VpnTypeOK
  /\ WorkerAgrees
  /\ HolderAgrees
  /\ OneCaller
  /\ ThreadsFollowApp
  /\ SupervisorKnows
  /\ RoutesAgree

LEMMA VpnInitInv == VpnInit => VpnInv
<1> SUFFICES ASSUME VpnInit PROVE VpnInv
  OBVIOUS
<1>1. VpnTypeOK
  <2>1. CmTypeOK
    BY CmInitInv DEF VpnInit, CmInv
  <2>2. restarts \in 0..MaxRestarts
    BY VpnAssumption DEF VpnInit
  <2>3. QED
    BY <2>1, <2>2, Zenon DEF VpnInit, VpnTypeOK, Supervisors, Apps
<1>2. WorkerAgrees /\ HolderAgrees /\ OneCaller /\ ThreadsFollowApp
        /\ SupervisorKnows /\ RoutesAgree
  BY DEF VpnInit, CmInit, WorkerAgrees, HolderAgrees, OneCaller, ThreadsFollowApp,
     SupervisorKnows, RoutesAgree, Preparing, Opening, Running, HttpClosed, Restarting
<1>3. QED
  BY <1>1, <1>2 DEF VpnInv

\* What the connection manager does inside the VPN manager it could do alone.
LEMMA VpnStepIsCmStep == [VpnNext]_allVars => [CmNext]_cmVars
<1> SUFFICES ASSUME VpnNext \/ UNCHANGED allVars PROVE CmNext \/ UNCHANGED cmVars
  OBVIOUS
<1>1. CASE (CmStep /\ UNCHANGED vpnVars) \/ LockingStep
  BY <1>1 DEF CmNext, LockingStep, LockAndStop, LockAndStart
<1>2. CASE SupervisorStep
  BY <1>2 DEF SupervisorStep, Wait, Look, Ask, CleanForGood, GiveUp, HttpStopped,
     CleanRoutes, Backoff, ReapplyRoutes, HttpRestarted
<1>3. CASE PacketsFromTun \/ PacketsFromWebSocket \/ WriteBatch \/ PacketStep
  BY <1>3 DEF PacketsFromTun, PacketsFromWebSocket, WriteBatch, PacketStep, FromTunDone,
     BatchWritten, PacketsExit
<1>4. CASE ChooseServer \/ Start \/ LeaveCli \/ LeaveTray \/ Stop
  BY <1>4 DEF ChooseServer, Start, LeaveCli, LeaveTray, Stop, prepVars
<1>5. CASE AppStep
  BY <1>5 DEF AppStep, CmNext, ReadOptions, ParseToken, ResolveServer, SignIn, AskDns,
     TunOpens, TunFails, ApplyRoutes, StartThreads, CleanBeforeStop, JoinSupervisor,
     JoinPackets, StopTun, StopHttp, StopHttpDone, ResetClients, DestroyRouteManager, prepVars
<1>6. CASE Exited \/ UNCHANGED allVars
  BY <1>6 DEF Exited, allVars
<1>7. QED
  BY <1>1, <1>2, <1>3, <1>4, <1>5, <1>6 DEF VpnNext

\* The VPN manager drives its connection manager within the latter's
\* specification: never two threads at once in Start and Stop
\* (vpn_manager.cpp:76-139, 335-410).
THEOREM DrivesConnectionManager == VpnSpec => CmSpec
<1>1. VpnInit => CmInit
  BY DEF VpnInit
<1>2. QED
  BY <1>1, VpnStepIsCmStep, PTL DEF VpnSpec, CmSpec

\* Every step keeps the types, given those of the connection manager.
LEMMA VpnTypeInv ==
  ASSUME VpnTypeOK, CmTypeOK', [VpnNext]_allVars
  PROVE  VpnTypeOK'
<1> USE VpnAssumption
    DEF VpnTypeOK, Sup, App, Prepare, Acquire, Release, vpnVars, prepVars, supVars
<1>1. CASE Wait
  BY <1>1 DEF Wait, Supervisors
<1>2. CASE Look
  BY <1>2 DEF Look, IsConnected, Supervisors
<1>3. CASE Ask
  BY <1>3 DEF Ask, MustRestart, RestartsSpent, Supervisors
<1>4. CASE CleanForGood
  <2>1. supervisor' \in Supervisors
    BY <1>4 DEF CleanForGood, Supervisors
  <2>2. QED
    BY <1>4, <2>1 DEF CleanForGood
<1>5. CASE GiveUp
  <2>1. supervisor' \in Supervisors
    BY <1>5 DEF GiveUp, Supervisors
  <2>2. QED
    BY <1>5, <2>1 DEF GiveUp, GaveUp
<1>6. CASE HttpStopped
  BY <1>6 DEF HttpStopped, MutexAfterStop, Supervisors
<1>7. CASE CleanRoutes
  <2>1. supervisor' \in Supervisors
    BY <1>7 DEF CleanRoutes, Supervisors
  <2>2. QED
    BY <1>7, <2>1 DEF CleanRoutes
<1>8. CASE Backoff
  BY <1>8 DEF Backoff, Supervisors
<1>9. CASE ReapplyRoutes
  BY <1>9 DEF ReapplyRoutes, Reapplied, Supervisors
<1>10. CASE HttpRestarted
  BY <1>10 DEF HttpRestarted, Supervisors
<1>11. CASE LockAndStop
  BY <1>11 DEF LockAndStop, BeginStop, Call, Supervisors
<1>12. CASE LockAndStart
  BY <1>12 DEF LockAndStart, BeginStart, Call, Supervisors
<1>13. CASE PacketsFromTun
  BY <1>13 DEF PacketsFromTun
<1>14. CASE FromTunDone
  BY <1>14 DEF FromTunDone
<1>15. CASE PacketsFromWebSocket
  BY <1>15 DEF PacketsFromWebSocket
<1>16. CASE WriteBatch
  BY <1>16 DEF WriteBatch
<1>17. CASE BatchWritten
  BY <1>17 DEF BatchWritten
<1>18. CASE PacketsExit
  BY <1>18 DEF PacketsExit
<1>19. CASE ReadOptions
  BY <1>19 DEF ReadOptions, Apps
<1>20. CASE ParseToken
  BY <1>20 DEF ParseToken, Apps
<1>21. CASE ResolveServer
  BY <1>21 DEF ResolveServer, Apps
<1>22. CASE SignIn
  BY <1>22 DEF SignIn, Apps
<1>23. CASE AskDns
  BY <1>23 DEF AskDns, Apps
<1>24. CASE ChooseServer
  BY <1>24 DEF ChooseServer, Apps
<1>25. CASE Start
  BY <1>25 DEF Start, Apps
<1>26. CASE TunOpens
  BY <1>26 DEF TunOpens, Apps
<1>27. CASE TunFails
  BY <1>27 DEF TunFails, Apps
<1>28. CASE ApplyRoutes
  BY <1>28 DEF ApplyRoutes, BeginStart, Call, Apps
<1>29. CASE StartThreads
  BY <1>29 DEF StartThreads, Apps, Supervisors
<1>30. CASE LeaveCli
  BY <1>30 DEF LeaveCli, Apps
<1>31. CASE LeaveTray
  BY <1>31 DEF LeaveTray, Apps
<1>32. CASE CleanBeforeStop
  <2>1. app' \in Apps
    BY <1>32 DEF CleanBeforeStop, Apps
  <2>2. QED
    BY <1>32, <2>1 DEF CleanBeforeStop
<1>33. CASE Stop
  <2>1. app' \in Apps
    BY <1>33 DEF Stop, Apps
  <2>2. QED
    BY <1>33, <2>1 DEF Stop, FlagUnderMutex
<1>34. CASE JoinSupervisor
  BY <1>34 DEF JoinSupervisor, SupervisorJoined, Apps
<1>35. CASE JoinPackets
  BY <1>35 DEF JoinPackets, Apps
<1>36. CASE StopTun
  <2>1. app' \in Apps
    BY <1>36 DEF StopTun, Apps
  <2>2. QED
    BY <1>36, <2>1 DEF StopTun
<1>37. CASE StopHttp
  BY <1>37 DEF StopHttp, BeginStop, Call, Apps
<1>38. CASE StopHttpDone
  BY <1>38 DEF StopHttpDone, CmInv, StartedHasWorker, Apps
<1>39. CASE ResetClients
  <2>1. app' \in Apps
    BY <1>39 DEF ResetClients, Apps
  <2>2. QED
    BY <1>39, <2>1 DEF ResetClients
<1>40. CASE DestroyRouteManager
  <2>1. app' \in Apps
    BY <1>40 DEF DestroyRouteManager, Apps
  <2>2. QED
    BY <1>40, <2>1 DEF DestroyRouteManager, RoutesAfterDestruction
<1>41. CASE CmStep /\ UNCHANGED vpnVars
  BY <1>41
<1>42. CASE UNCHANGED allVars
  BY <1>42 DEF allVars
<1>43. QED
  BY <1>1, <1>2, <1>3, <1>4, <1>5, <1>6, <1>7, <1>8, <1>9, <1>10, <1>11, <1>12, <1>13, <1>14,
       <1>15, <1>16, <1>17, <1>18, <1>19, <1>20, <1>21, <1>22, <1>23, <1>24, <1>25, <1>26,
       <1>27, <1>28, <1>29, <1>30, <1>31, <1>32, <1>33, <1>34, <1>35, <1>36, <1>37, <1>38,
       <1>39, <1>40, <1>41, <1>42
     DEF VpnNext, SupervisorStep, LockingStep, PacketStep, AppStep, Exited

\* The steps of the supervisor keep the invariant.
LEMMA SupervisorInv ==
  ASSUME VpnInv, CmInv, CmInv', SupervisorStep \/ LockingStep
  PROVE  VpnInv'
<1> USE VpnAssumption
    DEF cmVars, supVars, VpnInv, WorkerAgrees, HolderAgrees, OneCaller, ThreadsFollowApp,
        SupervisorKnows, RoutesAgree, Preparing, Opening, Running, HttpClosed, Restarting,
             Supervisors, Sup, Acquire, Release, IsStarted
<1> VpnTypeOK /\ VpnTypeOK'
  BY VpnTypeInv DEF VpnNext, SupervisorStep, LockingStep, VpnInv, CmInv
<1>1. CASE Wait
  BY <1>1 DEF Wait
<1>2. CASE Look
  BY <1>2 DEF Look, IsConnected
<1>3. CASE Ask
  BY <1>3 DEF Ask, MustRestart, RestartsSpent
<1>4. CASE CleanForGood
  BY <1>4 DEF CleanForGood
<1>5. CASE GiveUp
  BY <1>5 DEF GiveUp, GaveUp
<1>6. CASE HttpStopped
  BY <1>6 DEF HttpStopped, MutexAfterStop
<1>7. CASE CleanRoutes
  BY <1>7 DEF CleanRoutes
<1>8. CASE Backoff
  BY <1>8 DEF Backoff
<1>9. CASE ReapplyRoutes
  BY <1>9 DEF ReapplyRoutes, Reapplied
<1>10. CASE HttpRestarted
  BY <1>10 DEF HttpRestarted
<1>11. CASE LockAndStop
  BY <1>11 DEF LockAndStop, BeginStop, Call
<1>12. CASE LockAndStart
  BY <1>12 DEF LockAndStart, BeginStart, Call
<1>13. QED
  BY <1>1, <1>2, <1>3, <1>4, <1>5, <1>6, <1>7, <1>8, <1>9, <1>10, <1>11, <1>12
       DEF SupervisorStep, LockingStep

\* The packet paths keep the invariant.
LEMMA PacketInv ==
  ASSUME VpnInv, CmInv, CmInv', PacketsFromTun \/ PacketsFromWebSocket \/ WriteBatch \/ PacketStep
  PROVE  VpnInv'
<1> USE VpnAssumption
    DEF cmVars, supVars, VpnInv, WorkerAgrees, HolderAgrees, OneCaller, ThreadsFollowApp,
        SupervisorKnows, RoutesAgree, Preparing, Opening, Running, HttpClosed, Restarting,
             Acquire, Release
<1> VpnTypeOK /\ VpnTypeOK'
  BY VpnTypeInv DEF VpnNext, PacketStep, VpnInv, CmInv
<1>1. CASE PacketsFromTun
  BY <1>1 DEF PacketsFromTun
<1>2. CASE FromTunDone
  BY <1>2 DEF FromTunDone
<1>3. CASE PacketsFromWebSocket
  BY <1>3 DEF PacketsFromWebSocket
<1>4. CASE WriteBatch
  BY <1>4 DEF WriteBatch
<1>5. CASE BatchWritten
  BY <1>5 DEF BatchWritten
<1>6. CASE PacketsExit
  BY <1>6 DEF PacketsExit
<1>7. QED
  BY <1>1, <1>2, <1>3, <1>4, <1>5, <1>6 DEF PacketStep

\* The application's thread keeps the invariant.
LEMMA AppInv ==
  ASSUME VpnInv, CmInv, CmInv', AppStep \/ ChooseServer \/ Start \/ LeaveCli \/ LeaveTray \/ Stop
  PROVE  VpnInv'
<1> USE VpnAssumption
    DEF cmVars, supVars, VpnInv, WorkerAgrees, HolderAgrees, OneCaller, ThreadsFollowApp,
        SupervisorKnows, RoutesAgree, Preparing, Opening, Running, HttpClosed, Restarting, Apps,
             App, Prepare, Acquire, Release, prepVars
<1> VpnTypeOK /\ VpnTypeOK'
  BY VpnTypeInv DEF VpnNext, AppStep, VpnInv, CmInv
<1>1. CASE ReadOptions
  BY <1>1 DEF ReadOptions
<1>2. CASE ParseToken
  BY <1>2 DEF ParseToken
<1>3. CASE ResolveServer
  BY <1>3 DEF ResolveServer
<1>4. CASE SignIn
  BY <1>4 DEF SignIn
<1>5. CASE AskDns
  BY <1>5 DEF AskDns
<1>6. CASE ChooseServer
  BY <1>6 DEF ChooseServer
<1>7. CASE Start
  BY <1>7 DEF Start
<1>8. CASE TunOpens
  BY <1>8 DEF TunOpens
<1>9. CASE TunFails
  BY <1>9 DEF TunFails
<1>10. CASE ApplyRoutes
  BY <1>10 DEF ApplyRoutes, BeginStart, Call
<1>11. CASE StartThreads
  BY <1>11 DEF StartThreads
<1>12. CASE LeaveCli
  BY <1>12 DEF LeaveCli
<1>13. CASE LeaveTray
  BY <1>13 DEF LeaveTray
<1>14. CASE CleanBeforeStop
  BY <1>14 DEF CleanBeforeStop
<1>15. CASE Stop
  BY <1>15 DEF Stop, FlagUnderMutex
<1>16. CASE JoinSupervisor
  BY <1>16 DEF JoinSupervisor, SupervisorJoined
<1>17. CASE JoinPackets
  BY <1>17 DEF JoinPackets
<1>18. CASE StopTun
  BY <1>18 DEF StopTun
<1>19. CASE StopHttp
  BY <1>19 DEF StopHttp, BeginStop, Call
<1>20. CASE StopHttpDone
  BY <1>20 DEF StopHttpDone, CmInv, StartedHasWorker
<1>21. CASE ResetClients
  BY <1>21 DEF ResetClients
<1>22. CASE DestroyRouteManager
  BY <1>22 DEF DestroyRouteManager, RoutesAfterDestruction
<1>23. QED
  BY <1>1, <1>2, <1>3, <1>4, <1>5, <1>6, <1>7, <1>8, <1>9, <1>10, <1>11, <1>12, <1>13, <1>14,
       <1>15, <1>16, <1>17, <1>18, <1>19, <1>20, <1>21, <1>22 DEF AppStep

\* The connection manager's own steps keep the invariant.
LEMMA ConnectionInv ==
  ASSUME VpnInv, CmInv, CmInv', CmStep, UNCHANGED vpnVars
  PROVE  VpnInv'
<1> USE DEF VpnInv, WorkerAgrees, HolderAgrees, OneCaller, ThreadsFollowApp, SupervisorKnows,
        RoutesAgree, Preparing, Opening, Running, HttpClosed, Restarting, vpnVars, supVars
<1>1. VpnTypeOK'
  BY DEF VpnTypeOK, CmInv
<1>2. CASE WorkerStep
  <2>1. /\ worker \notin {"off", "exited"} /\ worker' # "off"
        /\ \/ running' = running
           \/ running' = FALSE /\ worker' = "exited"
        /\ UNCHANGED <<call, starting>>
    <3>1. CASE CheckAttempts \/ CreateStrategy \/ Decide \/ Launch \/ AfterLoop \/ CleanStrategy
      BY <3>1 DEF CheckAttempts, CreateStrategy, Decide, Launch, AfterLoop, CleanStrategy, Work
    <3>2. CASE EndRun
      BY <3>2 DEF EndRun, RunningAfterRun, Work
    <3>3. CASE \E late \in BOOLEAN : CountAttempt(late)
      BY <3>3 DEF CountAttempt, Work
    <3>4. QED
      BY <1>2, <3>1, <3>2, <3>3 DEF WorkerStep
  <2>2. running' => running
    BY <2>1
  <2>3. QED
    BY <1>1, <2>1, <2>2
<1>3. CASE LoopReturns \/ Spin \/ PoolStep
  BY <1>1, <1>3 DEF LoopReturns, Spin, PoolStep, PoolChanges, PoolLost, cmVars, Work
<1>4. CASE FlagStop \/ LookAtStrategy \/ StopStrategy \/ BreakLoop
  BY <1>1, <1>4 DEF FlagStop, LookAtStrategy, StopStrategy, BreakLoop, Call
<1>5. CASE JoinWorker \/ ResetStrategy
  BY <1>1, <1>5 DEF JoinWorker, ResetStrategy, Joined, Call, CmInv, CallerCleared, Tunnel
<1>6. CASE SpawnWorker
  BY <1>1, <1>6 DEF SpawnWorker, Call
<1>7. QED
  BY <1>2, <1>3, <1>4, <1>5, <1>6 DEF CmStep, CallStep

LEMMA VpnStepInv == VpnInv /\ CmInv /\ CmInv' /\ [VpnNext]_allVars => VpnInv'
<1>1. CASE UNCHANGED allVars
  BY <1>1 DEF VpnInv, VpnTypeOK, CmTypeOK, WorkerAgrees, HolderAgrees, OneCaller,
     ThreadsFollowApp, SupervisorKnows, RoutesAgree, allVars, cmVars, vpnVars, supVars
<1>2. CASE VpnNext
  BY <1>1, <1>2, ConnectionInv, SupervisorInv, PacketInv, AppInv DEF VpnNext, Exited
<1>3. QED
  BY <1>1, <1>2

\* The invariant holds whatever the supervisor, the packets, the network and
\* the application do.
THEOREM VpnInvariant == VpnSpec => [](VpnInv /\ CmInv)
<1>1. VpnSpec => []CmInv
  BY DrivesConnectionManager, ManagerInvariant
<1>2. QED
  BY <1>1, VpnInitInv, VpnStepInv, PTL DEF VpnSpec

\* Once it has connected a manager that answers IsStarted() has a supervisor,
\* and only a connection whose worker is done is restarted
\* (vpn_manager.cpp:50-55, 362).
THEOREM SupervisedOnceConnected == VpnSpec => []SupervisedWhileStarted
<1>1. VpnInv /\ CmInv => SupervisedWhileStarted
  BY DEF VpnInv, CmInv, SupervisorKnows, Restarting, SupervisedWhileStarted, VpnIsStarted
<1>2. QED
  BY <1>1, VpnInvariant, PTL

\* A running connection has its routes across every restart; none is left when
\* it was given up or the program has ended (vpn_manager.cpp:366-406).
THEOREM RoutesAreWithConnection == VpnSpec => []RoutesFollowConnection
<1>1. VpnInv /\ CmInv => RoutesFollowConnection
  BY DEF VpnInv, SupervisorKnows, ThreadsFollowApp, Running, RoutesAgree, Restarting,
     RoutesFollowConnection
<1>2. QED
  BY <1>1, VpnInvariant, PTL

\* Stop resets the http client and the device only when no thread is left that
\* uses them, nor a worker of the connection manager (vpn_manager.cpp:110-139).
THEOREM NothingUsedAfterReset == VpnSpec => []NoUseAfterReset
<1>1. VpnInv /\ CmInv => NoUseAfterReset
  BY Zenon DEF VpnInv, CmInv, VpnTypeOK, ThreadsFollowApp, HolderAgrees, Preparing, Opening,
     HttpClosed, NoUseAfterReset
<1>2. QED
  BY <1>1, VpnInvariant, PTL
=============================================================================
