------------------------- MODULE ConnectionManager -------------------------
(***************************************************************************)
(* The client's connection manager: connection_manager.cpp, with as much   *)
(* of a connection strategy (base_strategy_connection.cpp and the Start    *)
(* and Stop of rolling_tunnel.h or browser_mimicry.cpp) as decides whether *)
(* its event loop returns.                                                 *)
(*                                                                         *)
(* A worker thread creates a strategy object, runs it until its pool is    *)
(* empty, drops it and counts the failure.  One other thread at a time is  *)
(* in Start or Stop: the http client is driven by the supervisor and, once *)
(* that is joined, by VpnManager::Stop.  What is done under mutex_ is one  *)
(* step.                                                                   *)
(***************************************************************************)
EXTENDS Naturals

CONSTANT MaxReconnections   \* config_.common.max_reconnections

ASSUME ManagerAssumption == MaxReconnections \in Nat

VARIABLES
  running,        \* ConnectionManager::running_
  strategy,       \* is strategy_connection_ set?
  tunnelRunning,  \* running_ of the strategy object
  loop,           \* its io_context: "fresh" or "stopped", never restarted
  connected,      \* some client of its pool is started
  attempts,       \* reconnection_attempts_
  worker,         \* where the worker thread is
  call,           \* where the thread in Start or Stop is
  starting        \* that call is Start

cmVars == <<running, strategy, tunnelRunning, loop, connected, attempts,
            worker, call, starting>>

Workers == {"off", "checking", "creating", "deciding", "launching", "looping",
            "returned", "cleaning", "counting", "ending", "exited"}
Calls == {"none", "flagging", "looking", "stopping", "breaking", "joining",
          "resetting", "spawning"}

IsStarted == running
IsConnected == running /\ strategy /\ connected

Work(from, to) == worker = from /\ worker' = to
Call(from, to) == call = from /\ call' = to

\* A strategy that does not run, new or gone.
Tunnel(exists, ioc) ==
  /\ strategy' = exists
  /\ loop' = ioc
  /\ tunnelRunning' = FALSE
  /\ connected' = FALSE

-----------------------------------------------------------------------------
(* The worker thread: Run *)

AttemptsLeft == attempts < MaxReconnections

CheckAttempts ==
  /\ Work("checking", IF running /\ AttemptsLeft THEN "creating" ELSE "ending")
  /\ UNCHANGED <<running, strategy, tunnelRunning, loop, connected, attempts,
                 call, starting>>

\* Defect: a stop that came first is not seen.
MayCreateAnyTime == TRUE

MayCreate == running

\* A new strategy object with an io_context of its own.
CreateStrategy ==
  /\ Work("creating", "deciding")
  /\ IF MayCreate
       THEN Tunnel(TRUE, "fresh")
       ELSE UNCHANGED <<strategy, tunnelRunning, loop, connected>>
  /\ UNCHANGED <<running, attempts, call, starting>>

\* The unlocked check before strategy_connection_->Start().
Decide ==
  /\ Work("deciding", IF running /\ strategy THEN "launching" ELSE "returned")
  /\ UNCHANGED <<running, strategy, tunnelRunning, loop, connected, attempts,
                 call, starting>>

\* Start of the strategy: running_ is set whatever happened since the check.
Launch ==
  /\ Work("launching", "looping")
  /\ tunnelRunning' = TRUE
  /\ UNCHANGED <<running, strategy, loop, connected, attempts, call, starting>>

HandlersRun == worker = "looping" /\ tunnelRunning /\ loop = "fresh"

\* A client of the pool comes up, or the last one that was up goes down.
PoolChanges ==
  /\ HandlersRun
  /\ connected' = ~connected
  /\ UNCHANGED <<running, strategy, tunnelRunning, loop, attempts, worker,
                 call, starting>>

\* The pool has run empty: the tunnel stops itself.
PoolLost ==
  /\ HandlersRun
  /\ Tunnel(strategy, "stopped")
  /\ UNCHANGED <<running, attempts, worker, call, starting>>

\* The loop re-checks running_ after every handler.
LoopReturns ==
  /\ Work("looping", "returned")
  /\ ~tunnelRunning
  /\ loop' = "stopped"
  /\ UNCHANGED <<running, strategy, tunnelRunning, connected, attempts, call,
                 starting>>

\* A launched strategy whose io_context was stopped first: run_one() returns
\* at once, running_ stays set, and nothing will ever clear it.
Spinning == worker = "looping" /\ tunnelRunning /\ loop = "stopped"

Spin == Spinning /\ UNCHANGED cmVars

AfterLoop ==
  /\ Work("returned", IF running THEN "cleaning" ELSE "ending")
  /\ UNCHANGED <<running, strategy, tunnelRunning, loop, connected, attempts,
                 call, starting>>

\* Defect: the strategy is dropped though Stop may be using it.
MayCleanAnyTime == strategy

MayClean == strategy /\ running

CleanStrategy ==
  /\ Work("cleaning", "counting")
  /\ IF MayClean
       THEN Tunnel(FALSE, "stopped")
       ELSE UNCHANGED <<strategy, tunnelRunning, loop, connected>>
  /\ UNCHANGED <<running, attempts, call, starting>>

\* late: the window of 120 s is over, and a new one begins.
CountAttempt(late) ==
  /\ Work("counting", "checking")
  /\ attempts' = IF late THEN 0 ELSE attempts + 1
  /\ UNCHANGED <<running, strategy, tunnelRunning, loop, connected, call, starting>>

RunningAfterRun == FALSE

EndRun ==
  /\ Work("ending", "exited")
  /\ running' = RunningAfterRun
  /\ UNCHANGED <<strategy, tunnelRunning, loop, connected, attempts, call, starting>>

-----------------------------------------------------------------------------
(* Start and Stop *)

BeginStart ==
  /\ Call("none", "flagging")
  /\ starting' = TRUE
  /\ UNCHANGED <<running, strategy, tunnelRunning, loop, connected, attempts, worker>>

BeginStop ==
  /\ Call("none", "flagging")
  /\ starting' = FALSE
  /\ UNCHANGED <<running, strategy, tunnelRunning, loop, connected, attempts, worker>>

FlagStop ==
  /\ Call("flagging", "looking")
  /\ running' = FALSE
  /\ UNCHANGED <<strategy, tunnelRunning, loop, connected, attempts, worker, starting>>

\* strategy_connection_ is read without the mutex.
LookAtStrategy ==
  /\ Call("looking", IF strategy THEN "stopping" ELSE "joining")
  /\ UNCHANGED <<running, strategy, tunnelRunning, loop, connected, attempts,
                 worker, starting>>

\* Stop of the strategy: running_ first, the pool, then the io_context.
StopStrategy ==
  /\ Call("stopping", "breaking")
  /\ tunnelRunning' = FALSE
  /\ connected' = FALSE
  /\ UNCHANGED <<running, strategy, loop, attempts, worker, starting>>

LoopAfterStop == "stopped"

BreakLoop ==
  /\ Call("breaking", "joining")
  /\ loop' = LoopAfterStop
  /\ UNCHANGED <<running, strategy, tunnelRunning, connected, attempts, worker, starting>>

Joined == worker \in {"off", "exited"}

JoinWorker ==
  /\ Call("joining", "resetting")
  /\ Joined
  /\ worker' = IF worker = "exited" THEN "off" ELSE worker
  /\ UNCHANGED <<running, strategy, tunnelRunning, loop, connected, attempts, starting>>

ResetStrategy ==
  /\ Call("resetting", IF starting THEN "spawning" ELSE "none")
  /\ Tunnel(FALSE, "stopped")
  /\ UNCHANGED <<running, attempts, worker, starting>>

SpawnWorker ==
  /\ Call("spawning", "none")
  /\ running' = TRUE
  /\ worker' = "checking"
  /\ attempts' = 0
  /\ UNCHANGED <<strategy, tunnelRunning, loop, connected, starting>>
-----------------------------------------------------------------------------
CmInit ==
  /\ running = FALSE /\ strategy = FALSE /\ tunnelRunning = FALSE
  /\ connected = FALSE /\ starting = FALSE
  /\ loop = "stopped"
  /\ attempts = 0
  /\ worker = "off"
  /\ call = "none"

WorkerStep ==
  \/ CheckAttempts \/ CreateStrategy \/ Decide \/ Launch
  \/ AfterLoop \/ CleanStrategy \/ EndRun
  \/ \E late \in BOOLEAN : CountAttempt(late)

PoolStep == PoolChanges \/ PoolLost

CallStep ==
  \/ FlagStop \/ LookAtStrategy \/ StopStrategy \/ BreakLoop
  \/ JoinWorker \/ ResetStrategy \/ SpawnWorker

CmStep == WorkerStep \/ LoopReturns \/ Spin \/ PoolStep \/ CallStep

CmNext == CmStep \/ BeginStart \/ BeginStop

CmSpec == CmInit /\ [][CmNext]_cmVars

\* Both threads keep running; the loop surely leaves the reactor only when
\* its io_context is stopped.  The network and the caller owe nothing.
FairCmSpec ==
  /\ CmSpec
  /\ WF_cmVars(WorkerStep)
  /\ WF_cmVars(LoopReturns /\ loop = "stopped")
  /\ WF_cmVars(CallStep)
-----------------------------------------------------------------------------
(* Properties *)

CmTypeOK ==
  /\ running \in BOOLEAN /\ strategy \in BOOLEAN /\ tunnelRunning \in BOOLEAN
  /\ connected \in BOOLEAN /\ starting \in BOOLEAN
  /\ loop \in {"fresh", "stopped"}
  /\ attempts \in 0..MaxReconnections
  /\ worker \in Workers
  /\ call \in Calls

\* The worker never runs a strategy object that Stop has destroyed: the join
\* comes before the reset (connection_manager.cpp:213-225).
NoResetWhileUsed == worker \in {"launching", "looping"} => strategy

\* A manager that says it is started has a worker that will say otherwise
\* when it gives up; whoever restarts on IsStarted() never waits in vain.
StartedHasWorker == running => worker \notin {"off", "exited"}

\* From its flag to its join Stop uses strategy_connection_ without the
\* mutex; the worker neither replaces nor drops it meanwhile.
StrategyKept ==
  [][(call \in {"looking", "stopping", "breaking", "joining"}) =>
       strategy' = strategy]_cmVars

\* The intended promise of Stop: it completes without a hang.
CallReturns == (call # "none") ~> (call = "none")
=============================================================================
