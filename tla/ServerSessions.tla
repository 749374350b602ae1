--------------------------- MODULE ServerSessions ---------------------------
(***************************************************************************)
(* The VPN server around its NAT table: web::Server (server.cpp) with its  *)
(* sessions_ map and mutex, the life of a web::Session (session.cpp), the  *)
(* expiry thread and the shutdown sequence of vpn::Manager (manager.cpp).  *)
(*                                                                         *)
(* A session runs on a strand: a coroutine turn (the checks and the        *)
(* registration of HandleWsOpenConnection, or DoClose with the close       *)
(* callback) is never interrupted by another turn of the same session, but *)
(* interleaves with the other sessions, the expiry thread and Stop between *)
(* any two accesses to shared state.  At most Threads turns run at a time. *)
(***************************************************************************)
EXTENDS NatTable, FiniteSets

CONSTANTS
  MaxActive,  \* max_active_sessions_per_user_
  Threads     \* threads that run the io context

ASSUME ServerAssumption == MaxActive \in Nat /\ Threads \in Nat \ {0}

VARIABLES
  phase,      \* where each session is
  asked,      \* the request a session is registering
  posted,     \* sessions whose Close() has posted a DoClose not yet run
  sessions,   \* keys of Server::sessions_
  toClose,    \* expired ids the expiry thread still has to close
  stop        \* how far vpn::Manager::Stop has come

serverVars == <<phase, asked, posted, sessions, toClose, stop>>
vars == <<natVars, serverVars>>

\* Where Run awaits before the upgrade request: the first bytes, the whole TLS
\* hello, a DNS answer about its name, the exchange of the fake handshake, the
\* peers of a proxied connection, the TLS handshake.
Handshakes == {"detecting", "peeking", "checking", "faking", "proxying", "fallback", "securing"}

\* handshaking: ProcessRequest awaits the request; checked .. added: one turn
\* of HandleWsOpenConnection; accepting: suspended in async_accept or the
\* address assignment; closing .. deleting: DoClose with the close callback.
Phases == Handshakes \cup
          {"none", "handshaking", "checked", "locked", "added", "accepting",
           "streaming", "closing", "erasing", "deleting", "closed"}
StopSteps == {"no", "requested", "flagged", "swept", "ioStopped", "joined",
              "cleared", "done"}

manager_running == stop = "no"
server_running  == stop \in {"no", "requested"}
IoRunning       == stop \in {"no", "requested", "flagged", "swept"}

InTurn == {c \in Clients : phase[c] \in {"checked", "locked", "added",
                                         "closing", "erasing", "deleting"}}
\* A suspended session gets a turn when a thread of the io context is free.
CanRun == IoRunning /\ Cardinality(InTurn) < Threads

\* Defect: Stop keeps the mutex of its sweep until the threads are joined.
MutexFreeOfStop == /\ \A c \in Clients : phase[c] \notin {"locked", "added"}
                   /\ stop \notin {"swept", "ioStopped"}

\* The Server mutex: HandleWsOpenConnection keeps it over several steps.
MutexFree == \A c \in Clients : phase[c] \notin {"locked", "added"}

GoTo(c, p) == phase' = [phase EXCEPT ![c] = p]

ActiveSessions(u) ==
  Cardinality({s \in Sessions : LET m == session_to_mplx[s]
                                IN m # None /\ UserName(m) = u})

-----------------------------------------------------------------------------
(* Connecting *)

\* One awaited result of Run.
Handshake(c, from, to) ==
  /\ phase[c] = from /\ CanRun
  /\ GoTo(c, to)
  /\ UNCHANGED <<natVars, asked, posted, sessions, toClose, stop>>

\* The listener accepts a socket and starts Session::Run.
AcceptSocket(c) ==
  /\ phase[c] = "none" /\ server_running
  /\ GoTo(c, "detecting")
  /\ UNCHANGED <<natVars, asked, posted, sessions, toClose, stop>>

\* A known obfuscator goes straight to TLS.
DetectObfuscator(c) ==
  \E to \in {"peeking", "securing", "closed"} : Handshake(c, "detecting", to)

\* Not a TLS hello, or none in time, ends the connection.
PeekClientHello(c) ==
  \E to \in {"checking", "closed"} : Handshake(c, "peeking", to)

\* A foreign session id is proxied, one of ours goes on to TLS, and a decoy to
\* the fake handshake, unless its name leads back to this server.
DetectProbing(c) == \E to \in {"proxying", "securing", "closed"} : Handshake(c, "checking", to)

IsRealityHandshake(c) == \E to \in {"proxying", "faking"} : Handshake(c, "checking", to)

PerformFakeHandshake(c) == \E to \in {"securing", "closed"} : Handshake(c, "faking", to)

\* A proxied connection is never registered; a failed setup under another name
\* is tried once more with the default one.
HandleProxy(c) == \E to \in {"fallback", "closed"} : Handshake(c, "proxying", to)

ProxyWithFallback(c) == Handshake(c, "fallback", "closed")

TlsHandshake(c) == \E to \in {"handshaking", "closed"} : Handshake(c, "securing", to)

\* A plain HTTP request is answered, and a wrong url or token refused: both
\* end the connection before it is registered.
HandleHttp(c) == Handshake(c, "handshaking", "closed")

WithinLimit(u) == ActiveSessions(u) <= MaxActive

\* HandleWsOpenConnection up to its lock.
OpenCheck(c, r) ==
  /\ phase[c] = "handshaking" /\ CanRun
  /\ IF server_running /\ WithinLimit(r.username)
       THEN GoTo(c, "checked") /\ asked' = [asked EXCEPT ![c] = r]
       ELSE GoTo(c, "closed") /\ UNCHANGED asked
  /\ UNCHANGED <<natVars, posted, sessions, toClose, stop>>

\* Defect: running_ is not read again under the lock.
MayOpenAnyTime(c) == c \notin sessions

MayOpen(c) == server_running /\ c \notin sessions

\* Its locked part.
OpenLock(c) ==
  /\ phase[c] = "checked" /\ MutexFree
  /\ IF MayOpen(c)
       THEN GoTo(c, "locked") /\ UNCHANGED asked
       ELSE GoTo(c, "closed") /\ asked' = [asked EXCEPT ![c] = None]
  /\ UNCHANGED <<natVars, posted, sessions, toClose, stop>>

OpenAdd(c) ==
  LET r == asked[c]
  IN  /\ phase[c] = "locked"
      /\ AddConnection(c, r)
      /\ GoTo(c, IF RefusesConnection(c, r) THEN "closed" ELSE "added")
      /\ asked' = [asked EXCEPT ![c] = None]
      /\ UNCHANGED <<posted, sessions, toClose, stop>>

\* Unlocks; still in the same turn Run sets ws_session_was_opened_.
OpenInsert(c) ==
  /\ phase[c] = "added"
  /\ sessions' = sessions \cup {c}
  /\ GoTo(c, "accepting")
  /\ UNCHANGED <<natVars, asked, posted, toClose, stop>>

\* The upgrade is answered and the reader and the sender are spawned.
AcceptDone(c) ==
  /\ phase[c] = "accepting" /\ c \notin posted /\ CanRun
  /\ GoTo(c, "streaming")
  /\ UNCHANGED <<natVars, asked, posted, sessions, toClose, stop>>

(* Closing *)

\* Session::running_ of a registered session.
IsOpen(c) == phase[c] \in {"added", "accepting", "streaming"} /\ c \notin posted

\* The peer or the transport fails: the coroutine calls Close(), which runs
\* DoClose at once because it is on the strand.
TransportFails(c) ==
  /\ phase[c] \in {"accepting", "streaming"} /\ c \notin posted /\ CanRun
  /\ GoTo(c, "closing")
  /\ UNCHANGED <<natVars, asked, posted, sessions, toClose, stop>>

\* A posted DoClose gets its turn.
DoClose(c) ==
  /\ phase[c] \in {"accepting", "streaming"} /\ c \in posted /\ CanRun
  /\ GoTo(c, "closing")
  /\ posted' = posted \ {c}
  /\ UNCHANGED <<natVars, asked, sessions, toClose, stop>>

\* HandleWsCloseConnection: running_ decides whether sessions_ is touched ...
CloseCallback(c) ==
  /\ phase[c] = "closing"
  /\ GoTo(c, IF server_running THEN "erasing" ELSE "deleting")
  /\ UNCHANGED <<natVars, asked, posted, sessions, toClose, stop>>

\* Defect: the entry stays in sessions_.
KeepSession(c) == sessions

WithoutSession(c) == sessions \ {c}

EraseSession(c) ==
  /\ phase[c] = "erasing" /\ MutexFree
  /\ sessions' = WithoutSession(c)
  /\ GoTo(c, "deleting")
  /\ UNCHANGED <<natVars, asked, posted, toClose, stop>>

\* Defect: only sessions still in the map give their entry back.
DeleteIfRunning(c) ==
  IF client_to_mplx[c] = None \/ ~server_running
    THEN Unlocked /\ UNCHANGED natVars ELSE DelConnectionByClientId(c)

DeleteEntry(c) ==
  IF client_to_mplx[c] = None
    THEN Unlocked /\ UNCHANGED natVars ELSE DelConnectionByClientId(c)

\* ... and the NAT entry is deleted in any case.
CloseDelete(c) ==
  /\ phase[c] = "deleting"
  /\ DeleteEntry(c)
  /\ GoTo(c, "closed")
  /\ UNCHANGED <<asked, posted, sessions, toClose, stop>>

-----------------------------------------------------------------------------
(* The expiry thread of vpn::Manager *)

StartUpdate(second) ==
  /\ manager_running /\ toClose = {}
  /\ CollectExpired(second)
  /\ UNCHANGED serverVars

ContinueUpdate ==
  /\ EraseExpired \/ \E m \in Clients : ReleaseEmptied(m)
  /\ UNCHANGED serverVars

FinishUpdate ==
  /\ UpdateReturns
  /\ toClose' = expired
  /\ UNCHANGED <<phase, asked, posted, sessions, stop>>

\* Defect: GetSessionById does not wait for the Server mutex.
LookupAnyTime == TRUE

LookupAllowed == MutexFree

\* GetSessionById and Close: the callback it triggers cleans up.
CloseExpired(c) ==
  /\ c \in toClose /\ LookupAllowed
  /\ toClose' = toClose \ {c}
  /\ posted' = IF c \in sessions /\ IsOpen(c) THEN posted \cup {c} ELSE posted
  /\ UNCHANGED <<natVars, phase, asked, sessions, stop>>

Expiry ==
  \/ \E second \in SUBSET Clients : StartUpdate(second)
  \/ ContinueUpdate
  \/ FinishUpdate
  \/ \E c \in Clients : CloseExpired(c)

ClockTicks == ClockStep /\ UNCHANGED serverVars

(* Shutdown: vpn::Manager::Stop, and inside it web::Server::Stop *)

StopStep(from, to) == stop = from /\ stop' = to

StopManager ==
  /\ StopStep("no", "requested")
  /\ UNCHANGED <<natVars, phase, asked, posted, sessions, toClose>>

\* running_ = false, and the listener is closed.
StopServer ==
  /\ StopStep("requested", "flagged")
  /\ UNCHANGED <<natVars, phase, asked, posted, sessions, toClose>>

\* Under the mutex, Close() of every session in the map.
StopSweep ==
  /\ MutexFree
  /\ StopStep("flagged", "swept")
  /\ posted' = posted \cup {c \in sessions : IsOpen(c)}
  /\ UNCHANGED <<natVars, phase, asked, sessions, toClose>>

StopIo ==
  /\ StopStep("swept", "ioStopped")
  /\ UNCHANGED <<natVars, phase, asked, posted, sessions, toClose>>

\* A thread returns from run() after the turn it is in.
JoinIo ==
  /\ InTurn = {}
  /\ StopStep("ioStopped", "joined")
  /\ UNCHANGED <<natVars, phase, asked, posted, sessions, toClose>>

ClearSessions ==
  /\ MutexFree
  /\ StopStep("joined", "cleared")
  /\ sessions' = {}
  /\ UNCHANGED <<natVars, phase, asked, posted, toClose>>

\* The expiry thread has seen running_ = false and finished its list.
JoinExpiry ==
  /\ update = "idle" /\ toClose = {}
  /\ StopStep("cleared", "done")
  /\ UNCHANGED <<natVars, phase, asked, posted, sessions, toClose>>

Stopping == StopServer \/ StopSweep \/ StopIo \/ JoinIo \/ ClearSessions \/ JoinExpiry

\* Nothing is left to do once the server has stopped.
Stopped == stop = "done" /\ UNCHANGED vars
-----------------------------------------------------------------------------
ServerInit ==
  /\ NatInit
  /\ phase = [c \in Clients |-> "none"]
  /\ asked = [c \in Clients |-> None]
  /\ posted = {} /\ sessions = {} /\ toClose = {}
  /\ stop = "no"

\* What a session does on its own once it has a turn, or a close posted.
Turn(c) ==
  \/ OpenLock(c) \/ OpenAdd(c) \/ OpenInsert(c) \/ DoClose(c)
  \/ CloseCallback(c) \/ EraseSession(c) \/ CloseDelete(c)

Client(c) ==
  \/ AcceptSocket(c) \/ DetectObfuscator(c) \/ PeekClientHello(c)
  \/ DetectProbing(c) \/ IsRealityHandshake(c) \/ PerformFakeHandshake(c)
  \/ HandleProxy(c) \/ ProxyWithFallback(c) \/ TlsHandshake(c) \/ HandleHttp(c)
  \/ (\E r \in Requests : OpenCheck(c, r))
  \/ AcceptDone(c) \/ TransportFails(c)

ServerNext ==
  \/ \E c \in Clients : Turn(c) \/ Client(c)
  \/ Expiry \/ ClockTicks
  \/ StopManager \/ Stopping \/ Stopped

ServerSpec == ServerInit /\ [][ServerNext]_vars

\* The threads of the io context, the expiry thread and the thread in Stop
\* keep running; peers, clocks and the operator owe nothing.
FairServerSpec ==
  /\ ServerSpec
  /\ \A c \in Clients : WF_vars(Turn(c))
  /\ WF_vars(Expiry)
  /\ WF_vars(Stopping)
-----------------------------------------------------------------------------
(* Properties *)

ServerTypeOK ==
  /\ TypeOK
  /\ phase \in [Clients -> Phases]
  /\ asked \in [Clients -> Requests \cup {None}]
  /\ posted \subseteq Clients /\ sessions \subseteq Clients /\ toClose \subseteq Clients
  /\ stop \in StopSteps

\* A table entry belongs to a session that will give it back: none outlives
\* its session, whichever of expiry, peer and Stop closes it (server.cpp:318).
EntryHasOwner ==
  \A c \in Clients : client_to_mplx[c] # None =>
    phase[c] \in {"added", "accepting", "streaming", "closing", "erasing", "deleting"}

\* sessions_ holds exactly the registered sessions that have not been closed,
\* as long as the server runs: packets and Close() reach each of them.
SessionsListed ==
  server_running =>
    sessions = {c \in Clients : phase[c] \in {"accepting", "streaming", "closing", "erasing"}}

\* The NAT table, sessions_ and the sessions themselves agree, whichever of
\* expiry, peer and Stop closes a session (server.cpp:287-335).
RegistrationsAgree == ServerTypeOK /\ EntryHasOwner /\ SessionsListed

\* Once Stop has swept sessions_, no session is open any more, even one that
\* was past the first running_ check when Stop began (server.cpp:288).
NoneOpenAfterSweep ==
  stop \notin {"no", "requested", "flagged"} => \A c \in Clients : ~IsOpen(c)

\* Liveness: a connection whose ttl is over, or that the expiry thread has
\* dropped from the table, has its session closed, or the server stops; none
\* is left streaming without an entry (manager.cpp:201-206, server.cpp:287-309).
ExpiredAreClosed ==
  \A c \in Clients :
    (IsOpen(c) /\ (client_to_mplx[c] = None \/ (request[c].expires /\ c \in ttlPast)))
      ~> (phase[c] = "closed" \/ stop = "done")

\* Liveness: Stop returns; the join waits for no thread that waits for it.
StopReturns == (stop = "requested") ~> (stop = "done")
=============================================================================
