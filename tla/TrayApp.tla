------------------------------ MODULE TrayApp ------------------------------
(***************************************************************************)
(* The tray application (gui/tray/tray.cpp): the menu's connection state,  *)
(* the worker thread that runs startVpn, the timer that looks after the    *)
(* tunnel, and the modal error boxes, in whose event loops the menu and    *)
(* the timer go on.  Signals are emitted and handled on the GUI thread, so *)
(* a slot and everything it emits is one step, up to a box it opens.       *)
(*                                                                         *)
(* The VPN manager is reduced to what IsStarted and IsReconnecting tell;   *)
(* module VpnManager has it in full.  The worker's search for a server is  *)
(* module LoginSearch.  The menu offers Connect in state None, cancelling  *)
(* in state Connecting and Disconnect in state Connected.                  *)
(***************************************************************************)
EXTENDS LoginSearch, Sequences

CONSTANTS
  Vpns,       \* names of VpnManager objects, reused once nothing refers to them
  MaxBoxes    \* bound: error boxes open at once

ASSUME TrayAssumption == None \notin Vpns /\ MaxBoxes \in Nat

VARIABLES
  state,        \* connection_state_
  client,       \* vpn_client_
  cancel,       \* cancel_connecting_
  inProgress,   \* connecting_in_progress_
  smart,        \* smart_connect_
  server,       \* selected_server_
  token,        \* pre_obtained_token_: the server that issued it
  start,        \* the worker: where startVpn is, its vpn_client, its result
  vpn,          \* what each VpnManager does
  boxes,        \* the open error boxes, the innermost first
  reported,     \* handleTimer's reconnection_in_progress
  recent,       \* at most three seconds since last_reconnection_time
  pinging,      \* the settings model pings the servers
  leftover      \* history: a token was left behind by an attempt that ended

gui    == <<state, client, cancel, inProgress>>
choice == <<smart, server, token, leftover>>
timer  == <<reported, recent>>
trayVars == <<gui, choice, start, vpn, boxes, timer, pinging>>
vars     == <<trayVars, searchVars>>

Idle == [pc |-> "idle", mine |-> None, status |-> FALSE]

\* Between Start and Stop a VpnManager owns the tun device and the routes.
Runs(v) == vpn[v] \in {"starting", "up", "reconnecting", "down"}

\* The pointer moved out of vpn_client_ is stopped, then released; a worker
\* that still holds it destroys it later.
StopClient(v, table) ==
  IF v = None THEN table
  ELSE [table EXCEPT ![v] = IF start.mine = v THEN "stopped" ELSE "none"]

-----------------------------------------------------------------------------
(* The menu *)

\* Defect: a second click starts a second worker.
HandleConnectingAgain ==
  /\ pinging' = FALSE
  /\ cancel' = FALSE
  /\ inProgress' = TRUE
  /\ start' = [Idle EXCEPT !.pc = "gateway"]

\* handleConnecting: the worker is started only once.
HandleConnecting ==
  /\ pinging' = FALSE
  /\ IF inProgress
       THEN UNCHANGED <<cancel, inProgress, start>>
       ELSE /\ cancel' = FALSE
            /\ inProgress' = TRUE
            /\ start' = [Idle EXCEPT !.pc = "gateway"]

ConnectTo(s) ==
  /\ smart' = FALSE
  /\ server' = s
  /\ UNCHANGED <<token, leftover>>

SmartConnect ==
  /\ smart' = TRUE
  /\ UNCHANGED <<server, token, leftover>>

OnConnectToServer ==
  /\ state = "None"
  /\ SmartConnect \/ \E s \in Servers : ConnectTo(s)
  /\ state' = "Connecting"
  /\ HandleConnecting
  /\ UNCHANGED <<client, vpn, boxes, timer, searchVars>>

OnDisconnectFromServer ==
  /\ state = "Connected"
  /\ state' = "None"
  /\ pinging' = TRUE
  /\ vpn' = StopClient(client, vpn)
  /\ client' = None
  /\ UNCHANGED <<cancel, inProgress, choice, start, boxes, timer, searchVars>>

\* handleDefaultState, which cancels whatever the worker is doing.
HandleDefaultState ==
  /\ cancel' = TRUE
  /\ pinging' = TRUE
  /\ state' = "None"
  /\ vpn' = StopClient(client, vpn)
  /\ client' = None

OnCancel ==
  /\ state = "Connecting"
  /\ HandleDefaultState
  /\ UNCHANGED <<inProgress, choice, start, boxes, timer, searchVars>>

\* handleDisconnecting, with the defaultState it ends in.
HandleDisconnecting == HandleDefaultState
-----------------------------------------------------------------------------
(* startVpn, on a thread of the pool *)

\* The attempt is over: the local VpnManager is destroyed, and with it
\* stopped, unless vpn_client_ holds it as well.
Return(ok) ==
  /\ start' = [pc |-> "returned", mine |-> None, status |-> ok]
  /\ vpn' = IF start.mine # None /\ start.mine # client
              THEN [vpn EXCEPT ![start.mine] = "none"] ELSE vpn

Goto(pc) == start' = [start EXCEPT !.pc = pc] /\ UNCHANGED vpn

\* Checks of cancel_connecting_ between two steps.
ContinueAt(pc) == IF cancel THEN Return(FALSE) ELSE Goto(pc)

\* The default gateway may be missing.
FindGateway ==
  /\ start.pc = "gateway"
  /\ \/ Return(FALSE)
     \/ ContinueAt("choose")
  /\ UNCHANGED <<gui, choice, boxes, timer, pinging, searchVars>>

ChooseServer ==
  /\ start.pc = "choose"
  /\ \/ ~smart /\ Goto("resolve") /\ UNCHANGED searchVars
     \/ smart /\ Goto("search") /\ \E S \in Halves : StartSearch(S)
  /\ UNCHANGED <<gui, choice, boxes, timer, pinging>>

TakeServer ==
  /\ start.pc = "search"
  /\ TakeResult
  /\ IF first = None
       THEN Return(FALSE) /\ UNCHANGED <<server, token, leftover>>
       ELSE /\ Goto("resolve")
            /\ server' = first /\ token' = first /\ leftover' = FALSE
  /\ UNCHANGED <<gui, smart, boxes, timer, pinging>>

\* The token outlives an attempt that ends between its search and its login.
ResolveServer ==
  /\ start.pc = "resolve"
  /\ Return(FALSE) \/ ContinueAt("login")
  /\ leftover' = (leftover \/ (start'.pc = "returned" /\ token # None))
  /\ UNCHANGED <<gui, smart, server, token, boxes, timer, pinging, searchVars>>

\* Defect: the token is kept for the next attempt as well.
KeepToken == UNCHANGED <<token, leftover>>

\* SetAccessToken hands the token over and clears it; Login then does nothing.
UseToken == token' = None /\ leftover' = FALSE

\* A request that is answered late never returns (module ApiClient).
Hang == server \in Slow /\ Goto("hung")

\* VpnManager::Login: with a token there is nothing to ask, and nothing to fail.
LoginFails == token = None /\ (Return(FALSE) \/ Hang)

Login ==
  /\ start.pc = "login"
  /\ UseToken
  /\ LoginFails \/ ContinueAt("dns")
  /\ UNCHANGED <<gui, smart, server, boxes, timer, pinging, searchVars>>

\* GetDns: no answer, or neither of the two addresses in it.
DnsFails == Return(FALSE) \/ Hang

\* GetDns, the plugins, the route manager and the tun device.
Prepare ==
  /\ start.pc = "dns"
  /\ DnsFails \/ ContinueAt("publish")
  /\ UNCHANGED <<gui, choice, boxes, timer, pinging, searchVars>>

\* vpn_client_ = vpn_client: what vpn_client_ held before is destroyed.
Publish ==
  /\ start.pc = "publish"
  /\ \E v \in Vpns :
       /\ vpn[v] = "none"
       /\ vpn' = [StopClient(client, vpn) EXCEPT ![v] = "made"]
       /\ client' = v
       /\ start' = [start EXCEPT !.pc = "published", !.mine = v]
  /\ UNCHANGED <<state, cancel, inProgress, choice, boxes, timer, pinging, searchVars>>

CheckPublished ==
  /\ start.pc = "published"
  /\ ContinueAt("launch")
  /\ UNCHANGED <<gui, choice, boxes, timer, pinging, searchVars>>

\* A Stop that came first had nothing to stop.
Launch ==
  /\ start.pc = "launch"
  /\ start' = [start EXCEPT !.pc = "launched"]
  /\ vpn' = [vpn EXCEPT ![start.mine] = "starting"]
  /\ UNCHANGED <<gui, choice, boxes, timer, pinging, searchVars>>

CheckLaunched ==
  /\ start.pc = "launched"
  /\ ContinueAt("wait")
  /\ UNCHANGED <<gui, choice, boxes, timer, pinging, searchVars>>

\* IsStarted within ten seconds; the loop does not look at cancel_connecting_.
AwaitStarted ==
  /\ start.pc = "wait"
  /\ \/ vpn[start.mine] \in {"up", "reconnecting"} /\ Return(~cancel)
     \/ vpn[start.mine] \notin {"up", "reconnecting"} /\ Return(FALSE)
  /\ UNCHANGED <<gui, choice, boxes, timer, pinging, searchVars>>

StartVpn ==
  \/ FindGateway \/ ChooseServer \/ TakeServer \/ ResolveServer \/ Login \/ Prepare
  \/ Publish \/ CheckPublished \/ Launch \/ CheckLaunched \/ AwaitStarted
-----------------------------------------------------------------------------
(* The worker's result, the error boxes and the timer *)

\* Defect: a result counts although its request was cancelled.
ResultCounts == TRUE

Uncancelled == ~cancel

\* Defect: the worker is forgotten, but not that a connection is in progress.
ForgetWorker == start' = Idle /\ UNCHANGED inProgress

Release == start' = Idle /\ inProgress' = FALSE

\* The watcher's finished slot and handleVpnStarted, up to an error box.
OnFinished ==
  /\ start.pc = "returned"
  /\ IF Uncancelled /\ ~start.status
       THEN /\ Len(boxes) < MaxBoxes
            /\ boxes' = <<"failed">> \o boxes
            /\ cancel' = FALSE
            /\ start' = [start EXCEPT !.pc = "reporting"]
            /\ UNCHANGED <<state, inProgress>>
       ELSE /\ state' = IF Uncancelled THEN "Connected" ELSE state
            /\ cancel' = IF Uncancelled THEN FALSE ELSE cancel
            /\ Release
            /\ UNCHANGED boxes
  /\ UNCHANGED <<client, choice, vpn, timer, pinging, searchVars>>

\* The innermost box is closed: the slot that opened it disconnects.
CloseBox ==
  /\ boxes # <<>>
  /\ boxes' = Tail(boxes)
  /\ HandleDisconnecting
  /\ IF Head(boxes) = "failed"
       THEN Release
       ELSE UNCHANGED <<inProgress, start>>
  /\ UNCHANGED <<choice, timer, searchVars>>

\* Defect: the next unexpected close is not armed again.
HealthyTick == UNCHANGED reported

Rearm == reported' = FALSE

\* handleTimer in state Connected.
HandleTimer ==
  /\ state = "Connected" /\ client # None
  /\ \/ /\ vpn[client] \in {"made", "starting", "down", "stopped"}
        /\ ~reported /\ ~recent
        /\ Len(boxes) < MaxBoxes
        /\ reported' = TRUE /\ recent' = TRUE
        /\ boxes' = <<"closed">> \o boxes
     \/ /\ vpn[client] = "up"
        /\ Rearm
        /\ UNCHANGED <<recent, boxes>>
  /\ UNCHANGED <<gui, choice, start, vpn, pinging, searchVars>>

ThreeSeconds ==
  /\ recent
  /\ recent' = FALSE
  /\ UNCHANGED <<gui, choice, start, vpn, boxes, reported, pinging, searchVars>>

\* The tunnel: it comes up, is lost and restarted, and gives up in the end;
\* one that never was connected may come back.
Tunnel(v) ==
  /\ \/ vpn[v] = "starting" /\ vpn' = [vpn EXCEPT ![v] = "up"]
     \/ vpn[v] = "up" /\ \E s \in {"reconnecting", "down"} : vpn' = [vpn EXCEPT ![v] = s]
     \/ vpn[v] = "reconnecting" /\ \E s \in {"up", "down"} : vpn' = [vpn EXCEPT ![v] = s]
     \/ vpn[v] = "down" /\ vpn' = [vpn EXCEPT ![v] = "up"]
  /\ UNCHANGED <<gui, choice, start, boxes, timer, pinging, searchVars>>

Search ==
  /\ FinderStep \/ \E s \in Servers : WorkerStep(s)
  /\ UNCHANGED trayVars
-----------------------------------------------------------------------------
TrayInit ==
  /\ SearchInit
  /\ state = "None" /\ client = None
  /\ cancel = FALSE /\ inProgress = FALSE
  /\ smart = FALSE /\ server \in Servers /\ token = None /\ leftover = FALSE
  /\ start = Idle
  /\ vpn = [v \in Vpns |-> "none"]
  /\ boxes = <<>>
  /\ reported = FALSE /\ recent = TRUE
  /\ pinging = TRUE

TrayNext ==
  \/ OnConnectToServer \/ OnDisconnectFromServer \/ OnCancel
  \/ StartVpn \/ Search
  \/ OnFinished \/ CloseBox \/ HandleTimer \/ ThreeSeconds
  \/ \E v \in Vpns : Tunnel(v)

TraySpec == TrayInit /\ [][TrayNext]_vars

\* Threads run and timers fire; the user and the network owe nothing.
FairTraySpec ==
  /\ TraySpec
  /\ WF_vars(StartVpn) /\ WF_vars(OnFinished)
  /\ WF_vars(HandleTimer) /\ WF_vars(ThreeSeconds)
  /\ WF_vars(FinderStep /\ UNCHANGED trayVars)
  /\ \A s \in Servers : WF_vars(WorkerStep(s) /\ UNCHANGED trayVars)
-----------------------------------------------------------------------------
(* Properties *)

TrayTypeOK ==
  /\ state \in {"None", "Connecting", "Connected"}
  /\ client \in Vpns \cup {None} /\ start.mine \in Vpns \cup {None}
  /\ server \in Servers /\ token \in Servers \cup {None}
  /\ vpn \in [Vpns -> {"none", "made", "starting", "up", "reconnecting", "down", "stopped"}]
  /\ worker \in [Servers -> WorkerSteps]
  /\ boxes \in Seq({"failed", "closed"}) /\ Len(boxes) <= MaxBoxes

\* There is never more than one tunnel, and a running one is either the one
\* the menu can stop or still in the hands of the worker, which will destroy
\* it; servers are pinged exactly while the menu shows no connection.  The menu
\* says Connected only while there is a tunnel to disconnect, and then no
\* attempt is under way: a cancelled attempt never connects
\* (tray.cpp:591-649, 1097-1144).
TunnelOwned ==
  /\ TrayTypeOK
  /\ \A v \in Vpns : Runs(v) => v \in {client, start.mine}
  /\ \A v, w \in Vpns : Runs(v) /\ Runs(w) => v = w
  /\ pinging <=> state = "None"
  /\ state = "Connected" => client # None /\ Runs(client) /\ start.pc = "idle"

\* A token from the search is used for the server that issued it, unless the
\* attempt that obtained it ended before its login (tray.cpp:960): the next
\* attempt, to whatever server, then logs in with it.
TokenForItsServer ==
  [][start.pc = "login" /\ start'.pc = "dns" /\ token # None => leftover \/ token = server]_vars

\* Liveness: an attempt ends, with a tunnel, an error box or a cancel, unless
\* its search or one of its requests never returns.
AttemptEnds ==
  (state = "Connecting" /\ ~cancel)
    ~> (state # "Connecting" \/ cancel \/ boxes # <<>> \/ SearchStuck \/ start.pc = "hung")

\* Liveness: the timer arms its check again while the tunnel is up, and once
\* armed it reports a tunnel that stays down (tray.cpp:668-692).
DeathReported ==
  /\ (state = "Connected" /\ vpn[client] = "up")
       ~> (~reported \/ state # "Connected" \/ vpn[client] # "up")
  /\ (state = "Connected" /\ vpn[client] = "down" /\ ~reported)
       ~> (boxes # <<>> \/ state # "Connected" \/ vpn[client] # "down")
=============================================================================
