--------------------------- MODULE TrayAppProofs ---------------------------
(***************************************************************************)
(* Theorems about the tray application, for any number of servers, VPN     *)
(* managers and error boxes: there is one tunnel at most and it has an     *)
(* owner, the menu tells what there is, and a token that a search obtained *)
(* is used for the server that issued it.                                  *)
(***************************************************************************)
EXTENDS TrayApp, TLAPS

\* Where startVpn has no VpnManager of its own yet, and where it has.
Early == {"gateway", "choose", "search", "resolve", "login", "dns", "publish", "hung"}
Late  == {"published", "launch", "launched", "wait"}
Steps == Early \cup Late \cup {"idle", "returned", "reporting"}

VpnStates  == {"none", "made", "starting", "up", "reconnecting", "down", "stopped"}
ClientRuns == client # None /\ Runs(client)

\* The parts of TrayTypeOK and what they leave out.
MenuTyped ==
  /\ state \in {"None", "Connecting", "Connected"} /\ client \in Vpns \cup {None}
  /\ cancel \in BOOLEAN /\ inProgress \in BOOLEAN
StartTyped ==
  /\ start = [pc |-> start.pc, mine |-> start.mine, status |-> start.status]
  /\ start.pc \in Steps /\ start.mine \in Vpns \cup {None} /\ start.status \in BOOLEAN
  /\ vpn \in [Vpns -> VpnStates]
ChoiceTyped ==
  /\ server \in Servers /\ token \in Servers \cup {None} /\ first \in Servers \cup {None}
  /\ worker \in [Servers -> WorkerSteps]

\* connecting_in_progress_ says whether startVpn runs; vpn_client_ is the
\* worker's VpnManager until the attempt is cancelled.
WorkerKnown ==
  /\ inProgress <=> start.pc # "idle"
  /\ start.mine # None <=> start.pc \in Late
  /\ start.pc \in Late => client \in {start.mine, None} /\ (client = start.mine \/ cancel)
  /\ start.pc \in Late \ {"published"} => client = None \/ ~cancel

\* A box about a failed attempt is open exactly while the slot that opened it
\* waits, and there is one of these.
FailedAt == {i \in 1..Len(boxes) : boxes[i] = "failed"}
BoxesAgree ==
  /\ boxes \in Seq({"failed", "closed"}) /\ Len(boxes) <= MaxBoxes
  /\ \A i, j \in FailedAt : i = j
  /\ FailedAt # {} <=> start.pc = "reporting"

\* A tunnel that runs has an owner; under a menu without connection none runs,
\* nor in an attempt before its launch or after its cancellation.
TunnelKnown ==
  /\ \A v \in Vpns : Runs(v) => v \in {client, start.mine}
  /\ ClientRuns => /\ state # "None"
                   /\ inProgress => ~cancel /\ start.pc \notin Early \cup {"published", "launch"}

\* What the menu shows is what an attempt that was not cancelled will yield.
MenuAgrees ==
  /\ inProgress /\ ~cancel => state = "Connecting"
  /\ start.pc = "returned" /\ start.status /\ ~cancel => ClientRuns
  /\ state = "Connected" => ClientRuns /\ start.pc = "idle"
  /\ pinging <=> state = "None"

\* A token that no attempt has left behind is on its way to its login, for the
\* server it is from unless the attempt was cancelled.
TokenKnown ==
  token # None /\ ~leftover =>
    start.pc \in {"resolve", "login"} /\ (token = server \/ cancel)

\* The inductive invariant of the tray.
TrayInv ==
  /\ MenuTyped /\ StartTyped /\ ChoiceTyped
  /\ WorkerKnown /\ BoxesAgree /\ TunnelKnown /\ MenuAgrees /\ TokenKnown
-----------------------------------------------------------------------------
(* Init and the menu *)

LEMMA TrayInitInv == TrayInit => TrayInv
<1> SUFFICES ASSUME TrayInit PROVE TrayInv
  OBVIOUS
<1> USE SearchAssumption, TrayAssumption DEF TrayInit, SearchInit, Idle
<1>1. MenuTyped
  BY DEF MenuTyped
<1>2. StartTyped
  <2>1. "idle" \in Steps /\ "none" \in VpnStates
    BY DEF Steps, VpnStates
  <2> QED BY <2>1 DEF StartTyped
<1>3. ChoiceTyped
  <2>1. "none" \in WorkerSteps
    BY DEF WorkerSteps
  <2> QED BY <2>1 DEF ChoiceTyped
<1>4. WorkerKnown /\ MenuAgrees /\ TokenKnown /\ TunnelKnown
  BY DEF WorkerKnown, MenuAgrees, TokenKnown, TunnelKnown, ClientRuns, Late, Runs
<1>5. BoxesAgree
  BY DEF BoxesAgree, FailedAt
<1> QED BY <1>1, <1>2, <1>3, <1>4, <1>5 DEF TrayInv

\* Stopping the menu's VpnManager leaves no tunnel but the worker's.
LEMMA Stops ==
  ASSUME TrayInv, vpn' = StopClient(client, vpn)
  PROVE  /\ vpn' \in [Vpns -> VpnStates]
         /\ client # None => vpn'[client] \in {"stopped", "none"}
         /\ \A v \in Vpns : v # client => vpn'[v] = vpn[v]
         /\ \A v \in Vpns : Runs(v)' => v = start.mine /\ v # client
<1>1. vpn \in [Vpns -> VpnStates] /\ client \in Vpns \cup {None} /\ None \notin Vpns
  BY TrayAssumption DEF TrayInv, MenuTyped, StartTyped
<1>2. {"stopped", "none"} \subseteq VpnStates
  BY DEF VpnStates
<1>3. /\ vpn' \in [Vpns -> VpnStates]
      /\ client # None => vpn'[client] \in {"stopped", "none"}
      /\ \A v \in Vpns : v # client => vpn'[v] = vpn[v]
  BY <1>1, <1>2 DEF StopClient
<1>4. ASSUME NEW v \in Vpns, Runs(v)' PROVE v = start.mine /\ v # client
  <2>1. v # client
    BY <1>1, <1>3, <1>4 DEF Runs
  <2>2. Runs(v)
    BY <1>3, <1>4, <2>1 DEF Runs
  <2> QED BY <2>1, <2>2 DEF TrayInv, TunnelKnown
<1> QED BY <1>3, <1>4

\* handleDefaultState keeps what concerns the worker, which is cancelled.
LEMMA DefaultState ==
  ASSUME TrayInv, HandleDefaultState, UNCHANGED <<inProgress, start>>
  PROVE  MenuTyped' /\ StartTyped' /\ WorkerKnown' /\ TunnelKnown' /\ MenuAgrees'
<1> USE TrayAssumption DEF TrayInv, HandleDefaultState
<1>1. MenuTyped'
  BY DEF MenuTyped
<1>2. /\ vpn' \in [Vpns -> VpnStates]
      /\ \A v \in Vpns : Runs(v)' => v = start.mine /\ v # client
  BY Stops
<1>3. StartTyped'
  BY <1>2 DEF StartTyped
<1>4. WorkerKnown'
  BY DEF WorkerKnown, StartTyped
<1>5. TunnelKnown' /\ MenuAgrees'
  BY <1>2 DEF TunnelKnown, MenuAgrees, ClientRuns
<1> QED BY <1>1, <1>3, <1>4, <1>5

LEMMA MenuStep ==
  ASSUME TrayInv, OnConnectToServer \/ OnDisconnectFromServer \/ OnCancel
  PROVE  TrayInv'
<1> USE TrayAssumption, SearchAssumption DEF TrayInv
<1>1. CASE OnConnectToServer
  <2>1. /\ state = "None" /\ state' = "Connecting" /\ pinging' = FALSE
        /\ UNCHANGED <<client, vpn, boxes, searchVars, token, leftover>>
        /\ server' \in Servers
        /\ inProgress => UNCHANGED <<cancel, inProgress, start>>
        /\ ~inProgress => /\ cancel' = FALSE /\ inProgress' = TRUE
                          /\ start' = [pc |-> "gateway", mine |-> None, status |-> FALSE]
    BY <1>1 DEF OnConnectToServer, HandleConnecting, ConnectTo, SmartConnect, Idle, ChoiceTyped
  <2>2. MenuTyped' /\ ChoiceTyped'
    BY <2>1 DEF MenuTyped, ChoiceTyped, searchVars
  <2>9. "gateway" \in Steps /\ "gateway" \notin Late
    BY DEF Steps, Early, Late
  <2>10. vpn' \in [Vpns -> VpnStates]
    BY <2>1 DEF StartTyped
  <2>3. StartTyped' /\ "gateway" \notin Late
    <3>1. CASE inProgress
      BY <2>1, <2>9, <2>10, <3>1 DEF StartTyped
    <3>2. CASE ~inProgress
      <4>1. /\ start' = [pc |-> start'.pc, mine |-> start'.mine, status |-> start'.status]
            /\ start'.pc = "gateway" /\ start'.mine = None
        BY <2>1, <3>2
      <4>2. start'.status = FALSE
        BY <2>1, <3>2
      <4>3. start'.status \in BOOLEAN
        BY <4>2, Zenon
      <4> QED BY <2>9, <2>10, <4>1, <4>3 DEF StartTyped
    <3> QED BY <3>1, <3>2 DEF MenuTyped
  <2>4. WorkerKnown' /\ MenuAgrees'
    BY <2>1, <2>3 DEF WorkerKnown, MenuAgrees
  <2>5. BoxesAgree'
    BY <2>1 DEF BoxesAgree, FailedAt, WorkerKnown
  <2>6. TunnelKnown'
    BY <2>1 DEF TunnelKnown, ClientRuns, Runs, WorkerKnown, Late
  <2>7. TokenKnown'
    BY <2>1 DEF TokenKnown, WorkerKnown, MenuAgrees, ChoiceTyped
  <2> QED BY <2>2, <2>3, <2>4, <2>5, <2>6, <2>7
<1>2. CASE OnDisconnectFromServer
  <2>1. /\ state = "Connected" /\ state' = "None" /\ pinging' = TRUE
        /\ vpn' = StopClient(client, vpn) /\ client' = None
        /\ UNCHANGED <<cancel, inProgress, choice, start, boxes, searchVars>>
    BY <1>2 DEF OnDisconnectFromServer
  <2>2. start.pc = "idle" /\ ~inProgress /\ start.mine = None
    BY <2>1 DEF MenuAgrees, WorkerKnown, Late
  <2>3. /\ vpn' \in [Vpns -> VpnStates]
        /\ \A v \in Vpns : ~Runs(v)'
    BY <2>1, <2>2, Stops
  <2>4. MenuTyped' /\ StartTyped' /\ ChoiceTyped' /\ BoxesAgree' /\ TokenKnown'
    BY <2>1, <2>2, <2>3 DEF MenuTyped, StartTyped, ChoiceTyped, BoxesAgree, FailedAt, TokenKnown,
       searchVars, choice
  <2>5. WorkerKnown' /\ TunnelKnown' /\ MenuAgrees'
    BY <2>1, <2>2, <2>3 DEF WorkerKnown, TunnelKnown, MenuAgrees, ClientRuns, Late
  <2> QED BY <2>4, <2>5
<1>3. CASE OnCancel
  <2>1. HandleDefaultState /\ UNCHANGED <<inProgress, choice, start, boxes, searchVars>>
    BY <1>3 DEF OnCancel
  <2>2. MenuTyped' /\ StartTyped' /\ WorkerKnown' /\ TunnelKnown' /\ MenuAgrees'
    BY <2>1, DefaultState
  <2>3. ChoiceTyped' /\ BoxesAgree' /\ TokenKnown'
    BY <2>1 DEF HandleDefaultState, ChoiceTyped, BoxesAgree, FailedAt, TokenKnown, searchVars,
       choice
  <2> QED BY <2>2, <2>3
<1> QED BY <1>1, <1>2, <1>3
-----------------------------------------------------------------------------
(* startVpn *)

\* A step of the worker before it has a VpnManager.
LEMMA EarlyStep ==
  ASSUME TrayInv, start.pc \in Early, (\E pc \in Early : Goto(pc)) \/ Return(FALSE),
         UNCHANGED <<gui, boxes, pinging>>
  PROVE  MenuTyped' /\ StartTyped' /\ WorkerKnown' /\ BoxesAgree' /\ TunnelKnown' /\ MenuAgrees'
<1> USE TrayAssumption DEF TrayInv, gui
<1>1. /\ start.mine = None /\ start.pc \notin Late
      /\ start.pc \notin {"idle", "reporting", "returned"} /\ inProgress
  BY DEF WorkerKnown, Early, Late
<1>2. /\ vpn' = vpn
      /\ start' = [pc |-> start'.pc, mine |-> None, status |-> start'.status]
      /\ \/ start'.pc \in Early /\ start'.status = start.status
         \/ start'.pc = "returned" /\ start'.status = FALSE
  BY <1>1 DEF Goto, Return, StartTyped
<1>3. /\ start'.pc \in Steps /\ start'.pc \notin Late
      /\ start'.pc \notin {"idle", "reporting"}
      /\ start'.pc = "returned" => ~start'.status
      /\ start'.pc \notin {"published", "launch", "launched", "wait"}
  BY <1>2 DEF Steps, Early, Late
<1>4. StartTyped'
  <2>1. vpn' \in [Vpns -> VpnStates] /\ start.status \in BOOLEAN
    BY <1>2 DEF StartTyped
  <2>2. start'.status \in BOOLEAN /\ start'.mine \in Vpns \cup {None}
    <3>1. start'.status = start.status \/ start'.status = FALSE
      BY <1>2
    <3>2. start'.mine = None
      BY <1>2
    <3>3. start'.status \in BOOLEAN
      BY <2>1, <3>1, Zenon
    <3> QED BY <3>2, <3>3
  <2>3. start' = [pc |-> start'.pc, mine |-> start'.mine, status |-> start'.status]
    BY <1>2
  <2> QED BY <1>3, <2>1, <2>2, <2>3 DEF StartTyped
<1>5. MenuTyped'
  BY DEF MenuTyped
<1>6. WorkerKnown' /\ MenuAgrees'
  BY <1>1, <1>2, <1>3 DEF WorkerKnown, MenuAgrees, ClientRuns, Runs
<1>7. BoxesAgree'
  BY <1>1, <1>3 DEF BoxesAgree, FailedAt
<1>8. ~ClientRuns
  BY <1>1 DEF TunnelKnown, MenuAgrees
<1>9. TunnelKnown'
  BY <1>1, <1>2, <1>8 DEF TunnelKnown, ClientRuns, Runs
<1> QED BY <1>4, <1>5, <1>6, <1>7, <1>9

LEMMA EarlyWorkerStep ==
  ASSUME TrayInv, FindGateway \/ ChooseServer \/ TakeServer \/ ResolveServer \/ Login \/ Prepare
  PROVE  TrayInv'
<1> USE DEF TrayInv
<1>1. /\ start.pc \in Early
      /\ (\E pc \in Early : Goto(pc)) \/ Return(FALSE)
      /\ UNCHANGED <<gui, boxes, pinging>>
  BY DEF FindGateway, ChooseServer, TakeServer, ResolveServer, Login, Prepare, ContinueAt,
     LoginFails, DnsFails, Hang, Early
<1>2. MenuTyped' /\ StartTyped' /\ WorkerKnown' /\ BoxesAgree' /\ TunnelKnown' /\ MenuAgrees'
  BY <1>1, EarlyStep
<1>3. start'.pc = "returned" \/ \E pc \in Early : start' = [start EXCEPT !.pc = pc]
  BY <1>1 DEF Goto, Return
<1>4. CASE FindGateway \/ Prepare
  <2>1. UNCHANGED <<choice, cancel, searchVars>> /\ start.pc \notin {"resolve", "login"}
    BY <1>4 DEF FindGateway, Prepare, gui
  <2>2. ChoiceTyped' /\ TokenKnown'
    BY <2>1 DEF ChoiceTyped, TokenKnown, choice, searchVars
  <2> QED BY <1>2, <2>2
<1>5. CASE ChooseServer
  <2>1. /\ UNCHANGED <<choice, cancel>> /\ start.pc \notin {"resolve", "login"}
        /\ \/ UNCHANGED searchVars
           \/ \E S \in Halves : StartSearch(S)
    BY <1>5 DEF ChooseServer, gui
  <2>2. "asking" \in WorkerSteps /\ "none" \in WorkerSteps
    BY DEF WorkerSteps
  <2>3. ChoiceTyped' /\ TokenKnown'
    BY <2>1, <2>2 DEF ChoiceTyped, TokenKnown, choice, searchVars, StartSearch
  <2> QED BY <1>2, <2>3
<1>6. CASE TakeServer
  <2>1. /\ TakeResult /\ UNCHANGED <<cancel, smart>> /\ start.pc \notin {"resolve", "login"}
        /\ IF first = None THEN UNCHANGED <<server, token, leftover>>
             ELSE Goto("resolve") /\ server' = first /\ token' = first /\ leftover' = FALSE
    BY <1>6 DEF TakeServer, gui
  <2>2. "none" \in WorkerSteps
    BY DEF WorkerSteps
  <2>3. ChoiceTyped'
    BY <2>1, <2>2 DEF ChoiceTyped, TakeResult
  <2>4. TokenKnown'
    <3>1. CASE first = None
      BY <2>1, <3>1 DEF TokenKnown
    <3>2. CASE first # None
      <4>1. start'.pc = "resolve" /\ server' = token'
        BY <2>1, <3>2 DEF Goto, StartTyped
      <4> QED BY <4>1 DEF TokenKnown
    <3> QED BY <3>1, <3>2
  <2> QED BY <1>2, <2>3, <2>4
<1>7. CASE ResolveServer
  <2>1. /\ start.pc = "resolve" /\ UNCHANGED <<cancel, smart, server, token, searchVars>>
        /\ leftover' = (leftover \/ (start'.pc = "returned" /\ token # None))
        /\ Return(FALSE) \/ Goto("login")
    BY <1>7 DEF ResolveServer, ContinueAt, gui
  <2>2. start'.pc \in {"returned", "login"}
    BY <2>1 DEF Return, Goto, StartTyped
  <2>3. ChoiceTyped' /\ TokenKnown'
    BY <2>1, <2>2 DEF ChoiceTyped, TokenKnown, searchVars
  <2> QED BY <1>2, <2>3
<1>8. CASE Login
  <2>1. token' = None /\ UNCHANGED <<server, searchVars>>
    BY <1>8 DEF Login, UseToken
  <2>2. ChoiceTyped' /\ TokenKnown'
    BY <2>1 DEF ChoiceTyped, TokenKnown, searchVars
  <2> QED BY <1>2, <2>2
<1> QED BY <1>4, <1>5, <1>6, <1>7, <1>8

LEMMA LateWorkerStep ==
  ASSUME TrayInv, Publish \/ CheckPublished \/ Launch \/ CheckLaunched \/ AwaitStarted
  PROVE  TrayInv'
<1> USE TrayAssumption DEF TrayInv
<1>1. UNCHANGED <<state, cancel, inProgress, choice, boxes, pinging, searchVars>>
  BY DEF Publish, CheckPublished, Launch, CheckLaunched, AwaitStarted, gui
<1>2. ChoiceTyped'
  BY <1>1 DEF ChoiceTyped, choice, searchVars
<1>3. /\ start.pc \notin {"resolve", "login", "idle", "returned", "reporting"} /\ inProgress
  BY DEF Publish, CheckPublished, Launch, CheckLaunched, AwaitStarted, WorkerKnown
<1>4. TokenKnown'
  BY <1>1, <1>3 DEF TokenKnown, choice
<1> DEFINE Entry(pc, mine, status) == [pc |-> pc, mine |-> mine, status |-> status]
<1>5. start = Entry(start.pc, start.mine, start.status) /\ start.status \in BOOLEAN
      /\ start.mine \in Vpns \cup {None} /\ vpn \in [Vpns -> VpnStates]
      /\ client \in Vpns \cup {None}
  BY DEF StartTyped, MenuTyped
<1>6. {"made", "starting", "none"} \subseteq VpnStates
  BY DEF VpnStates
<1>7. {"published", "launch", "launched", "wait", "returned"} \subseteq Steps
  BY DEF Steps, Late
\* What the part of a step that keeps no box shows.
<1>8. ASSUME start'.pc \in {"published", "launch", "launched", "wait", "returned"}
      PROVE  BoxesAgree'
  BY <1>1, <1>3, <1>8 DEF BoxesAgree, FailedAt
<1>10. CASE Publish
  <2>1. PICK v \in Vpns : /\ vpn[v] = "none"
                          /\ vpn' = [StopClient(client, vpn) EXCEPT ![v] = "made"]
                          /\ client' = v
                          /\ start' = [start EXCEPT !.pc = "published", !.mine = v]
    BY <1>10 DEF Publish
  <2>2. start' = Entry("published", v, start.status) /\ start.pc = "publish" /\ start.mine = None
    BY <1>5, <1>10, <2>1 DEF Publish, WorkerKnown, Late
  <2>3. /\ vpn' \in [Vpns -> VpnStates] /\ vpn'[v] = "made"
        /\ \A w \in Vpns : vpn'[w] \in {vpn[w], "made", "stopped", "none"}
        /\ client # None => vpn'[client] \in {"made", "stopped", "none"}
    <3>1. {"stopped", "none", "made"} \subseteq VpnStates
      BY DEF VpnStates
    <3> QED BY <1>5, <2>1, <3>1 DEF StopClient
  <2>4. \A w \in Vpns : ~Runs(w)'
    BY <2>2, <2>3 DEF Runs, TunnelKnown
  <2>5. MenuTyped' /\ StartTyped' /\ BoxesAgree'
    BY <1>1, <1>5, <1>7, <1>8, <2>1, <2>2, <2>3 DEF MenuTyped, StartTyped
  <2>6. WorkerKnown' /\ TunnelKnown' /\ MenuAgrees'
    BY <1>1, <1>3, <2>1, <2>2, <2>4 DEF WorkerKnown, TunnelKnown, MenuAgrees, ClientRuns, Late
  <2> QED BY <1>2, <1>4, <2>5, <2>6
<1>11. CASE CheckPublished \/ CheckLaunched
  <2>1. /\ UNCHANGED <<client>>
        /\ \/ cancel /\ Return(FALSE)
           \/ ~cancel /\ start.pc = "published" /\ Goto("launch")
           \/ ~cancel /\ start.pc = "launched" /\ Goto("wait")
        /\ start.pc \in Late
    BY <1>11 DEF CheckPublished, CheckLaunched, ContinueAt, gui, Late
  <2>2. CASE ~cancel
    <3>1. PICK pc \in {"launch", "wait"} :
            /\ vpn' = vpn /\ start' = Entry(pc, start.mine, start.status)
            /\ pc = "launch" => start.pc = "published"
            /\ pc = "wait" => start.pc = "launched"
      BY <1>5, <2>1, <2>2 DEF Goto
    <3>2. MenuTyped' /\ StartTyped' /\ BoxesAgree'
      BY <1>1, <1>5, <1>7, <1>8, <2>1, <3>1 DEF MenuTyped, StartTyped
    <3>3. start.mine # None /\ client = start.mine
      BY <2>1, <2>2 DEF WorkerKnown
    <3>4. WorkerKnown'
      BY <1>1, <1>3, <2>1, <2>2, <3>1, <3>3 DEF WorkerKnown, Late
    <3>5. TunnelKnown' /\ MenuAgrees'
      BY <1>1, <1>3, <2>1, <2>2, <3>1, <3>3 DEF TunnelKnown, MenuAgrees, ClientRuns, Runs, Early
    <3> QED BY <1>2, <1>4, <3>2, <3>4, <3>5
  <2>3. CASE cancel
    <3>1. /\ start' = Entry("returned", None, FALSE)
          /\ vpn' = IF start.mine # client THEN [vpn EXCEPT ![start.mine] = "none"] ELSE vpn
      BY <2>1, <2>3 DEF Return, WorkerKnown
    <3>2. /\ vpn' \in [Vpns -> VpnStates]
          /\ \A v \in Vpns : Runs(v)' => v = client /\ Runs(v)
      BY <1>5, <1>6, <2>1, <3>1 DEF TunnelKnown, Runs, WorkerKnown
    <3>3. MenuTyped' /\ StartTyped' /\ BoxesAgree'
      BY <1>1, <1>5, <1>7, <1>8, <2>1, <3>1, <3>2 DEF MenuTyped, StartTyped
    <3>4. WorkerKnown' /\ TunnelKnown' /\ MenuAgrees'
      BY <1>1, <1>3, <1>5, <2>1, <2>3, <3>1, <3>2
         DEF WorkerKnown, TunnelKnown, MenuAgrees, ClientRuns, Late
    <3> QED BY <1>2, <1>4, <3>3, <3>4
  <2> QED BY <2>2, <2>3 DEF MenuTyped
<1>12. CASE Launch
  <2>1. /\ UNCHANGED client /\ start.pc = "launch" /\ start.mine \in Vpns
        /\ start' = Entry("launched", start.mine, start.status)
        /\ vpn' = [vpn EXCEPT ![start.mine] = "starting"]
    BY <1>5, <1>12 DEF Launch, gui, WorkerKnown, Late
  <2>2. /\ vpn' \in [Vpns -> VpnStates]
        /\ \A v \in Vpns : v # start.mine => (Runs(v)' <=> Runs(v))
    BY <1>5, <1>6, <2>1 DEF Runs
  <2>3. MenuTyped' /\ StartTyped' /\ BoxesAgree'
    BY <1>1, <1>5, <1>7, <1>8, <2>1, <2>2 DEF MenuTyped, StartTyped
  <2>4. WorkerKnown'
    BY <1>1, <1>3, <2>1 DEF WorkerKnown, Late
  <2>5. client = start.mine => ~cancel /\ state = "Connecting"
    BY <1>3, <2>1 DEF WorkerKnown, MenuAgrees, Late, MenuTyped
  <2>6. TunnelKnown' /\ MenuAgrees'
    BY <1>1, <1>3, <2>1, <2>2, <2>5 DEF TunnelKnown, MenuAgrees, ClientRuns, Early, WorkerKnown,
         Late
  <2> QED BY <1>2, <1>4, <2>3, <2>4, <2>6
<1>13. CASE AwaitStarted
  <2>1. PICK ok \in BOOLEAN :
          /\ UNCHANGED client /\ start.pc = "wait" /\ Return(ok)
          /\ ok => vpn[start.mine] \in {"up", "reconnecting"} /\ ~cancel
    BY <1>13 DEF AwaitStarted, gui, MenuTyped
  <2>2. /\ start' = Entry("returned", None, ok) /\ start.mine \in Vpns
        /\ vpn' = IF start.mine # client THEN [vpn EXCEPT ![start.mine] = "none"] ELSE vpn
    BY <1>5, <2>1 DEF Return, WorkerKnown, Late
  <2>3. /\ vpn' \in [Vpns -> VpnStates]
        /\ \A v \in Vpns : Runs(v)' => v = client /\ Runs(v)
        /\ ok => client = start.mine /\ client # None /\ Runs(client)'
    BY <1>5, <1>6, <2>1, <2>2 DEF TunnelKnown, Runs, WorkerKnown, Late
  <2>4. MenuTyped' /\ StartTyped' /\ BoxesAgree'
    BY <1>1, <1>5, <1>7, <1>8, <2>1, <2>2, <2>3 DEF MenuTyped, StartTyped
  <2>5. WorkerKnown'
    BY <1>1, <1>3, <2>1, <2>2 DEF WorkerKnown, Late
  <2>6. TunnelKnown' /\ MenuAgrees'
    BY <1>1, <1>3, <1>5, <2>1, <2>2, <2>3 DEF TunnelKnown, MenuAgrees, ClientRuns, Early, Runs
  <2> QED BY <1>2, <1>4, <2>4, <2>5, <2>6
<1> QED BY <1>10, <1>11, <1>12, <1>13
-----------------------------------------------------------------------------
(* The error boxes, the timer, the tunnel and the search *)

LEMMA BoxOpened ==
  ASSUME TrayInv, Len(boxes) < MaxBoxes, NEW x \in {"failed", "closed"},
         boxes' = <<x>> \o boxes
  PROVE  /\ boxes' \in Seq({"failed", "closed"}) /\ Len(boxes') <= MaxBoxes
         /\ x = "closed" => FailedAt' = {i + 1 : i \in FailedAt}
         /\ x = "failed" => FailedAt' = {1} \cup {i + 1 : i \in FailedAt}
<1>1. boxes \in Seq({"failed", "closed"}) /\ Len(boxes) \in Nat
  BY DEF TrayInv, BoxesAgree
<1>2. /\ boxes' \in Seq({"failed", "closed"}) /\ Len(boxes') = Len(boxes) + 1
      /\ boxes'[1] = x
      /\ \A i \in 1..Len(boxes) : boxes'[i + 1] = boxes[i]
  BY <1>1
<1>3. \A j \in 1..Len(boxes') : j = 1 \/ \E i \in 1..Len(boxes) : j = i + 1
  <2> SUFFICES ASSUME NEW j \in 1..Len(boxes'), j # 1 PROVE \E i \in 1..Len(boxes) : j = i + 1
    OBVIOUS
  <2>1. j - 1 \in 1..Len(boxes) /\ j = (j - 1) + 1
    BY <1>1, <1>2
  <2> QED BY <2>1
<1>4. 1 \in 1..Len(boxes') /\ \A i \in 1..Len(boxes) : i + 1 \in 1..Len(boxes')
  BY <1>1, <1>2
<1>5. \A j : j \in FailedAt' <=> \/ j = 1 /\ x = "failed"
                                 \/ \E i \in FailedAt : j = i + 1
  BY <1>2, <1>3, <1>4 DEF FailedAt
<1> QED BY <1>1, <1>2, <1>5, TrayAssumption

LEMMA BoxClosed ==
  ASSUME TrayInv, boxes # <<>>, boxes' = Tail(boxes)
  PROVE  /\ boxes' \in Seq({"failed", "closed"}) /\ Len(boxes') <= MaxBoxes
         /\ Head(boxes) = "failed" <=> 1 \in FailedAt
         /\ \A j : j \in FailedAt' => j \in Nat /\ j + 1 \in FailedAt
         /\ \A i \in FailedAt : i \in Nat /\ (i # 1 => i - 1 \in FailedAt')
<1>1. boxes \in Seq({"failed", "closed"}) /\ Len(boxes) \in Nat /\ Len(boxes) <= MaxBoxes
  BY DEF TrayInv, BoxesAgree
<1>2. /\ boxes' \in Seq({"failed", "closed"}) /\ Len(boxes') = Len(boxes) - 1
      /\ \A j \in 1..Len(boxes') : boxes'[j] = boxes[j + 1]
      /\ Head(boxes) = boxes[1] /\ Len(boxes) >= 1
  BY <1>1
<1>3. /\ \A j \in 1..Len(boxes') : j \in Nat /\ j + 1 \in 1..Len(boxes)
      /\ \A i \in 1..Len(boxes) : /\ i \in Nat
                                  /\ i # 1 => i - 1 \in 1..Len(boxes') /\ (i - 1) + 1 = i
      /\ 1 \in 1..Len(boxes)
  BY <1>1, <1>2
<1>4. Len(boxes') <= MaxBoxes
  BY <1>1, <1>2, TrayAssumption
<1>5. \A j \in FailedAt' : j \in Nat /\ j + 1 \in FailedAt
  BY <1>2, <1>3 DEF FailedAt
<1>6. ASSUME NEW i \in FailedAt PROVE i \in Nat /\ (i # 1 => i - 1 \in FailedAt')
  <2>1. i \in 1..Len(boxes) /\ boxes[i] = "failed"
    BY <1>6 DEF FailedAt
  <2>2. ASSUME i # 1 PROVE i - 1 \in 1..Len(boxes') /\ boxes'[i - 1] = "failed"
    BY <1>2, <1>3, <2>1, <2>2
  <2> QED BY <1>3, <2>1, <2>2 DEF FailedAt
<1>7. Head(boxes) = "failed" <=> 1 \in FailedAt
  BY <1>2, <1>3 DEF FailedAt
<1> QED BY <1>2, <1>4, <1>5, <1>6, <1>7

LEMMA FinishedStep ==
  ASSUME TrayInv, OnFinished
  PROVE  TrayInv'
<1> USE TrayAssumption DEF TrayInv
<1>1. /\ start.pc = "returned" /\ inProgress /\ start.mine = None /\ FailedAt = {}
      /\ UNCHANGED <<client, choice, vpn, pinging, searchVars>>
  BY DEF OnFinished, WorkerKnown, Late, BoxesAgree
<1>2. ChoiceTyped'
  BY <1>1 DEF ChoiceTyped, choice, searchVars
<1>3. TokenKnown'
  BY <1>1 DEF TokenKnown, choice
<1>4. CASE ~cancel /\ ~start.status
  <2>1. /\ Len(boxes) < MaxBoxes /\ boxes' = <<"failed">> \o boxes
        /\ cancel' = FALSE /\ UNCHANGED <<state, inProgress>>
        /\ start' = [start EXCEPT !.pc = "reporting"]
    BY <1>4 DEF OnFinished, Uncancelled
  <2>2. start' = [pc |-> "reporting", mine |-> None, status |-> start.status]
    BY <1>1, <2>1 DEF StartTyped
  <2>3. "reporting" \in Steps /\ "reporting" \notin Late /\ "reporting" \notin Early
    BY DEF Steps, Late, Early
  <2>4. MenuTyped' /\ StartTyped'
    BY <1>1, <2>1, <2>2, <2>3 DEF MenuTyped, StartTyped
  <2>5. FailedAt' = {1}
    BY <1>1, <2>1, BoxOpened
  <2>6. BoxesAgree'
    BY <2>1, <2>2, <2>5, BoxOpened DEF BoxesAgree
  <2>7. WorkerKnown' /\ TunnelKnown' /\ MenuAgrees'
    BY <1>1, <1>4, <2>1, <2>2, <2>3
       DEF WorkerKnown, TunnelKnown, MenuAgrees, ClientRuns, Runs
  <2> QED BY <1>2, <1>3, <2>4, <2>6, <2>7
<1>5. CASE cancel \/ start.status
  <2>1. /\ state' = IF ~cancel THEN "Connected" ELSE state
        /\ cancel' = (IF ~cancel THEN FALSE ELSE cancel)
        /\ inProgress' = FALSE /\ UNCHANGED boxes
        /\ start' = [pc |-> "idle", mine |-> None, status |-> FALSE]
    BY <1>5 DEF OnFinished, Uncancelled, Release, Idle
  <2>2. "idle" \in Steps /\ "idle" \notin Late
    BY DEF Steps, Late, Early
  <2>3. MenuTyped'
    <3>1. state' \in {"None", "Connecting", "Connected"}
      BY <2>1 DEF MenuTyped
    <3>2. cancel' \in BOOLEAN
      BY <2>1 DEF MenuTyped
    <3>3. inProgress' \in BOOLEAN /\ client' \in Vpns \cup {None}
      BY <1>1, <2>1 DEF MenuTyped
    <3> QED BY <3>1, <3>2, <3>3 DEF MenuTyped
  <2>4. StartTyped'
    <3>1. start'.status \in BOOLEAN
      BY <2>1
    <3>2. start' = [pc |-> start'.pc, mine |-> start'.mine, status |-> start'.status]
      BY <2>1
    <3>3. start'.pc = "idle" /\ start'.mine = None
      BY <2>1
    <3> QED BY <1>1, <2>2, <3>1, <3>2, <3>3 DEF StartTyped
  <2>5. BoxesAgree' /\ WorkerKnown'
    BY <1>1, <2>1, <2>2 DEF BoxesAgree, FailedAt, WorkerKnown
  <2>6. (ClientRuns' <=> ClientRuns) /\ \A v \in Vpns : Runs(v)' <=> Runs(v)
    BY <1>1 DEF ClientRuns, Runs
  <2>7. ~cancel => ClientRuns
    BY <1>1, <1>5 DEF MenuAgrees
  <2>8. TunnelKnown'
    BY <1>1, <2>1, <2>6, <2>7 DEF TunnelKnown
  <2>9. MenuAgrees'
    BY <1>1, <2>1, <2>6, <2>7 DEF MenuAgrees, TunnelKnown
  <2> QED BY <1>2, <1>3, <2>3, <2>4, <2>5, <2>8, <2>9
<1> QED BY <1>4, <1>5 DEF MenuTyped

LEMMA CloseBoxStep ==
  ASSUME TrayInv, CloseBox
  PROVE  TrayInv'
<1> USE TrayAssumption DEF TrayInv
<1>1. /\ boxes # <<>> /\ boxes' = Tail(boxes) /\ HandleDefaultState
      /\ UNCHANGED <<choice, searchVars>>
  BY DEF CloseBox, HandleDisconnecting
<1>2. ChoiceTyped'
  BY <1>1 DEF ChoiceTyped, choice, searchVars
<1>3. CASE Head(boxes) = "failed"
  <2>1. /\ inProgress' = FALSE /\ start' = [pc |-> "idle", mine |-> None, status |-> FALSE]
        /\ 1 \in FailedAt
    BY <1>1, <1>3, BoxClosed DEF CloseBox, Release, Idle
  <2>2. start.pc = "reporting" /\ start.mine = None
    BY <2>1 DEF BoxesAgree, WorkerKnown, Late
  <2>3. FailedAt' = {}
    <3> SUFFICES ASSUME NEW j \in FailedAt' PROVE FALSE
      OBVIOUS
    <3>1. j \in Nat /\ j + 1 \in FailedAt
      BY <1>1, BoxClosed
    <3>2. j + 1 = 1
      BY <2>1, <3>1 DEF BoxesAgree
    <3>3. j = 0
      BY <3>1, <3>2
    <3> QED BY <3>3 DEF FailedAt
  <2>4. "idle" \in Steps /\ "idle" \notin Late /\ "idle" # "reporting"
    BY DEF Steps, Late, Early
  <2>5. start'.pc = "idle" /\ start'.mine = None /\ start'.status \in BOOLEAN
    BY <2>1
  <2>6. BoxesAgree'
    BY <1>1, <2>3, <2>4, <2>5, BoxClosed DEF BoxesAgree
  <2>7. /\ vpn' \in [Vpns -> VpnStates]
        /\ \A v \in Vpns : ~Runs(v)'
    BY <1>1, <2>2, Stops DEF HandleDefaultState
  <2>8. MenuTyped'
    BY <1>1, <2>1 DEF MenuTyped, HandleDefaultState
  <2>9. StartTyped'
    <3>1. start' = [pc |-> start'.pc, mine |-> start'.mine, status |-> start'.status]
      BY <2>1
    <3> QED BY <2>4, <2>5, <2>7, <3>1 DEF StartTyped
  <2>10. WorkerKnown' /\ TunnelKnown' /\ MenuAgrees'
    BY <1>1, <2>1, <2>4, <2>5, <2>7
       DEF WorkerKnown, TunnelKnown, MenuAgrees, ClientRuns, HandleDefaultState
  <2>11. TokenKnown'
    BY <1>1, <2>2 DEF TokenKnown, choice
  <2> QED BY <1>2, <2>6, <2>8, <2>9, <2>10, <2>11
<1>4. CASE Head(boxes) # "failed"
  <2>1. UNCHANGED <<inProgress, start>> /\ 1 \notin FailedAt
    BY <1>1, <1>4, BoxClosed DEF CloseBox
  <2>2. MenuTyped' /\ StartTyped' /\ WorkerKnown' /\ TunnelKnown' /\ MenuAgrees'
    BY <1>1, <2>1, DefaultState
  <2>3. \A i, j \in FailedAt' : i = j
    <3> SUFFICES ASSUME NEW i \in FailedAt', NEW j \in FailedAt' PROVE i = j
      OBVIOUS
    <3>1. /\ i \in Nat /\ i + 1 \in FailedAt
          /\ j \in Nat /\ j + 1 \in FailedAt
      BY <1>1, BoxClosed
    <3>2. i + 1 = j + 1
      BY <3>1 DEF BoxesAgree
    <3> QED BY <3>1, <3>2
  <2>4. FailedAt' # {} <=> FailedAt # {}
    <3>1. /\ \A j \in FailedAt' : j + 1 \in FailedAt
          /\ \A i \in FailedAt : i # 1 => i - 1 \in FailedAt'
      BY <1>1, BoxClosed
    <3> QED BY <2>1, <3>1
  <2>5. BoxesAgree'
    BY <1>1, <2>1, <2>3, <2>4, BoxClosed DEF BoxesAgree
  <2>6. TokenKnown'
    BY <1>1, <2>1 DEF TokenKnown, choice, HandleDefaultState
  <2> QED BY <1>2, <2>2, <2>5, <2>6
<1> QED BY <1>3, <1>4

LEMMA TimerStep ==
  ASSUME TrayInv, HandleTimer
  PROVE  TrayInv'
<1> USE TrayAssumption DEF TrayInv
<1>1. UNCHANGED <<gui, choice, start, vpn, pinging, searchVars>>
  BY DEF HandleTimer
<1>2. MenuTyped' /\ StartTyped' /\ ChoiceTyped' /\ WorkerKnown' /\ TunnelKnown'
  BY <1>1 DEF MenuTyped, StartTyped, ChoiceTyped, WorkerKnown, TunnelKnown, ClientRuns, Runs,
     gui, choice, searchVars
<1>3. MenuAgrees' /\ TokenKnown'
  BY <1>1 DEF MenuAgrees, ClientRuns, Runs, TokenKnown, gui, choice
<1>4. CASE UNCHANGED boxes
  <2>1. BoxesAgree'
    BY <1>1, <1>4 DEF BoxesAgree, FailedAt
  <2> QED BY <1>2, <1>3, <2>1
<1>5. CASE Len(boxes) < MaxBoxes /\ boxes' = <<"closed">> \o boxes
  <2>1. FailedAt' = {i + 1 : i \in FailedAt}
    BY <1>5, BoxOpened
  <2>2. /\ \A i, j \in FailedAt' : i = j
        /\ FailedAt' # {} <=> FailedAt # {}
    BY <2>1 DEF BoxesAgree
  <2>3. BoxesAgree'
    BY <1>1, <1>5, <2>2, BoxOpened DEF BoxesAgree
  <2> QED BY <1>2, <1>3, <2>3
<1> QED BY <1>4, <1>5 DEF HandleTimer

\* What moves neither the menu nor the worker.
LEMMA OtherStep ==
  ASSUME TrayInv, ThreeSeconds \/ (\E v \in Vpns : Tunnel(v)) \/ Search \/ UNCHANGED vars
  PROVE  TrayInv'
<1> USE TrayAssumption DEF TrayInv
<1>1. UNCHANGED <<gui, choice, start, boxes, pinging>>
  BY DEF ThreeSeconds, Tunnel, Search, trayVars, vars
<1>2. /\ vpn' \in [Vpns -> VpnStates]
      /\ \A v \in Vpns : Runs(v)' <=> Runs(v)
  <2>1. vpn \in [Vpns -> VpnStates]
    BY DEF StartTyped
  <2>2. CASE UNCHANGED vpn
    BY <2>1, <2>2 DEF Runs
  <2>3. ASSUME NEW v \in Vpns, Tunnel(v)
        PROVE  /\ vpn' \in [Vpns -> VpnStates]
               /\ \A w \in Vpns : Runs(w)' <=> Runs(w)
    <3>1. {"up", "reconnecting", "down"} \subseteq VpnStates
      BY DEF VpnStates
    <3>2. PICK s \in {"up", "reconnecting", "down"} : vpn' = [vpn EXCEPT ![v] = s]
      BY <2>3 DEF Tunnel
    <3>3. Runs(v)
      BY <2>3 DEF Tunnel, Runs
    <3> QED BY <2>1, <3>1, <3>2, <3>3 DEF Runs
  <2> QED BY <2>2, <2>3 DEF ThreeSeconds, Search, trayVars, vars
<1>3. first' \in Servers \cup {None} /\ worker' \in [Servers -> WorkerSteps]
  <2>1. first \in Servers \cup {None} /\ worker \in [Servers -> WorkerSteps]
    BY DEF ChoiceTyped
  <2>2. CASE UNCHANGED searchVars
    BY <2>1, <2>2 DEF searchVars
  <2>3. CASE FinderStep
    BY <2>1, <2>3 DEF FinderStep, WaitReturns, JoinWorkers
  <2>4. ASSUME NEW s \in Servers, WorkerStep(s)
        PROVE  first' \in Servers \cup {None} /\ worker' \in [Servers -> WorkerSteps]
    <3>1. {"success", "failure", "hung", "ended"} \subseteq WorkerSteps
      BY DEF WorkerSteps
    <3>2. CASE Answer(s)
      BY <2>1, <3>1, <3>2 DEF Answer, PostImpl
    <3>3. CASE StoreResult(s)
      BY <2>1, <3>1, <3>3 DEF StoreResult
    <3> QED BY <2>4, <3>2, <3>3 DEF WorkerStep
  <2> QED BY <2>2, <2>3, <2>4 DEF ThreeSeconds, Tunnel, Search, vars
<1>4. MenuTyped' /\ StartTyped' /\ ChoiceTyped' /\ BoxesAgree' /\ TokenKnown'
  BY <1>1, <1>2, <1>3 DEF MenuTyped, StartTyped, ChoiceTyped, BoxesAgree, FailedAt, TokenKnown,
     gui, choice
<1>5. ClientRuns' <=> ClientRuns
  BY <1>1, <1>2 DEF ClientRuns, MenuTyped, gui
<1>6. WorkerKnown' /\ TunnelKnown' /\ MenuAgrees'
  BY <1>1, <1>2, <1>5 DEF WorkerKnown, TunnelKnown, MenuAgrees, gui
<1> QED BY <1>4, <1>6
-----------------------------------------------------------------------------
(* The theorems *)

\* The inductive invariant holds in every state of the tray: the worker, the
\* menu, the error boxes and the tunnels agree on whether there is a connection
\* (tray.cpp:591-649, 777-1144).
THEOREM TrayInvariant == TraySpec => []TrayInv
<1>1. ASSUME TrayInv, [TrayNext]_vars PROVE TrayInv'
  BY <1>1, MenuStep, EarlyWorkerStep, LateWorkerStep, FinishedStep, CloseBoxStep, TimerStep,
     OtherStep DEF TrayNext, StartVpn
<1> QED BY TrayInitInv, <1>1, PTL DEF TraySpec

\* However the menu, the worker, the timer and the error boxes interleave,
\* there is never more than one tunnel, it is the menu's or the worker's, and
\* the menu says Connected only while there is one to disconnect
\* (tray.cpp:591-649, 1097-1144).
THEOREM OneTunnel == TraySpec => []TunnelOwned
<1>1. ASSUME TrayInv PROVE TunnelOwned
  <2> USE <1>1 DEF TrayInv
  <2>1. TrayTypeOK
    BY DEF TrayTypeOK, MenuTyped, StartTyped, ChoiceTyped, BoxesAgree, VpnStates
  <2>2. \A v \in Vpns : Runs(v) => v \in {client, start.mine}
    BY DEF TunnelKnown
  <2>3. ASSUME NEW v \in Vpns, NEW w \in Vpns, Runs(v), Runs(w) PROVE v = w
    <3>1. v \in {client, start.mine} /\ w \in {client, start.mine}
      BY <2>2, <2>3
    <3>2. start.mine # None => client \in {start.mine, None}
      BY DEF WorkerKnown
    <3> QED BY <3>1, <3>2, TrayAssumption
  <2>4. /\ pinging <=> state = "None"
        /\ state = "Connected" => client # None /\ Runs(client) /\ start.pc = "idle"
    BY DEF MenuAgrees, ClientRuns
  <2> QED BY <2>1, <2>2, <2>3, <2>4 DEF TunnelOwned
<1> QED BY <1>1, TrayInvariant, PTL

\* A token that the attempt's own search obtained is used for the server it
\* goes to.  The theorem says nothing of a token that an ended attempt left
\* behind: the next attempt uses it for whatever server (tray.cpp:960).
THEOREM TokensMatch == TraySpec => TokenForItsServer
<1>1. ASSUME TrayInv, TrayNext, start.pc = "login", start'.pc = "dns", token # None
      PROVE  leftover \/ token = server
  <2>1. ~cancel
    <3>1. CASE Login
      BY <1>1, <3>1 DEF Login, LoginFails, Return, Hang, Goto, ContinueAt, TrayInv, StartTyped
    <3>2. CASE ~Login
      BY <1>1, <3>2 DEF TrayNext, OnConnectToServer, HandleConnecting, OnDisconnectFromServer,
         OnCancel, StartVpn, FindGateway, ChooseServer, TakeServer, ResolveServer, Prepare, Publish,
         CheckPublished, Launch, CheckLaunched, AwaitStarted, Search, OnFinished, CloseBox, Release,
         HandleTimer, ThreeSeconds, Tunnel, trayVars, Idle
    <3> QED BY <3>1, <3>2
  <2> QED BY <1>1, <2>1 DEF TrayInv, TokenKnown
<1>2. ASSUME TrayInv, [TrayNext]_vars
      PROVE  [start.pc = "login" /\ start'.pc = "dns" /\ token # None
                => leftover \/ token = server]_vars
  BY <1>1, <1>2
<1> QED BY TrayInvariant, <1>2, PTL DEF TraySpec, TokenForItsServer
=============================================================================
