--------------------------- MODULE BrowserMimicry ---------------------------
(***************************************************************************)
(* The pool that mimics a browser (strategies/browser_mimicry): a few      *)
(* connections that first carry what is sent and later only receive, each  *)
(* with a random life.  One coroutine removes the expired ones, moves      *)
(* connections between the lists and creates what is missing, one at a     *)
(* time; Stop may come from another thread.                                *)
(*                                                                         *)
(* Time passes in ticks; the manager runs at least once per tick, and a    *)
(* turn of it is one step, except that Stop may come between the creation  *)
(* of a connection and its entry in the pool.                              *)
(***************************************************************************)
EXTENDS Integers, FiniteSets, FiniteSetsExt

CONSTANTS
  PerType,      \* target_per_type: half of min_connections
  MaxPool,      \* max_connections
  Ttls,         \* the lives a connection may draw, in ticks
  SendTimes,    \* the times a sender may draw
  MinSending,   \* min_sending_seconds, for connections that only receive
  Lead,         \* kReplacementLead
  ConnectMax,   \* how long a connection may take to start
  Ids,          \* connection ids, reused once nothing refers to them
  MaxFailed,    \* bound: how many connections fail to start
  MaxLost       \* bound: how many started connections are lost

MimicryAssumption ==
  /\ PerType \in Nat \ {0} /\ MaxPool \in Nat \ {0} /\ MaxPool >= 2 * PerType
  /\ Ttls \subseteq Nat \ {0} /\ IsFiniteSet(Ttls)
  /\ SendTimes \subseteq Nat \ {0} /\ IsFiniteSet(SendTimes)
  /\ MinSending \in Nat /\ Lead \in Nat /\ ConnectMax \in Nat
  /\ Ids \subseteq Nat \ {0} /\ IsFiniteSet(Ids) /\ Cardinality(Ids) >= 2 * MaxPool
  /\ MaxFailed \in Nat /\ MaxLost \in Nat

\* A life is longer than the start of a connection and the turn after it.
LivesFit == Lead > 0 /\ \A ttl \in Ttls : ttl > ConnectMax + 1

VARIABLES
  running,    \* RunningStatus
  pool,       \* all_connections_: id, status, ticks to send and to live, and
              \* whether the client is started
  senders,    \* ids in sending_data_connections_
  receivers,  \* ids in getting_data_connections_
  making,     \* the connection being created, and what is still to create
  closing,    \* clients whose closing coroutine has not run
  open,       \* clients that have not been stopped
  told,       \* connected_notified_
  managed,    \* ManagePoolCoroutine has ended a turn in this tick
  failed, lost

mimicryVars == <<running, pool, senders, receivers, making, closing, open, told,
                 managed, failed, lost>>

Longest == Max(Ttls \cup SendTimes \cup {MinSending})

Connection == [id : Ids, status : {"creating", "sending", "receiving"},
               send : 0..Longest, left : 0..Longest, up : BOOLEAN]

Making == [stage : {"none", "connecting", "ready"}, id : Ids \cup {0},
           send : 0..Longest, left : 0..Longest, age : 0..ConnectMax,
           needSend : 0..PerType, needRecv : 0..PerType]

Idle == [stage |-> "none", id |-> 0, send |-> 0, left |-> 0, age |-> 0,
         needSend |-> 0, needRecv |-> 0]

IdsIn(S)  == {c.id : c \in S}
SendPool  == IF senders # {} THEN senders ELSE receivers
IsReady   == \E c \in pool : c.up
Used      == IdsIn(pool) \cup open \cup closing \cup {making.id}
Less(n)   == IF n = 0 THEN 0 ELSE n - 1

-----------------------------------------------------------------------------
(* ManagePoolCoroutine *)

\* Defect: the lists keep a connection that has left the pool.
ListsKeep(list, dead) == list

ListsDrop(list, dead) == list \ IdsIn(dead)

\* A connection stays until its time is over, lost or not.
Expired(P) == {c \in P : c.left = 0}

Due(c) == IF c.send > 0 THEN "sending" ELSE "receiving"

\* UpdateConnectionsStatus: what the status becomes.
NextStatus(c) ==
  CASE c.status = "sending" /\ c.send = 0 -> "receiving"
    [] c.status = "creating" /\ c.up      -> Due(c)
    [] OTHER                              -> c.status

Updated(P) == {[c EXCEPT !.status = NextStatus(c)] : c \in P}

Moved(P, status) == IdsIn({c \in P : NextStatus(c) # c.status /\ NextStatus(c) = status})

\* Those that will not leave their role within the lead.
Counted(P, status) ==
  Cardinality({c \in P : /\ c.status = status
                         /\ IF status = "sending" THEN c.send > Lead ELSE c.left > Lead})

Missing(P, status) ==
  LET n == Counted(P, status) IN IF n < PerType THEN PerType - n ELSE 0

\* The next connection, of those that are still to be created, or none.
Begin(P, needSend, needRecv) ==
  IF needSend + needRecv > 0 /\ Cardinality(P) < MaxPool
    THEN \E ttl \in Ttls, send \in IF needSend > 0 THEN SendTimes ELSE {MinSending} :
           LET id == Min(Ids \ Used) IN
             /\ making' = [stage |-> "connecting", id |-> id, send |-> send,
                           left |-> ttl, age |-> 0, needSend |-> Less(needSend),
                           needRecv |-> IF needSend > 0 THEN needRecv ELSE Less(needRecv)]
             /\ open' = open \cup {id}
             /\ UNCHANGED <<running, told, managed>>
    ELSE /\ making' = Idle
         /\ managed' = TRUE
         /\ running' = (running /\ P # {})
         /\ told' = (told \/ (\E c \in P : c.up))
         /\ UNCHANGED open

\* Remove, update, count, and the first creation that is missing.
Manage ==
  /\ running /\ ~managed /\ making.stage = "none"
  /\ LET dead  == Expired(pool)
         alive == pool \ dead
         moved == Moved(alive, "sending") \cup Moved(alive, "receiving")
         after == Updated(alive)
     IN  /\ pool' = after
         /\ closing' = closing \cup IdsIn(dead)
         /\ senders' = (ListsDrop(senders, dead) \ moved) \cup Moved(alive, "sending")
         /\ receivers' = (ListsDrop(receivers, dead) \ moved) \cup Moved(alive, "receiving")
         /\ Begin(after, Missing(after, "sending"), Missing(after, "receiving"))
  /\ UNCHANGED <<failed, lost>>

(* CreateNewConnection and the rest of CreateMissingConnections *)

IsMade ==
  /\ making.stage = "connecting" /\ running
  /\ making' = [making EXCEPT !.stage = "ready"]
  /\ UNCHANGED <<running, pool, senders, receivers, closing, open, told, managed,
                 failed, lost>>

\* Entered in the pool and the next one begun, whatever happened meanwhile.
EnterPool ==
  /\ making.stage = "ready"
  /\ pool' = pool \cup {[id |-> making.id, status |-> "creating", send |-> making.send,
                         left |-> making.left, up |-> TRUE]}
  /\ Begin(pool', making.needSend, making.needRecv)
  /\ UNCHANGED <<senders, receivers, closing, failed, lost>>

\* The client stopped, or was not started in time: it is stopped, and the rest
\* waits for the next turn.
CreateFails ==
  /\ making.stage = "connecting" /\ running
  /\ failed < MaxFailed
  /\ failed' = failed + 1
  /\ open' = open \ {making.id}
  /\ making' = Idle
  /\ managed' = TRUE
  /\ running' = (pool # {})
  /\ told' = (told \/ IsReady)
  /\ UNCHANGED <<pool, senders, receivers, closing, lost>>

-----------------------------------------------------------------------------
(* Closing coroutines, losses, time and Stop *)

CloseClient(id) ==
  /\ running /\ id \in closing
  /\ closing' = closing \ {id}
  /\ open' = open \ {id}
  /\ UNCHANGED <<running, pool, senders, receivers, making, told, managed, failed, lost>>

\* Its watchdog has stopped the client; nothing tells the pool.
Lose(c) ==
  /\ running /\ c.up
  /\ lost < MaxLost
  /\ lost' = lost + 1
  /\ pool' = (pool \ {c}) \cup {[c EXCEPT !.up = FALSE]}
  /\ UNCHANGED <<running, senders, receivers, making, closing, open, told, managed, failed>>

\* Ready clients are noticed, and closing coroutines run, well within a tick.
Tick ==
  /\ running /\ closing = {}
  /\ IF making.stage = "none" THEN managed
       ELSE making.stage = "connecting" /\ making.age < ConnectMax
  /\ pool' = {[c EXCEPT !.send = Less(@), !.left = Less(@)] : c \in pool}
  /\ making' = IF making.stage = "none" THEN making
                 ELSE [making EXCEPT !.send = Less(@), !.left = Less(@), !.age = @ + 1]
  /\ managed' = FALSE
  /\ UNCHANGED <<running, senders, receivers, closing, open, told, failed, lost>>

\* Stop, and the destructor again.
Stop ==
  /\ running' = FALSE
  /\ open' = open \ IdsIn(pool)
  /\ pool' = {} /\ senders' = {} /\ receivers' = {}
  /\ UNCHANGED <<making, closing, told, managed, failed, lost>>

-----------------------------------------------------------------------------
MimicryInit ==
  /\ running = TRUE
  /\ pool = {} /\ senders = {} /\ receivers = {}
  /\ making = Idle
  /\ closing = {} /\ open = {}
  /\ told = FALSE /\ managed = FALSE
  /\ failed = 0 /\ lost = 0

MakeStep == IsMade \/ CreateFails

MimicryNext ==
  \/ Manage \/ MakeStep \/ EnterPool
  \/ \E id \in Ids : CloseClient(id)
  \/ \E c \in pool : Lose(c)
  \/ Tick \/ Stop

MimicrySpec == MimicryInit /\ [][MimicryNext]_mimicryVars

\* The event loop keeps running its coroutines, and time passes.
MimicryFairSpec ==
  /\ MimicrySpec
  /\ WF_mimicryVars(Manage) /\ WF_mimicryVars(MakeStep) /\ WF_mimicryVars(EnterPool)
  /\ WF_mimicryVars(\E id \in Ids : CloseClient(id))
  /\ WF_mimicryVars(Tick)
-----------------------------------------------------------------------------
(* Properties *)

MimicryTypeOK ==
  /\ running \in BOOLEAN /\ told \in BOOLEAN /\ managed \in BOOLEAN
  /\ pool \subseteq Connection
  /\ senders \subseteq Ids /\ receivers \subseteq Ids
  /\ making \in Making
  /\ closing \subseteq Ids /\ open \subseteq Ids
  /\ failed \in 0..MaxFailed /\ lost \in 0..MaxLost

\* The two lists Send draws from hold exactly the connections of the pool with
\* that status, so that no packet goes to a connection that has left it
\* (browser_mimicry.cpp:226-229, 272-290).
ListsFollowPool ==
  /\ senders = IdsIn({c \in pool : c.status = "sending"})
  /\ receivers = IdsIn({c \in pool : c.status = "receiving"})

\* The pool stays within its limit, and every client that is open is in it,
\* being created or waiting for its closing coroutine
\* (browser_mimicry.cpp:235-248, 328-330).
PoolOwnsOpen ==
  /\ Cardinality(pool) <= MaxPool
  /\ open \subseteq IdsIn(pool) \cup closing \cup {making.id}

\* While no connection is lost or fails to start, Send has one to use from the
\* first on: the replacements come before the last one leaves.  Only a full
\* pool, which gets no replacement, can run dry with all it holds
\* (browser_mimicry.cpp:300-330).
KeepsSendPool ==
  (running' /\ SendPool # {} /\ failed + lost = 0)
    => (SendPool' # {} \/ Cardinality(pool) = MaxPool)
NoSendGap == [][KeepsSendPool]_mimicryVars

\* Liveness: the pool gets over losses: in the end there is a connection that
\* stands in the list Send draws from (browser_mimicry.cpp:213-350).
Carries == \E c \in pool : c.up /\ c.id \in SendPool
PoolCarries == running ~> (~running \/ Carries)
=============================================================================
