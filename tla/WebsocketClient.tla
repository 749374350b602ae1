--------------------------- MODULE WebsocketClient ---------------------------
(***************************************************************************)
(* One connection to the server                                            *)
(* (https/websocket_client/websocket_client.cpp): RunInternal connects,    *)
(* then a reader and a sender work on the strand and a watchdog looks      *)
(* every 300 ms whether the connection still stands.  Stop may come from   *)
(* any thread and in any phase; the teardown runs on the strand.           *)
(*                                                                         *)
(* The strategy drives the one thread of the io_context, so a turn of a    *)
(* coroutine is one step; Stop of another thread is two, its flags and the *)
(* teardown it posts.  A coroutine that runs holds the client alive; the   *)
(* strategy lets go of it some time after it has stopped it.               *)
(***************************************************************************)
EXTENDS Naturals

CONSTANT MaxQueue    \* kMaxSizeOutQueue_, in packets

QueueAssumption == MaxQueue \in Nat \ {0}

VARIABLES
  flags,      \* running_, was_connected_, was_stopped_, was_inited_
  torn,       \* teardown_done_
  stopper,    \* the thread in Stop: "idle", or "marked" between flags and post
  posted,     \* a teardown waits on the strand
  phase,      \* where RunInternal is
  reader,     \* RunReader
  sender,     \* RunSender
  watchdog,   \* the timer is armed
  queue,      \* packets in write_channel_
  link,       \* the TCP connection
  held,       \* the strategy holds the client
  driven,     \* somebody runs the io_context
  gone        \* destroyed

clientVars == <<flags, torn, stopper, posted, phase, reader, sender, watchdog,
                queue, link, held, driven, gone>>

Phases == {"new", "spawned", "resolve", "tcp", "fake", "tls", "websocket",
           "settle", "address", "up", "failed"}

\* The phases in which the coroutine of RunInternal holds the client.
Connecting == phase \notin {"new", "spawned", "up", "failed"}

IsStarted == flags.running /\ flags.connected
IsStopped == flags.stopped

MarkStopped == [flags EXCEPT !.running = FALSE, !.connected = FALSE, !.stopped = TRUE]

-----------------------------------------------------------------------------
(* DoStop *)

\* Defect: the socket is closed, the sender waits for a packet for ever.
CloseSocketOnly == /\ link' = IF flags.inited THEN "closed" ELSE link
                   /\ UNCHANGED sender

\* The signal and the closed channel wake a waiting sender; nothing of this
\* happens to a client that is not initialised yet.
CancelAndClose ==
  /\ link' = IF flags.inited THEN "closed" ELSE link
  /\ sender' = IF flags.inited /\ sender = "receiving" THEN "ready" ELSE sender

DoStop ==
  IF torn
    THEN UNCHANGED <<torn, watchdog, sender, link>>
    ELSE /\ torn' = TRUE
         /\ watchdog' = FALSE
         /\ CancelAndClose

(* Stop *)

\* From a thread that does not run the io_context.
Stop ==
  /\ ~gone /\ held
  /\ flags.running /\ stopper = "idle"
  /\ flags' = MarkStopped
  /\ stopper' = "marked"
  /\ UNCHANGED <<torn, posted, phase, reader, sender, watchdog, queue, link,
                 held, driven, gone>>

PostTeardown ==
  /\ stopper = "marked"
  /\ stopper' = "idle"
  /\ posted' = TRUE
  /\ UNCHANGED <<flags, torn, phase, reader, sender, watchdog, queue, link,
                 held, driven, gone>>

Teardown ==
  /\ driven /\ posted
  /\ posted' = FALSE
  /\ DoStop
  /\ UNCHANGED <<flags, stopper, phase, reader, queue, held, driven, gone>>

\* From the thread of the io_context: the flags and the teardown in one turn.
StopHere ==
  IF flags.running
    THEN flags' = MarkStopped /\ DoStop
    ELSE UNCHANGED <<flags, torn, watchdog, sender, link>>

-----------------------------------------------------------------------------
(* Run and RunInternal *)

Run ==
  /\ held /\ phase = "new" /\ ~flags.running
  /\ flags' = [flags EXCEPT !.running = TRUE]
  /\ phase' = "spawned"
  /\ UNCHANGED <<torn, stopper, posted, reader, sender, watchdog, queue, link,
                 held, driven, gone>>

After == [resolve |-> {"tcp"}, tcp |-> {"fake", "tls"},
          tls |-> {"websocket"}, websocket |-> {"settle"}, settle |-> {"address"}]

\* The ClientHello is written, the answer of the other side and the change of
\* ciphers are over: the same connection goes on to the real handshake.
PerformFakeHandshake == phase = "fake" /\ phase' = "tls"

\* The next wait of Connect: the name is resolved, the connection stands (the
\* reality modes play a handshake first), the real handshakes are done.  The
\* client counts as connected after the last one, stopped or not.
Advance ==
  /\ driven
  /\ \/ phase = "spawned" /\ phase' = "resolve"
     \/ PerformFakeHandshake
     \/ phase \in DOMAIN After /\ phase' \in After[phase]
  /\ link' = IF phase = "tcp" THEN "open" ELSE link
  /\ link = "down" => phase = "settle"
  /\ flags' = IF phase = "websocket" THEN [flags EXCEPT !.connected = TRUE] ELSE flags
  /\ UNCHANGED <<torn, stopper, posted, reader, sender, watchdog, queue, held,
                 driven, gone>>

\* The addresses the server has assigned were read, before a loss or not.
ReceiveIPAssignment == phase = "address" /\ phase' = "up"

BecomeUp ==
  /\ driven
  /\ ReceiveIPAssignment
  /\ watchdog' = flags.running
  /\ flags' = [flags EXCEPT !.inited = TRUE]
  /\ reader' = "ready" /\ sender' = "ready"
  /\ UNCHANGED <<torn, stopper, posted, queue, link, held, driven, gone>>

\* A wait of Connect fails or runs into its timeout, or the server assigns
\* no address; the 10 ms after the handshakes cannot fail.
ConnectFails ==
  /\ driven /\ Connecting /\ phase # "settle"
  /\ phase' = "failed"
  /\ StopHere
  /\ UNCHANGED <<stopper, posted, reader, queue, held, driven, gone>>

-----------------------------------------------------------------------------
(* RunReader, RunSender and the watchdog *)

LoopGoesOn == IsStarted /\ link # "closed"

ReaderTurn ==
  /\ driven
  /\ \/ /\ reader = "ready" /\ LoopGoesOn
        /\ reader' = "reading" /\ UNCHANGED flags
     \/ /\ reader = "reading" /\ link = "open"     \* a batch of packets
        /\ reader' = "ready" /\ UNCHANGED flags
     \/ /\ \/ reader = "ready" /\ ~LoopGoesOn
           \/ reader = "reading" /\ link # "open"
        /\ reader' = "over" /\ flags' = [flags EXCEPT !.connected = FALSE]
  /\ UNCHANGED <<torn, stopper, posted, phase, sender, watchdog, queue, link,
                 held, driven, gone>>

\* Defect: the sender leaves without a word.
LeaveSilently == sender' = "over" /\ UNCHANGED flags

LeaveLoop == sender' = "over" /\ flags' = [flags EXCEPT !.connected = FALSE]

\* The sender takes all that waits as one batch.
SenderTurn ==
  /\ driven
  /\ \/ /\ sender = "ready" /\ LoopGoesOn
        /\ sender' = IF torn THEN "ready" ELSE "receiving"
        /\ UNCHANGED <<queue, flags>>
     \/ /\ sender = "receiving" /\ queue > 0
        /\ sender' = "writing" /\ queue' = 0 /\ UNCHANGED flags
     \/ /\ sender = "writing" /\ link = "open"
        /\ sender' = "ready" /\ UNCHANGED <<queue, flags>>
     \/ /\ \/ sender = "ready" /\ ~LoopGoesOn
           \/ sender = "writing" /\ link # "open"
        /\ LeaveLoop /\ UNCHANGED queue
  /\ UNCHANGED <<torn, stopper, posted, phase, reader, watchdog, link, held,
                 driven, gone>>

StillStanding == UNCHANGED <<flags, torn, watchdog, sender, link>>

\* Re-armed while the connection stands, not armed again once it is stopped.
WatchdogFires ==
  /\ driven /\ watchdog
  /\ IF flags.running /\ flags.connected
       THEN StillStanding
       ELSE IF flags.running
         THEN watchdog' = FALSE /\ flags' = MarkStopped /\ torn' = TRUE /\ CancelAndClose
         ELSE watchdog' = FALSE /\ UNCHANGED <<flags, torn, sender, link>>
  /\ UNCHANGED <<stopper, posted, phase, reader, queue, held, driven, gone>>

\* Send: refused unless the client is started, and when the channel is full.
Send ==
  /\ held /\ IsStarted
  /\ queue < MaxQueue
  /\ queue' = queue + 1
  /\ UNCHANGED <<flags, torn, stopper, posted, phase, reader, sender, watchdog,
                 link, held, driven, gone>>

-----------------------------------------------------------------------------
(* The network, the strategy and the end *)

\* The peer closes, or does not answer pings any more.
Lose ==
  /\ link = "open"
  /\ link' = "down"
  /\ UNCHANGED <<flags, torn, stopper, posted, phase, reader, sender, watchdog,
                 queue, held, driven, gone>>

\* The strategies let go only of clients they have stopped, or saw stopped.
Release ==
  /\ held /\ IsStopped
  /\ held' = FALSE
  /\ UNCHANGED <<flags, torn, stopper, posted, phase, reader, sender, watchdog,
                 queue, link, driven, gone>>

\* StopEventLoop of the strategy: what is posted is dropped.
StopDriving ==
  /\ driven
  /\ driven' = FALSE
  /\ UNCHANGED <<flags, torn, stopper, posted, phase, reader, sender, watchdog,
                 queue, link, held, gone>>

AtWork ==
  Connecting \/ posted \/ {reader, sender} \cap {"ready", "reading", "receiving", "writing"} # {}

\* The last reference is dropped: the destructor tears down what is left.  An
\* io_context that nobody runs drops its coroutines when it is destroyed.
Destroy ==
  /\ ~gone /\ ~held /\ stopper = "idle"
  /\ driven => ~AtWork
  /\ gone' = TRUE
  /\ torn' = TRUE
  /\ link' = IF link = "none" THEN "none" ELSE "closed"
  /\ flags' = MarkStopped
  /\ posted' = FALSE /\ watchdog' = FALSE
  /\ phase' = IF Connecting THEN "failed" ELSE phase
  /\ reader' = IF reader = "none" THEN "none" ELSE "over"
  /\ sender' = IF sender = "none" THEN "none" ELSE "over"
  /\ UNCHANGED <<stopper, queue, held, driven>>

-----------------------------------------------------------------------------
ClientInit ==
  /\ flags = [running |-> FALSE, connected |-> FALSE, stopped |-> FALSE, inited |-> FALSE]
  /\ torn = FALSE /\ stopper = "idle" /\ posted = FALSE
  /\ phase = "new"
  /\ reader = "none" /\ sender = "none"
  /\ watchdog = FALSE
  /\ queue = 0
  /\ link = "none"
  /\ held = TRUE /\ driven = TRUE /\ gone = FALSE

ConnectStep == Advance \/ BecomeUp \/ ConnectFails

ClientNext ==
  \/ Run \/ Stop \/ PostTeardown \/ Teardown
  \/ ConnectStep \/ ReaderTurn \/ SenderTurn \/ WatchdogFires
  \/ Send \/ Lose \/ Release \/ StopDriving \/ Destroy

ClientSpec == ClientInit /\ [][ClientNext]_clientVars

\* The event loop gives every coroutine and timer its turns.  Nobody has to
\* send, to stop a client, or to let go of it.
ClientFairSpec ==
  /\ ClientSpec
  /\ WF_clientVars(PostTeardown) /\ WF_clientVars(Teardown)
  /\ WF_clientVars(ConnectStep)
  /\ WF_clientVars(ReaderTurn) /\ WF_clientVars(SenderTurn)
  /\ WF_clientVars(WatchdogFires) /\ WF_clientVars(Destroy)
-----------------------------------------------------------------------------
(* Properties *)

ClientTypeOK ==
  /\ flags \in [running : BOOLEAN, connected : BOOLEAN, stopped : BOOLEAN, inited : BOOLEAN]
  /\ torn \in BOOLEAN /\ posted \in BOOLEAN /\ watchdog \in BOOLEAN
  /\ stopper \in {"idle", "marked"}
  /\ phase \in Phases
  /\ reader \in {"none", "ready", "reading", "over"}
  /\ sender \in {"none", "ready", "receiving", "writing", "over"}
  /\ queue \in 0..MaxQueue
  /\ link \in {"none", "open", "down", "closed"}
  /\ held \in BOOLEAN /\ driven \in BOOLEAN /\ gone \in BOOLEAN

\* A client that says it is started, once initialised, has both its
\* coroutines at work: when one ends alone the client is no longer started
\* (websocket_client.cpp:643, 709).
StartedIsServed ==
  IsStarted /\ flags.inited => "over" \notin {reader, sender}

\* Liveness: a client that is let go of is destroyed, whenever its Stop came:
\* before it was initialised, while the sender waited for a packet, or after
\* the event loop ended (websocket_client.cpp:147-156, 161-265).
ReleasedIsFreed == ~held ~> gone

\* Liveness: a connection that is lost is noticed, so that the pool can
\* replace it (websocket_client.cpp:785-809).
LossStops == (flags.inited /\ link = "down") ~> (IsStopped \/ ~driven)
=============================================================================
