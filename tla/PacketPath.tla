----------------------------- MODULE PacketPath -----------------------------
(***************************************************************************)
(* The way of a packet from the tun device to a client: the threads of     *)
(* vpn/manager.cpp (RunToClient), the multiplexer's choice of a connection *)
(* and the write channel and sender of its web session.                    *)
(*                                                                         *)
(* The NAT table is reduced to what the threads look up in it: which       *)
(* multiplexer holds an address and which connections of it receive;       *)
(* module NatTable has it in full.  The bandwidth limit (TrafficShaper)    *)
(* and the filters may drop any packet.                                    *)
(***************************************************************************)
EXTENDS Naturals, Sequences, SequencesExt

CONSTANTS
  Clients,       \* connections, each opened once
  Sessions,      \* multiplexers, each created once
  OldProtocol,   \* the multiplexers that compute checksums
  Addresses,     \* fake addresses
  Threads,       \* read_to_client_threads_
  MaxTake,       \* packets taken at once, 256 in the code
  ChannelSize,   \* batches in a write channel, 32 in the code
  MaxBatchSize,  \* packets in a frame, kMaxBatchSize
  MaxPackets,    \* bound: packets that arrive
  None           \* nullptr

ASSUME PathAssumption ==
  /\ OldProtocol \subseteq Sessions
  /\ {MaxTake, ChannelSize, MaxBatchSize} \subseteq Nat \ {0} /\ MaxPackets \in Nat
  /\ None \notin Sessions /\ None \notin Clients

VARIABLES
  table,       \* ipv4_to_mplx_, ipv6_to_mplx_: who holds an address
  members,     \* the connections of each multiplexer, in either bucket
  receiving,   \* receiving_ of each multiplexer
  home,        \* the multiplexer a connection belongs to, for good
  state,       \* of the web session: running_, and whether DoClose has run
  network,     \* from_network_: packets from the tun device
  thread,      \* where each RunToClient is, its packets and its batches
  channel,     \* write_channel_ of each web session
  sender,      \* where each RunSender is, its packets and pending ones
  owed,        \* history: the packets a channel took that are not yet written
  arrived      \* history: how many packets came

nat  == <<table, members, receiving, home>>
web  == <<channel, sender, owed>>
vars == <<nat, web, state, network, thread, arrived>>

Goto(t, pc) == thread' = [thread EXCEPT ![t].pc = pc]
-----------------------------------------------------------------------------
(* Connections come and go *)

Unused(s) == \A c \in Clients : home[c] # s

\* A connection joins the multiplexer of its session or gets a new one.
Open(c) ==
  /\ state[c] = "new"
  /\ \E s \in Sessions, a \in Addresses :
       /\ table[a] = s \/ (table[a] = None /\ Unused(s))
       /\ table' = [table EXCEPT ![a] = s]
       /\ home' = [home EXCEPT ![c] = s]
       /\ members' = [members EXCEPT ![s] = @ \cup {c}]
       /\ \E R \in {{}, {c}} : receiving' = [receiving EXCEPT ![s] = @ \cup R]
  /\ state' = [state EXCEPT ![c] = "open"]
  /\ UNCHANGED <<web, network, thread, arrived>>

\* The sweep: a send window is over, and the connection receives.
StartReceiving(c) ==
  /\ \E s \in Sessions :
       /\ c \in members[s] \ receiving[s]
       /\ receiving' = [receiving EXCEPT ![s] = @ \cup {c}]
  /\ UNCHANGED <<table, members, home, web, state, network, thread, arrived>>

Drops(c) ==
  /\ members' = [s \in Sessions |-> members[s] \ {c}]
  /\ receiving' = [s \in Sessions |-> receiving[s] \ {c}]

Released(s) == table' = [a \in Addresses |-> IF table[a] = s THEN None ELSE table[a]]

\* The table forgets a connection and, with its last one, a multiplexer.
Forget(c) ==
  /\ Drops(c)
  /\ \/ members'[home[c]] = {} /\ Released(home[c])
     \/ members'[home[c]] # {} /\ UNCHANGED table
  /\ UNCHANGED home

\* The sweep: a ttl is over; the web session is closed later.
Expire(c) ==
  /\ \E s \in Sessions : c \in members[s]
  /\ Drops(c)
  /\ UNCHANGED <<table, home, web, state, network, thread, arrived>>

\* The sweep goes on in a second critical section: what is empty is released.
ReleaseEmptied(s) ==
  /\ members[s] = {} /\ s \in Range(table)
  /\ Released(s)
  /\ UNCHANGED <<members, receiving, home, web, state, network, thread, arrived>>

\* Close(): running_ is false before anything else happens.
Close(c) ==
  /\ state[c] = "open"
  /\ state' = [state EXCEPT ![c] = "closing"]
  /\ UNCHANGED <<nat, web, network, thread, arrived>>

Idle == [pc |-> "none", packets |-> <<>>, pending |-> <<>>]

\* DoClose: the channel and the socket close, which ends the sender, and the
\* table forgets the connection unless the sweep was first.
DoClose(c) ==
  /\ state[c] = "closing"
  /\ state' = [state EXCEPT ![c] = "closed"]
  /\ Forget(c)
  /\ channel' = [channel EXCEPT ![c] = <<>>]
  /\ sender' = [sender EXCEPT ![c] = Idle]
  /\ owed' = [owed EXCEPT ![c] = <<>>]
  /\ UNCHANGED <<network, thread, arrived>>
-----------------------------------------------------------------------------
(* RunToClient: each look-up takes a lock of its own *)

Arrive(a) ==
  /\ arrived < MaxPackets
  /\ arrived' = arrived + 1
  /\ network' = Append(network, [id |-> arrived', dst |-> a])
  /\ UNCHANGED <<nat, web, state, thread>>

WaitForPackets(t) ==
  /\ thread[t].pc = "wait"
  /\ \E n \in 1..Len(network) :
       /\ n <= MaxTake
       /\ thread' = [thread EXCEPT ![t].pc = "lookup", ![t].todo = SubSeq(network, 1, n)]
       /\ network' = SubSeq(network, n + 1, Len(network))
  /\ UNCHANGED <<nat, web, state, arrived>>

Packet(t) == Head(thread[t].todo)

\* continue: on to the next packet, after the last one to the batches.
Advanced(entry) ==
  LET rest == Tail(entry.todo) IN
    [entry EXCEPT !.todo = rest, !.pc = IF rest = <<>> THEN "send" ELSE "lookup",
                  !.mplx = None, !.to = None]

Drop(t) == thread' = [thread EXCEPT ![t] = Advanced(@)]

GetMultiplexerByFakeIP(t) ==
  /\ thread[t].pc = "lookup"
  /\ LET s == table[Packet(t).dst] IN
       IF s = None THEN Drop(t)
       ELSE thread' = [thread EXCEPT ![t].pc = "shape", ![t].mplx = s]
  /\ UNCHANGED <<nat, web, state, network, arrived>>

Shape(t) ==
  /\ thread[t].pc = "shape"
  /\ Drop(t) \/ Goto(t, "choose")
  /\ UNCHANGED <<nat, web, state, network, arrived>>

\* Defect: the connections are those of whoever holds the address by now.
HolderReceivers(t) ==
  LET s == table[Packet(t).dst] IN IF s = None THEN {} ELSE receiving[s]

Receivers(t) == receiving[thread[t].mplx]

\* By the port or the cursor: any connection that receives.
NextReceiverClientId(t) ==
  /\ thread[t].pc = "choose"
  /\ \/ Receivers(t) = {} /\ Drop(t)
     \/ \E c \in Receivers(t) : thread' = [thread EXCEPT ![t].pc = "rewrite", ![t].to = c]
  /\ UNCHANGED <<nat, web, state, network, arrived>>

\* The old protocol needs the connection once more; then the filters.  The
\* packet is marked with the multiplexer that was found for its address.
ChangeIPAddressToClientIP(t) ==
  LET s == thread[t].mplx
      c == thread[t].to
      packet == [id |-> Packet(t).id, via |-> s]
  IN
  /\ thread[t].pc = "rewrite"
  /\ \/ Drop(t)
     \/ /\ s \in OldProtocol => c \in receiving[s]
        /\ LET next == Advanced(thread[t]) IN
             thread' = [thread EXCEPT ![t] = [next EXCEPT !.batches[c] = Append(@, packet)]]
  /\ UNCHANGED <<nat, web, state, network, arrived>>

\* GetSessionById, and SendBatch's look at running_.
FindSession(t) ==
  /\ thread[t].pc = "send"
  /\ \/ \E c \in Clients :
          /\ thread[t].batches[c] # <<>>
          /\ thread' = IF state[c] = "open"
                         THEN [thread EXCEPT ![t].pc = "push", ![t].to = c]
                         ELSE [thread EXCEPT ![t].batches[c] = <<>>]
     \/ /\ \A c \in Clients : thread[t].batches[c] = <<>>
        /\ Goto(t, "wait")
  /\ UNCHANGED <<nat, web, state, network, arrived>>

\* A sender that waits takes the first batch out of the channel.
SenderWaits(c) == sender[c].pc = "receive" /\ sender[c].pending = <<>>

HasRoom(c) ==
  Len(channel[c]) < ChannelSize + (IF SenderWaits(c) THEN 1 ELSE 0)

\* try_send: a channel that is full or closed loses the whole batch.
TrySend(t) ==
  LET c == thread[t].to
      batch == thread[t].batches[c]
  IN
  /\ thread[t].pc = "push"
  /\ IF state[c] # "closed" /\ HasRoom(c)
       THEN /\ channel' = [channel EXCEPT ![c] = Append(@, batch)]
            /\ owed' = [owed EXCEPT ![c] = @ \o batch]
       ELSE UNCHANGED <<channel, owed>>
  /\ thread' = [thread EXCEPT ![t].pc = "send", ![t].to = None, ![t].batches[c] = <<>>]
  /\ UNCHANGED <<nat, sender, state, network, arrived>>

RunToClient(t) ==
  \/ WaitForPackets(t) \/ GetMultiplexerByFakeIP(t) \/ Shape(t) \/ NextReceiverClientId(t)
  \/ ChangeIPAddressToClientIP(t) \/ FindSession(t) \/ TrySend(t)
-----------------------------------------------------------------------------
(* RunSender *)

\* The websocket is accepted and the sender is spawned.
Accepted(c) ==
  /\ sender[c].pc = "none" /\ state[c] = "open"
  /\ sender' = [sender EXCEPT ![c].pc = "receive"]
  /\ UNCHANGED <<nat, channel, owed, state, network, thread, arrived>>

\* Defect: what was left over waits for the next batch.
AwaitBatch(c) == channel[c] # <<>>

HasWork(c) == sender[c].pending # <<>> \/ channel[c] # <<>>

\* What was left over comes first, or else a batch of the channel.
Receive(c) ==
  /\ sender[c].pc = "receive" /\ state[c] = "open" /\ HasWork(c)
  /\ IF sender[c].pending # <<>>
       THEN /\ sender' = [sender EXCEPT ![c] = [pc |-> "merge", packets |-> sender[c].pending,
                                                pending |-> <<>>]]
            /\ UNCHANGED channel
       ELSE /\ sender' = [sender EXCEPT ![c].pc = "merge", ![c].packets = Head(channel[c])]
            /\ channel' = [channel EXCEPT ![c] = Tail(@)]
  /\ UNCHANGED <<nat, owed, state, network, thread, arrived>>

MayMerge(c) == Len(sender[c].packets) < MaxBatchSize /\ channel[c] # <<>>

Merge(c) ==
  /\ sender[c].pc = "merge" /\ MayMerge(c)
  /\ sender' = [sender EXCEPT ![c].packets = @ \o Head(channel[c])]
  /\ channel' = [channel EXCEPT ![c] = Tail(@)]
  /\ UNCHANGED <<nat, owed, state, network, thread, arrived>>

\* Defect: what does not fit into the frame is lost.
CutOff(packets) == <<>>

LeftOver(packets) == SubSeq(packets, MaxBatchSize + 1, Len(packets))

Frame(packets) ==
  IF Len(packets) > MaxBatchSize THEN SubSeq(packets, 1, MaxBatchSize) ELSE packets

Split(c) ==
  LET packets == sender[c].packets IN
  /\ sender[c].pc = "merge" /\ ~MayMerge(c)
  /\ sender' = [sender EXCEPT ![c] = [pc |-> "write", packets |-> Frame(packets),
                                      pending |-> LeftOver(packets)]]
  /\ UNCHANGED <<nat, channel, owed, state, network, thread, arrived>>

\* WriteFrame is done; on a closed socket it fails.
WriteFrame(c) ==
  LET frame == sender[c].packets IN
  /\ sender[c].pc = "write"
  /\ owed' = [owed EXCEPT ![c] = SubSeq(@, Len(frame) + 1, Len(@))]
  /\ sender' = [sender EXCEPT ![c].pc = "receive", ![c].packets = <<>>]
  /\ UNCHANGED <<nat, channel, state, network, thread, arrived>>

RunSender(c) == Accepted(c) \/ Receive(c) \/ Merge(c) \/ Split(c) \/ WriteFrame(c)
-----------------------------------------------------------------------------
PathInit ==
  /\ table = [a \in Addresses |-> None]
  /\ members = [s \in Sessions |-> {}]
  /\ receiving = [s \in Sessions |-> {}]
  /\ home = [c \in Clients |-> None]
  /\ state = [c \in Clients |-> "new"]
  /\ network = <<>>
  /\ thread = [t \in Threads |-> [pc |-> "wait", todo |-> <<>>, mplx |-> None, to |-> None,
                                  batches |-> [c \in Clients |-> <<>>]]]
  /\ channel = [c \in Clients |-> <<>>]
  /\ sender = [c \in Clients |-> Idle]
  /\ owed = [c \in Clients |-> <<>>]
  /\ arrived = 0

PathNext ==
  \/ \E c \in Clients : Open(c) \/ Close(c) \/ DoClose(c) \/ RunSender(c)
  \/ \E c \in Clients : StartReceiving(c) \/ Expire(c)
  \/ \E s \in Sessions : ReleaseEmptied(s)
  \/ \E a \in Addresses : Arrive(a)
  \/ \E t \in Threads : RunToClient(t)

PathSpec == PathInit /\ [][PathNext]_vars

\* Senders run on the io threads; a write ends, or the connection is closed.
FairPathSpec == PathSpec /\ \A c \in Clients : WF_vars(RunSender(c))
-----------------------------------------------------------------------------
(* Properties *)

Packets == [id : 1..MaxPackets, dst : Addresses]
Marked  == [id : 1..MaxPackets, via : Sessions]
Batches == Seq(Marked)

\* A round of RunToClient, and of RunSender.
Rounds  == [pc : {"wait", "lookup", "shape", "choose", "rewrite", "send", "push"},
            todo : Seq(Packets), mplx : Sessions \cup {None}, to : Clients \cup {None},
            batches : [Clients -> Batches]]
Writers == [pc : {"none", "receive", "merge", "write"},
            packets : Batches, pending : Batches]

PathTypeOK ==
  /\ table \in [Addresses -> Sessions \cup {None}]
  /\ members \in [Sessions -> SUBSET Clients] /\ receiving \in [Sessions -> SUBSET Clients]
  /\ home \in [Clients -> Sessions \cup {None}]
  /\ state \in [Clients -> {"new", "open", "closing", "closed"}]
  /\ network \in Seq(Packets)
  /\ thread \in [Threads -> Rounds]
  /\ channel \in [Clients -> Seq(Batches)]
  /\ sender \in [Clients -> Writers]
  /\ owed \in [Clients -> Batches]
  /\ arrived \in 0..MaxPackets

InFlight(c) == sender[c].packets \o sender[c].pending \o FlattenSeq(channel[c])

OfSession(batch, s) == \A p \in Range(batch) : p.via = s

\* Between the look-up of a multiplexer and the write to a connection the
\* multiplexer may lose the address to another one; its packets still go to
\* its own connections only (vpn/manager.cpp:90-128).
PacketsStayInSession ==
  PathTypeOK /\ \A c \in Clients :
    /\ OfSession(owed[c], home[c])
    /\ \A t \in Threads : OfSession(thread[t].batches[c], home[c])

\* Whatever a channel takes is written in its order, whole, and once, until the
\* connection closes: batches are merged into frames and cut, and what is left
\* over comes first (session.cpp:1010-1049).
WrittenInOrder == \A c \in Clients : owed[c] = InFlight(c)

\* Liveness: a packet that a channel took does not stay behind for want of
\* another one, unless its connection is closed (session.cpp:1018-1048).
TakenIsWritten ==
  \A c \in Clients :
    (state[c] = "open" /\ InFlight(c) # <<>>) ~> (state[c] # "open" \/ InFlight(c) = <<>>)
=============================================================================
