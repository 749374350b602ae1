--------------------------- MODULE RollingTunnel ---------------------------
(***************************************************************************)
(* The rolling tunnel (strategies/rolling_tunnel/rolling_tunnel.h): a pool *)
(* of Count connections of one session, each with a deadline; a manager    *)
(* coroutine that drops the dead ones and repairs the pool, one connection *)
(* at a time; and Stop, from another thread.                               *)
(*                                                                         *)
(* Time passes in ticks.  ManageCoroutine runs at least once per tick, and *)
(* a turn of a coroutine is one step, except the last turn of a repair:    *)
(* Stop may come between its look at running_ and its change of the pool.  *)
(* The places in the vector matter to Send only, which picks one by the    *)
(* port and changes no state of the pool: the pool is a set.  So is what   *)
(* NextLifetimeSeconds works on, as duplicates do not matter to it.        *)
(***************************************************************************)
EXTENDS Integers, FiniteSets, FiniteSetsExt

CONSTANTS
  Count,        \* ConnectionCount
  Lifetime,     \* LifetimeSeconds, in ticks
  Stagger,      \* StaggerSeconds
  Lead,         \* kReplacementLeadSeconds
  ConnectMax,   \* how long a connection may take to start
  Ids,          \* connection ids, reused once nothing refers to them
  MaxFailed,    \* bound: how many connections fail to start
  MaxLost       \* bound: how many started connections are lost

TunnelAssumption ==
  /\ Count \in Nat \ {0} /\ Lifetime \in Nat \ {0}
  /\ Stagger \in Nat /\ Lead \in Nat /\ ConnectMax \in Nat
  /\ Ids \subseteq Nat \ {0} /\ IsFiniteSet(Ids) /\ Cardinality(Ids) > 2 * Count
  /\ MaxFailed \in Nat /\ MaxLost \in Nat

\* How the durations of the three tunnels fit together: a slot is longer than
\* the lead and the start of a connection, and the slots but the last have
\* room for the lead and for Count - 1 gaps of twice that.
DurationsFit ==
  /\ Lead + ConnectMax < Lifetime \div Count
  /\ Count > 1 =>
       Lead + (Count - 1) * (2 * (Lead + ConnectMax) + 1) <= Lifetime - (Lifetime \div Count)

\* A repair that fails takes the start of a connection and the stagger, or the
\* manager's next turn if there is none.
Retry == ConnectMax + IF Stagger > 0 THEN Stagger ELSE 1

\* The lead has room for MaxFailed of them before the one that succeeds.  Where
\* there are other connections, one of them may be under repair when the lead
\* begins; where there are none, the stagger is over by then.
LeadFits ==
  /\ ConnectMax + MaxFailed * Retry < Lead
  /\ Count > 1 => ConnectMax + (MaxFailed + 1) * Retry <= Lead
  /\ Count = 1 => Stagger + ConnectMax + Lead <= Lifetime

VARIABLES
  running,    \* running_
  pool,       \* connections_: id, ticks to close_at, and whether it is started
  repair,     \* the repair in flight
  since,      \* ticks since last_spawn_time_, up to Stagger
  closing,    \* clients whose closing coroutine has not run
  open,       \* clients whose connection has not been stopped
  managed,    \* ManageCoroutine has run in this tick
  failed, lost

vars == <<running, pool, repair, since, closing, open, managed, failed, lost>>

Channel == [id : Ids, left : 0..Lifetime, up : BOOLEAN]
Repair  == [stage : {"none", "connecting", "ready"}, id : Ids \cup {0}, left : 0..Lifetime,
            age : 0..ConnectMax, replaced : Ids \cup {0}]
NoRepair == [stage |-> "none", id |-> 0, left |-> 0, age |-> 0, replaced |-> 0]

IdsOf(P) == {ch.id : ch \in P}
Started  == {ch \in pool : ch.up}
Healthy  == {ch \in Started : ch.left > Lead}
InFlight == repair.stage # "none"

Used == IdsOf(pool) \cup open \cup closing \cup {repair.id, repair.replaced}

-----------------------------------------------------------------------------
(* NextLifetimeSeconds *)

Slot == Lifetime \div Count

\* The first deadline after t, and how far it is.
Gap(S, t) == Min({x \in S : x > t}) - t
Gaps(S)   == {t \in S \cup {0} : t < Max(S)}

Widest(S)      == Max({Gap(S, t) : t \in Gaps(S)})
WidestStart(S) == Min({t \in Gaps(S) : Gap(S, t) = Widest(S)})

\* The middle of the widest gap, the earliest one of several.
MiddleOfWidest(S) == WidestStart(S) + Widest(S) \div 2

\* Defect: past the last slot the first gap is halved, wide or not.
HalveFirst(S) ==
  IF Max(S) + Slot <= Lifetime THEN Max(S) + Slot ELSE Min(S) \div 2

\* One slot after the last deadline if that fits.
Fitted(S) == IF Max(S) + Slot <= Lifetime THEN Max(S) + Slot ELSE MiddleOfWidest(S)

NextLifetime(S) == IF S = {} \/ Count = 1 THEN Slot ELSE Fitted(S)

-----------------------------------------------------------------------------
(* ManageCoroutine *)

IsDead(ch) == ~ch.up \/ ch.left <= 0

\* The one nearest its deadline among those that no longer count as healthy.
ToReplace(P) ==
  LET due == {ch \in P : ch.up /\ ch.left <= Lead}
  IN  IF due = {} THEN 0
        ELSE (CHOOSE ch \in due : \A other \in due : ch.left <= other.left).id

\* Defect: a connection counts until it dies, however near its deadline.
NeedsRepairLate(P) ==
  ~InFlight /\ Cardinality({ch \in P : ch.up}) < Count /\ since >= Stagger

NeedsRepair(P) ==
  /\ ~InFlight
  /\ Cardinality({ch \in P : ch.up /\ ch.left > Lead}) < Count
  /\ since >= Stagger

\* RemoveClosedConnections, StartRepairIfNeeded, and the stop when the pool is
\* empty and no repair is in flight.
Manage ==
  LET alive == {ch \in pool : ~IsDead(ch)}
      lefts == {ch.left : ch \in alive} \cap 1..Lifetime
  IN  /\ running /\ ~managed
      /\ pool' = alive
      /\ closing' = closing \cup IdsOf(pool \ alive)
      /\ IF NeedsRepair(alive)
           THEN /\ repair' = [stage |-> "connecting", id |-> Min(Ids \ Used),
                              left |-> NextLifetime(lefts), age |-> 0,
                              replaced |-> ToReplace(alive)]
                /\ open' = open \cup {repair'.id}
           ELSE UNCHANGED <<repair, open>>
      /\ running' = (alive # {} \/ repair'.stage # "none")
      /\ managed' = TRUE
      /\ UNCHANGED <<since, failed, lost>>

(* RepairConnection *)

\* Defect: repair_in_flight_ stays set.
FlagStaysSet == repair' = [repair EXCEPT !.stage = "over"] /\ since' = 0

RepairIdle == repair' = NoRepair /\ since' = 0

\* The client is started: the check of running_.
RepairChecks ==
  /\ repair.stage = "connecting" /\ running
  /\ repair' = [repair EXCEPT !.stage = "ready"]
  /\ UNCHANGED <<running, pool, since, closing, open, managed, failed, lost>>

\* Defect: the connection that was replaced is forgotten.
RetireSilently == {}

\* The connection it replaces, if that is still there.
Retired == IdsOf(pool) \cap {repair.replaced}

RepairPlaces ==
  /\ repair.stage = "ready"
  /\ pool' = {ch \in pool : ch.id # repair.replaced}
               \cup {[id |-> repair.id, left |-> repair.left, up |-> TRUE]}
  /\ closing' = closing \cup Retired
  /\ RepairIdle
  /\ UNCHANGED <<running, open, managed, failed, lost>>

\* The client stopped, or did not start in time: it is stopped.
RepairFails ==
  /\ repair.stage = "connecting" /\ running
  /\ failed < MaxFailed
  /\ failed' = failed + 1
  /\ open' = open \ {repair.id}
  /\ RepairIdle
  /\ UNCHANGED <<running, pool, closing, managed, lost>>

(* Closing coroutines, losses and time *)

CloseClient(id) ==
  /\ running /\ id \in closing
  /\ closing' = closing \ {id}
  /\ open' = open \ {id}
  /\ UNCHANGED <<running, pool, repair, since, managed, failed, lost>>

Lose(ch) ==
  /\ running /\ ch.up
  /\ lost < MaxLost
  /\ lost' = lost + 1
  /\ pool' = (pool \ {ch}) \cup {[ch EXCEPT !.up = FALSE]}
  /\ UNCHANGED <<running, repair, since, closing, open, managed, failed>>

\* Ready clients are noticed, and closing coroutines run, well within a tick.
Tick ==
  /\ running /\ managed
  /\ closing = {} /\ repair.stage # "ready"
  /\ InFlight => repair.age < ConnectMax
  /\ pool' = {[ch EXCEPT !.left = @ - 1] : ch \in pool}
  /\ repair' = IF InFlight THEN [repair EXCEPT !.left = @ - 1, !.age = @ + 1] ELSE repair
  /\ since' = IF since < Stagger THEN since + 1 ELSE since
  /\ managed' = FALSE
  /\ UNCHANGED <<running, closing, open, failed, lost>>

\* Stop stops the clients of the pool and clears it; the io_context runs
\* nothing after the turn it is in.  The destructor stops again.
Stop ==
  /\ running' = FALSE
  /\ open' = open \ IdsOf(pool)
  /\ pool' = {}
  /\ UNCHANGED <<repair, since, closing, managed, failed, lost>>
-----------------------------------------------------------------------------
Init ==
  /\ running = TRUE
  /\ pool = {}
  /\ repair = NoRepair
  /\ since = Stagger      \* last_spawn_time_ is the epoch
  /\ closing = {} /\ open = {}
  /\ managed = FALSE
  /\ failed = 0 /\ lost = 0

Next ==
  \/ Manage
  \/ RepairChecks \/ RepairPlaces \/ RepairFails
  \/ \E id \in Ids : CloseClient(id)
  \/ \E ch \in pool : Lose(ch)
  \/ Tick \/ Stop

Spec == Init /\ [][Next]_vars

\* The event loop keeps running its coroutines, and time passes.
FairSpec ==
  /\ Spec
  /\ WF_vars(Manage) /\ WF_vars(RepairPlaces) /\ WF_vars(Tick)
  /\ WF_vars(RepairChecks \/ RepairFails)
  /\ WF_vars(\E id \in Ids : CloseClient(id))
-----------------------------------------------------------------------------
(* Properties *)

\* The pool never holds more than Count connections, with distinct ids.
TypeOK ==
  /\ running \in BOOLEAN /\ managed \in BOOLEAN
  /\ pool \subseteq Channel
  /\ Cardinality(pool) <= Count /\ \A ch, other \in pool : ch.id = other.id => ch = other
  /\ repair \in Repair /\ since \in 0..Stagger
  /\ closing \subseteq Ids /\ open \subseteq Ids
  /\ failed \in 0..MaxFailed /\ lost \in 0..MaxLost

\* No connection is given so short a life that it is due for replacement as
\* soon as it is in the pool, whatever gap it is put in and however long it
\* took to start (rolling_tunnel.h:376-390).
LivesLongEnough == repair.stage = "ready" => repair.left > Lead

\* Connections close one at a time: no two of the pool share a deadline
\* (rolling_tunnel.h:345-346).
ClosesOneAtATime ==
  \A ch, other \in pool : ch # other => ch.left # other.left

\* Every connection that is still open is in the pool, being repaired, or
\* waiting for its closing coroutine: none is leaked by a replacement, a
\* loss, or a Stop that comes in the middle of one (rolling_tunnel.h:301-335).
OpenAreOwned == open \subseteq IdsOf(pool) \cup closing \cup {repair.id}

\* Deadlines never cut the traffic: while the tunnel runs, the pool loses its
\* last connection only if every connection in it has failed, even when
\* MaxFailed replacements in a row do not start (rolling_tunnel.h:149-154).
KeepsOne == (running' /\ Started # {}) => pool' # {}
NoGap == [][KeepsOne]_vars

\* Liveness: a tunnel that is not stopped fills up with healthy connections
\* again after losses and failed starts (rolling_tunnel.h:244-295, 340-341).
PoolFills == running ~> (~running \/ Cardinality(Healthy) = Count)
=============================================================================
