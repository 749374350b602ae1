# FTPN in TLA+

Models, model checks and machine-checked proofs of the FTPN VPN: the C++ server
and clients under `src/fptn/`, and the Python administration programs beside
them. TLC checks the models on small instances, TLAPS proves the central
theorems for every value of the constants. Every definition that stands for code
is listed with its file and lines in `PROJECT.json` under `map`; paths below that
start with `fptn-` or `common` are under `src/fptn/src/`.

## 1. The system

A client reads IP packets from a TUN device and sends them through one or
several TLS websocket connections to a server, which translates the addresses and
writes them to its own TUN device. A *session* of a user is a logical thing: it
owns one fake IPv4 and one fake IPv6 address, and may be carried by several
physical connections that come and go (the pool strategies).

| Component | State | Operations | Talks to |
| --- | --- | --- | --- |
| NAT table: `fptn-server/nat/table.cpp`, `nat/connection_multiplexer/`, `nat/client_connection/` | sessions, clients and addresses to multiplexers; free address lists; two buckets per multiplexer | `AddConnection`, `DelConnectionByClientId`, `UpdateConnectionsStatus`, lookups | called by the web server's sessions and by the VPN manager's threads |
| Server sessions: `fptn-server/web/server.cpp`, `web/session/session.cpp`, `web/listener/listener.cpp` | `sessions_`, `running_`, a mutex; per session a strand, a write channel and three flags | accept, handshakes, open, stream, close, `Stop` | the NAT table, the VPN manager's queues |
| Server VPN manager: `fptn-server/vpn/manager.cpp` | `running_`, its threads | packet pumps, expiry once a second, `Stop` | table, server, TUN, filters |
| Way to a client: `fptn-server/vpn/manager.cpp` (`RunToClient`), `nat/connection_multiplexer/`, `web/session/session.cpp` (`SendBatch`, `RunSender`) | packets from the TUN device, a thread's round, a write channel and a sender per session | look up, shape, choose, rewrite, send, merge, cut, write | table, server, TUN |
| Handshake cache: `fptn-server/web/handshake/` | the answers of decoy sites with their age, a mutex | `GetHandshake` | server sessions, other sites |
| Connection manager: `fptn-protocol-lib/connection/connection_manager/`, `connection/strategies/base_strategy_connection.cpp` | `running_`, the strategy object, the attempts in the current window | `Start`, `Stop`, the worker `Run` | a strategy, which owns websocket clients |
| VPN manager: `fptn-client/vpn/vpn_manager.cpp` | flags, `mutex_`, `supervise_mutex_`, supervisor, packet queue | `Start`, `Stop`, `Supervise`, packets both ways | HTTP client (connection manager), TUN, route manager |
| Client route manager: `fptn-client/routing/route_manager.cpp` | `running_`, noted routes, queue, two locks; the system's default route, rules, link servers, `resolv.conf` and its backup | `Apply`, `Clean`, `Enqueue`, workers, destructor, `HealStaleResolvConf` | called by the supervisor and the application; system commands |
| Rolling tunnel: `connection/strategies/rolling_tunnel/` | a pool with deadlines, one repair in flight | `ManageCoroutine`, `RepairConnection`, `Stop` | websocket clients |
| Browser mimicry: `connection/strategies/browser_mimicry/` | a pool, two lists by role, lives and send times | `ManagePoolCoroutine`, `CreateConnection`, `Stop` | websocket clients |
| Websocket client: `fptn-protocol-lib/https/websocket_client/` | a strand, four flags, a channel, a watchdog | `Run`, `Stop`, `Send`, reader, sender, destructor | the server |
| API client: `fptn-protocol-lib/https/api_client/` | per request a thread, a mutex and a condition variable | `Get`, `Post`, `TestHandshake` | the server |
| Server search: `fptn-client/utils/speed_estimator/` | per search its threads, mutex and result | `FindServerByLogin`, `FindFastestServer` | API client |
| Tray: `fptn-client/gui/tray/` | connection state, `vpn_client_`, the attempt, its token, a timer | connect, cancel, disconnect, `startVpn`, `handleTimer`, quit | search, VPN manager, settings |
| Settings: `fptn-client/gui/settingsmodel/`, `gui/settingswidget/` | services, values, an encrypted file, pings; the page's table | `Load`, `Save`, add, remove, close, ping rounds | tray, API client |
| SNI scan: `fptn-client/gui/sni_autoscan_dialog/` | a context shared with detached workers | start, cancel, progress timer | API client, settings |
| Command line client: `fptn-client/fptn-client-cli.cpp` | none beyond its objects | prepare, run, clean, stop | search, VPN manager, route manager |
| Users file: `fptn-admin/backend/app/stores/vpn_user_store.py`, `fptn-admin-bot/src/bot/managers/`, `fptn-passwd/`, `common/user/common_user_manager.h` | a file, a lock file, backups; the server's copy with its time stamp | create, change, rename, delete, back up, restore, sign in | four programs share one file |
| Telegram bot: `fptn-admin-bot/src/bot.py` | per chat a menu, a selected user, an open question | cards, commands, typed answers | users file |

`PROJECT.json` lists the other parts too (wire formats, shaper, filters, plugins,
front end, deployment), each with why it is not modelled.

### What is hard here

* **Shared state between threads.** The server's io threads, the expiry thread
  and the thread in `Stop` meet in the table and in `sessions_`; each of them
  drops a lock in the middle of what it does.
* **Objects dropped under their users.** `Stop` of the connection manager uses
  `strategy_connection_` without the mutex while the worker may drop it; a
  websocket client may be stopped before it is initialised.
* **Joins.** Every `Stop`, search and request joins threads that take the same
  mutexes.
* **Clocks.** Send windows, times to live, pool deadlines, staggering, backoff,
  time stamps of files. Two reads of a clock in one call may fall on two sides of an
  instant.
* **Failure half way.** A table that refuses, a device that does not open, a route
  command that fails, a connection that never starts, a save that truncates its
  file and cannot write it, a process that dies with the routes applied.
* **The user.** Cancel and connect again, quit under a modal box, start a scan while
  the last one's workers still run, open another card under an unanswered question.
* **Files without one owner.** The backend locks the users file; the bot and
  `fptn-passwd` do not, and the server looks at its time stamp.

### What makes each component correct

* Table: each address is free or leased to exactly one session; every
  connection it knows can be reached and removed; sessions of different users
  never mix; nothing is leaked when a session empties during an update.
* Server: no table entry outlives its session, no session outlives `Stop`, an
  expired connection's session is closed, `Stop` returns.
* Way to a client: a packet goes to connections of the session its address belonged
  to when it was looked up; what a write channel took is written in order, whole and
  once.
* Handshake cache: no answer is repeated after its time, and another site's answer is
  given only after a failure.
* Connection manager: the strategy object lives as long as somebody uses it; a
  manager that says it is started has a worker; `Start` and `Stop` return.
* VPN manager: a lost connection is noticed and restarted; routes are in place
  exactly while they are needed; nothing is used after it is reset.
* Route manager: a noted route is in the system, none survives a `Clean`, and
  the user's own settings come back.
* Pools: deadlines stay apart, no gap between a connection's death and
  its successor, no open connection forgotten, the pool fills again.
* Websocket client: one that says it is started has both its coroutines, a loss is
  noticed, and what is let go of is freed.
* Tray: one tunnel at most, and never one that nobody can stop; the token goes to the
  server that issued it; an attempt ends; a dead tunnel is reported.
* Settings and scan: the page shows the model, what it shows is saved, a verdict is
  sound and comes.
* Users: a login sees the file, an issued password works, no update is lost.

## 2. Modules

| Module | Models | Built on |
| --- | --- | --- |
| `AddressLease` | abstract specification: what the table promises | |
| `NatTable` | the NAT table | instantiates `AddressLease` |
| `ServerSessions` | web server, sessions, expiry thread, shutdown | extends (composes with) `NatTable` |
| `ServerSessionsProofs` | theorems about `NatTable`, its refinement of `AddressLease`, and about `ServerSessions` | |
| `PacketPath` | the way of a packet to a client, write channels, senders | |
| `HandshakeCache` | the answers of decoy sites | |
| `WebTraffic` | a packet's way, or the handshakes | extends `PacketPath` and `HandshakeCache` |
| `WebTrafficProofs` | theorems about `PacketPath`, `HandshakeCache` and `WebTraffic` | |
| `ConnectionManager` | connection manager with the event loop of a strategy | |
| `VpnManager` | VPN manager, supervisor, packet paths, the command line client | extends (composes with) `ConnectionManager` |
| `VpnManagerProofs` | theorems about both managers | |
| `RouteManager` | client route manager and the system it changes | |
| `RouteManagerProofs` | theorems about `RouteManager` | |
| `RollingTunnel` | the strategies with one, two and three tunnels | |
| `BrowserMimicry` | the strategy that mimics a browser | |
| `WebsocketClient` | one connection | |
| `Transport` | whichever strategy is configured, or one connection | instances of the three before |
| `TransportProofs` | theorems about `Transport` and the three modules it instantiates | |
| `ApiClient` | a request with its thread | |
| `LoginSearch` | the race for a server | |
| `TrayApp` | the tray | extends (composes with) `LoginSearch` |
| `TrayAppProofs` | theorems about `TrayApp` | |
| `ClientSettings` | settings model, its file, the page | |
| `SniAutoscan` | the scan | instance of `ApiClient` |
| `SettingsWindow` | the page, or the scan in front of it | extends `ClientSettings` and `SniAutoscan` |
| `SettingsProofs` | theorems about `SettingsWindow` | |
| `UserStore` | the users file and the four programs | |
| `AdminBot` | the bot's dialogue | extends (composes with) `UserStore` |
| `AdminBotProofs` | theorems about `UserStore` and `AdminBot` | |
| `MCNatTable`, `MCServerSessions`, `MCRouteManager`, `MCAdminBot` | model values and symmetry for TLC | |

A definition whose comment starts with *Defect:* is a plausible mistake in the
operator after it. The specification never uses it; it is there to show that the
property it is paired with in `PROJECT.json` (`mutants`) can tell the difference.

### NatTable

One variable per map of the `Table` class, one function per field of the
multiplexer objects. A multiplexer is named by the client id whose
`AddConnection` created it, so an old object and a new one of the same session
are different things, as the pointers in the code are; that is what the pointer
comparison of `ReleaseSessionIfEmpty` (table.cpp:116) is about. Each free list
counts its copies of an address, so that a double release shows.

Every public method holds the table's mutex throughout and is one action.
`UpdateConnectionsStatus` is four: the part under the shared lock
(`CollectExpired`), the erasing of the expired ids, one release per emptied
multiplexer, and the return. Between the first and the second any other
operation may come in. The clock is two growing sets (`sendPast`, `ttlPast`) that
move at any time, and also between the two reads of `PlaceByRole`.

### ServerSessions

`phase` says where the coroutine of a session is. The strand of a session makes
one coroutine turn indivisible for that session only; a turn of
`HandleWsOpenConnection` is therefore cut wherever it touches state others
touch: the unlocked checks (server.cpp:259-277), taking the mutex and looking
again (288), `AddConnection`, inserting into `sessions_` (297). `Close()` posts
`DoClose` to the strand, or runs it at once when it is there already. `stop` is
how far `vpn::Manager::Stop` has come. At most `Threads` turns run at a time.
Before the upgrade `phase` goes through what `Session::Run` awaits: the probe of the
first bytes, the whole TLS hello, the answer about its name, the fake handshake, a
proxied connection with its second try, TLS. Which way it goes depends on the peer
and the settings, and is left open; what matters is that every way ends in
`HandleHttp`, in `OpenCheck`, or in a close without registration.

### PacketPath, HandshakeCache and WebTraffic

`RunToClient` looks things up one after the other, each under a lock of its own: the
multiplexer of the packet's address, the shaper, a connection that receives, for the old
protocol that connection again, then the session and its channel. Each look-up is a step,
and connections join, expire and close in between. The table is reduced to what the
threads see of it (`table`, `members`, `receiving`); `NatTable` has it in full. A packet
carries the multiplexer that was found for its address (`via`), which is a history
variable: it lets `PacketsStayInSession` say where the packet belongs. `try_send` loses a
batch when the channel is full or closed, and may find room for one more when the sender
waits. The sender merges batches up to a frame and cuts what is too long;
`owed` is the history of what a channel took and nobody has written.

In `HandshakeCache` a call of `GetHandshake` is a coroutine; each of its steps is what
it does between two suspensions. An answer is the site it came from and when it was
fetched. `WebTraffic` is a sum: the two do not share state, and a behaviour moves
one of them (`half`).

### ConnectionManager and VpnManager

`worker` is the program counter of `Run`; `call` that of whoever is in `Start` or
`Stop`. There is at most one such caller, because the supervisor holds the VPN
manager's `mutex_` around both and the application calls `Stop` only after the
supervisor is joined. Of the strategy the model keeps its `running_`, whether its
`io_context` has been stopped, and whether a client of its pool is up: that is
what decides if `RunEventLoop` returns. `VpnManager` adds the application
(`app`: command line client or tray), the supervisor, the two packet paths and
`mutex_` (`holder`). The route manager is there reduced to `running_`, since
`Apply` and `Clean` do nothing the second time; its inside is `RouteManager`. The
command line client begins with its preparation: options and gateway, the token, the
server, its address, the login, the DNS servers; each of these may end the program,
and the http client exists (`present`) from the fourth on. What the tray does instead
is `TrayApp`.

### RouteManager

A worker takes the queue's lock to get an address, `mutex_` to look at
`running_`, nothing while it finds the gateway, `mutex_` again to note the route,
and nothing while it runs the system command. `Apply` and `Clean` hold `mutex_` over
their commands. `system` is what the commands change in a Linux system: the IPv4 default
route, the IPv6 routes, the sysctls, the firewall rules (a number, since `Apply` appends and
`Clean` deletes one copy), the link's name servers and those saved to be given back,
`resolv.conf` as the set of servers it lists, and its backup.

The two families are apart, because the code treats them apart. `Apply` replaces the IPv4
default route; it adds the IPv6 routes over the TUN device, to the VPN's name server
(`"server"`) and a default (`"tun"`), beside what is there, and whatever gateway it detected
(route_manager.cpp:417). `Clean` undoes the IPv6 half only with a detected gateway (877), and
`GetDefaultGatewayIPv6Address` takes the first default route listed, which may be the VPN's
own left-over (`gateway6 = "vpn"`): `Clean` then may put a route over the physical interface
in its place (`"stray"`). `ipv6` says whether the network has a gateway; `device` is the TUN
device, whose routes the kernel drops when the VPN manager closes it. Nothing sets the
sysctls back. A crash (`CrashAndRestart`) loses the object and
keeps the system; the next start heals `resolv.conf` from the backup. `raced`,
`missed` and `refused` are history variables, only used to state properties: the
addresses a worker had in its hands when a `Clean` collected, workers that went to
sleep after the destructor had notified, and noted addresses whose command failed,
which the code reports as a success (route_manager.cpp:181).

### Transport: RollingTunnel, BrowserMimicry, WebsocketClient

The manager creates the strategy of the configuration once
(connection_manager.cpp:276-297), so `Transport` is a sum: `kind` is chosen at the
start, and the variables of the others stay as they are. A pool sees two bits of each of its
connections, started and stopped; how a connection comes by them is `WebsocketClient`,
run as a kind of its own.

`Tunnel(t)` is the instance of `RollingTunnel` with the template arguments of the tunnel
`t` (rolling_tunnel.h:432-434). A pool is a set of connections: the places in the vector
matter only to `Send`, which picks one and changes nothing. Times of the tunnels are ticks
of five seconds, which divides every duration of theirs.
A turn of a coroutine is one step, except that `Stop`, on another thread,
may come between a repair's look at `running_` and its change of the pool (for the
mimicry: between the creation of a connection and its entry). `NextLifetime` is the
slot algorithm of `NextLifetimeSeconds`, on the set of remaining lifetimes.

That the algorithm works at all rests on how the durations fit together. The code writes
them as constants; the modules state what is needed of them, and the code's values satisfy
it (a life of 600 s, a lead of 60 s, ten seconds at most to start a connection; a stagger of
30 s for one tunnel and of 15 s for two and three; for the mimicry lives of 8 s or more, a
lead of 3 s, 5 s at most to start):

| Assumption | Says | With the code's values |
| --- | --- | --- |
| `DurationsFit` | a slot is longer than lead and start; the slots but the last have room for the lead and `Count - 1` gaps of more than twice lead and start | slots of 600, 300 and 200 s against 70 s; three tunnels: 60 + 2 (2 * 70 + 5) = 350 of 400 s; two: 205 of 300 s |
| `LeadFits` | within the lead `MaxFailed` repairs can fail before one succeeds | `MaxFailed = 1`; one tunnel: 10 + 40 < 60 s; two and three: 10 + 2 * 25 = 60 s |
| `LivesFit` | a mimicry connection outlives the start of its successor and the next turn of the manager | 8 s against 5 s and a turn |

`LeadFits` is also a limit of the code: when two starts in a row take their full time and
fail, a single tunnel has a gap. Only `NoGap` needs it and `LivesFit` (`TimesAssumption`).

Of a websocket client every await of `Connect` and `ReceiveIPAssignment` is a
phase. `Stop` of another thread is two steps, its flags and the teardown it posts
to the strand. `driven` tells whether anybody runs the `io_context`: a strategy that
stops drops what is posted. `held` is the strategy's reference; a coroutine at work
is one more.

### ApiClient, LoginSearch, SniAutoscan

`ApiClient` is `ExecuteWithTimeout`: the caller's wait, the steps of the request on
its own thread, the answer stored under the mutex, the join. A wait may end before the
request does, since every step has a timeout of its own and they add up. `LoginSearch`
asks half of the servers, one thread each. It abstracts a request to its result, with
one exception: a server in `Slow` may answer late, and a request to it then never returns,
as `ApiClient` has it. `SniAutoscan` has the workers, each a caller of `ApiClient`,
the context they share, and the progress timer with its two reads apart.

### TrayApp

A slot of the GUI thread with all the signals it emits is one step, up to a modal
box, whose event loop lets the menu and the timer go on (`boxes` is the stack of
them). `start` is the worker thread in `startVpn`, cut at each look at
`cancel_connecting_` and at each change of a member. `VpnManager` objects have names,
because the worker and `vpn_client_` may hold different ones; of their inside the model
keeps what `IsStarted` and `IsReconnecting` tell.

### ClientSettings and SettingsWindow

The dialog, the tray and the timers share one thread; pings run on a pool. A service
is its name and the version of its token, all the other settings are one value. `Save`
succeeds, fails before it truncates the file, or fails after; one that fails as `close()`
flushes the buffer returns true all the same (settingsmodel.cpp:584). The page is closed by
its button or the window's, through `onExit`, or by Esc: `exec()` (tray.cpp:570) runs it as
a dialog that overrides `closeEvent` only, so that Esc hides it without a save (`Reject`).
`escaped` is the history of that. `SettingsWindow` is a
sum: a behaviour uses the page, or the modal dialog in front of it, which share only the
settings (`AdoptName`). One scan per behaviour: a second one has a context and
workers of its own, and nothing of the first.

### UserStore and AdminBot

An account is what a line of the file says of it: the password that was hashed,
named by the write that issued it, whether a salt went into the hash, whether the salt is
in the line, and the terms. A write may leave any time stamp the file or the server had
before, because two writes may come within one tick of the clock.

* *Backend*: read and write under the lock as two steps, the process may die between them.
* *Bot*: load, truncate, write, no lock; `save_users` may raise at either end of the two
  writes and leave some lines. It reads four fields of a line, so that it drops every salt.
* *`fptn-passwd`*: load, then write, no lock. `SaveUsers` does not look whether that worked:
  the old file may stay (`ToolKeepsFile`) or lines be missing (`ToolLosesLines`), and
  success is reported (common_user_manager.h:56).
* *Server*: look at the time stamp, remember it, load, compare. The look may fail, which
  leaves the old table in use; the load may fail, which leaves an empty one until the stamp
  changes again (128, 159).

History variables: `clash`, who first overwrote something it had not read or lost lines;
`unsalted`, whose salt the bot dropped; `unstored`, whose last change was reported and not
saved; `reused`, the time stamps several writes left.

`AdminBot` adds the dialogue of one administrator: a menu, the selected user, the user a
speed was asked for. A typed speed starts a handler; saving and leaving `speed_input` are
separate steps, with the reply between them (bot.py:983), and a reply or a save that raises
leaves the bot waiting for a speed (`LoseReply`, `FailToSave`). A question is open
(`prompted`) from when it is asked until it is confirmed or the menu is left.

## 3. What is checked

| Run | Instance | Shows |
| --- | --- | --- |
| `nat_table` | 3 connections, 2 sessions, 2 IPv4 and 1 IPv6 address, 2 users | maps, buckets and update agree and a session has one user (`TableConsistent`), conservation of addresses, reachability, and that the table implements `AddressLease` |
| `server_sessions` | 2 connections, 2 sessions, 2 threads, limit 1, no symmetry | entries, `sessions_` and sessions agree, `Stop` leaves none open and returns, what has expired is closed |
| `vpn_manager` | 1 attempt per window, 2 full restarts | the strategy is kept while used (`StrategyKept`, `NoUseAfterReset`), a started manager has a worker and a supervisor (`SupervisedWhileStarted`), routes across restarts, no use after reset, losses answered, `Stop` ends |
| `stop_hangs` | 2 attempts per window | **violated**: a `Stop` that comes between check and launch never returns |
| `route_manager` | 2 workers, 2 callers, 1 + 1 addresses, 1 network, queue of 1, 1 crash | noted routes are in the system unless refused, only raced ones remain over IPv4, the user's settings come back, IPv6 too where the network has it, the destructor ends |
| `transport` | pools of 1, 2, 3 and the mimicry's, 1 loss, 1 failed start; 1 client | nothing leaked, deadlines apart, lists follow the pool, no gap, pools fill, clients are freed, losses noticed |
| `tray_app` | 4 servers (2 slow), 2 tunnels, 2 boxes | one owned tunnel, the token's server, attempts end, losses reported |
| `search_returns` | 4 servers, so that 2 are asked | **violated**: the search joins threads under their mutex |
| `client_settings` | 2 names, 2 token versions, 2 values; a scan of 3 names with 2 workers | table and model agree, a closed page is saved and an escaped one loses nothing in use, ping rounds count, verdicts sound, scans end |
| `user_accounts` | 2 users with or without accounts at the start, 2 backend calls, bot, tool, server, 2 more writes | logins see the file, issued passwords are stored and accepted, locked updates kept, speeds answer open questions, each with the exceptions below |
| `users_clash` | 1 backend call | **violated**: backend and bot overwrite each other |
| `web_traffic` | 2 connections and 2 sessions on one address, 1 thread, channels of 1 batch, frames of 2 packets, 3 packets; 3 calls, 2 names | packets stay in their session, channels are written in order and to the end, answers are not too old and not the wrong site's |

Distinct states of the passing runs: `nat_table` 156,299; `server_sessions` 98,772;
`vpn_manager` 21,412; `route_manager` 1,702,909; `transport` 220,051; `tray_app`
436,400; `client_settings` 183,753; `user_accounts` 2,034,201; `web_traffic` 795,158. Each run ends
within four minutes on two cores.

### Why these bounds are enough

* *Table.* Two connections join one session and a third one takes part in another
  session, or in the same id again after it was released: the smallest setting in which a
  stale multiplexer, a rejoin during an update and an address used by a second
  session all occur. One IPv6 address for two IPv4 ones makes the pool run out on one
  side only. The four requests cover a pooled connection with a send window and a
  ttl, a bidirectional one, another user's claim on a session, and a receiver that
  expires.
* *Server.* Two sessions are enough for a turn to come inside another one, with
  the expiry thread and `Stop` as third and fourth actors.
* *Connection and VPN manager.* No quantity but the counters of attempts
  and restarts, and each is taken through zero, its limit and its reset.
* *Routes.* Two workers on one queue with room for one: a full queue, a lost
  notification, and an address in hand during a `Clean` all occur. One address of
  each family, because the code treats failures of the two differently. Of the name
  servers one is the user's, one the VPN's and one both. A second crash would find what
  the first one left, once more; `CrashBound` lets it come only while no address has a
  route, since routes a crash leaves behind are in `raced` and never looked at again. After a
  crash no packet brings an address (`PacketCrashes = 0`): what a crash disturbs are the
  settings, which no worker touches.
* *Transport.* The durations of the tunnels are the code's own; only the tick is coarse.
  One loss and one failed start fill the pool out of order, so that `NextLifetime` has
  to halve a gap rather than append a slot. The mimicry's lives and roles are shortened to a
  few ticks, in the order they have in the code (a role ends before a life, the lead is
  shorter than either); a pool of three over two wanted leaves room for one
  replacement. Ids are reused.
* *Tray.* Four servers are the least for which half of them race. Two tunnels: the one
  that runs and the one a cancelled worker brings late. Two boxes: one opened from the
  event loop of another.
* *Settings.* Two services whose tokens can be renewed; two slots on the ping timer show
  a round counted twice. Three names for two workers: one worker takes a second name
  while the other still tries.
* *Traffic.* One address for two sessions, so that it changes hands while a packet is
  under way. Three packets over frames of two and a channel of one batch: a batch is lost,
  two are merged, a frame is cut and its rest goes first. One thread is enough
  for order, since `owed` is the order in which the channel took the packets; the proofs
  hold for any number. Three calls of the cache: one that fails, one that
  finds what the other stored, one after its time.
* *Users.* Two users, for renames and for an update of one while the other is written;
  two calls of the backend, for the lock. The file holds accounts already or none, and is
  written twice more: enough for the bot to rewrite what a program with salts issued, for a
  write with an old time stamp after a load, and for a restored backup over a later change.
  `users_clash` has one write more. At most two programs are in the middle of an operation,
  and none starts while the bot has a question open (`MaxAside = 0`): the bot's loads and
  writes interleave with the others as its commands do, and the dialogue's own state is
  touched by no other program. The theorems hold for any bound.

Deadlock is checked where the system runs on by itself. `transport`,
`client_settings` and `web_traffic` switch it off: a released client, a scan whose
worker is stuck or done, and a server without traffic really stop. Elsewhere the end of the program is a named
stuttering step (`Stopped`, `Exited`, `Gone`).

### Fairness

* A thread that can take a step takes it in the end: weak fairness for the expiry
  thread (manager.cpp calls it once a second), the io threads, the worker, the
  supervisor, whoever is in `Stop`, the threads of requests, searches and scans.
* `LoopReturns` is fair only when the `io_context` is stopped. A loop parked in the
  reactor is not promised a handler, and `RunEventLoop` re-checks `running_` only
  after one.
* Strong fairness for a thread waiting on the VPN manager's `mutex_`: the packet
  paths take it again and again, and the code relies on the mutex not starving
  the supervisor and `Stop` for ever.
* The event loop gives every coroutine of a pool or a client its turns, and Qt every timer
  of the tray and the scan. Time passes in the pools (`Tick`), but only after that
  tick's turn of the manager, whose timer is shorter than a tick, and after coroutines
  that are ready have run.
* `RunSender` runs on the io threads (`SenderTurn`); a write ends, since a dead peer
  closes the connection.
* Peers, networks, users, clocks of the table, the operator: no fairness. No property says
  that a connection is ever made. The search for a server at the start of the command line
  client is not fair either, since it may not return.

### Where the code and its documents disagree

1. `stop_hangs`: connection_manager.cpp:300 looks at `running_` without the mutex
   and then starts the strategy, which sets its own flag again after `Stop` cleared
   it. `RunEventLoop` then spins on a stopped `io_context` and `Stop` waits
   in `join` for ever. `ClientStopRaceTest.cpp` states that a stop completes.
2. `search_returns`: speed_estimator.cpp:191 joins the threads of the search with its
   mutex held, and a thread needs the mutex to end. With four servers or more, the first
   success can leave both waiting. The comment there speaks of joining all workers.
3. `users_clash`: user_manager.py:44 rewrites the users file without the lock that
   vpn_user_store.py:11 says keeps the two from clashing.

Two more show in the models without a run of their own. api_client.cpp:298 joins the
thread of a request that ran into its timeout under the mutex this thread needs, like the
search: it is the escape `Stuck` in `ScanEnds` and `start.pc = "hung"` in
`AttemptEnds`, although the scan relies on its workers dropping out at the next stop check
(sni_autoscan_dialog.cpp:261). And `OpenCheck` compares the sessions of a user with the
limit by `>` before the lock (server.cpp:267-277), so that one more than the documented
maximum, and one more per thread, can be open; no property bounds them.

Each weaker statement that does hold is checked: `StopEndsOrSpins`;
`AttemptEnds` and `ScanEnds`, unless a search or request is stuck; `LockedUpdatesKept`,
unless a program that ignores the lock wrote in between. Other departures from what one
would expect are named in the property that comes nearest, rather than in a run of their own:

* `NotedIsRouted`: a route command that the system refuses is taken for a success
  (route_manager.cpp:181); the address stays noted and is not tried again.
* `OnlyRacedRoutesLeft`: routes that race with a `Clean` stay. On a network without IPv6 the
  VPN's IPv6 routes stay until the device closes, and a later `Apply` may take the VPN's
  gateway for the network's (877, 1462). The sysctls (390) are never undone, and after a crash
  rules and link servers stay.
* `TokenForItsServer`: a token left by an attempt that ended before its login is used for the
  next server (tray.cpp:960).
* `VerdictsAreSound`: a name found between the two reads of the scan's timer is reported as
  none (sni_autoscan_dialog.cpp:192).
* `SavedWhenClosed`: after Esc a removed service is still in the file, and a save that
  failed at `close()` is reported as done (settingsmodel.cpp:584).
* `LoginsSeeFile`: two writes with one time stamp, or a stamp that cannot be read, leave the
  old table in use; after a load that failed nobody is accepted (common_user_manager.h:127).
* `IssuedIsStored`: `fptn-passwd` reports accounts it could not save
  (common_user_manager.h:175, 181), and users whose salt the bot dropped (user_manager.py:29)
  are refused until they get a new password. The property says it is exactly these who are.
* `SpeedAnswersPrompt`: another user's card redirects the answer (bot.py:788), and a lost
  reply leaves the question open though the speed was saved (983).

## 4. What is proved

Every safety invariant and every action property of the passing runs is a theorem of
its specification, for every value of the constants. Each module of theorems has one inductive invariant: the
properties of the run and what they leave out. TLC checked each invariant
on the run's instance before it was proved. Then there is one lemma per action or per
group of actions that disturbs the same conjuncts, a lemma that puts them together, and the
theorems, each by `PTL` from the invariant.

Nothing is assumed but the named assumptions of the modules: that `None` is none of
the other values, that bounds and sizes are natural numbers (positive where the code
divides or waits for one), that a request names a session and a user
(`NatAssumption`), that IPv4, IPv6 and network addresses are different
(`RouteAssumption`), that there are finitely many servers (`SearchAssumption`), that there
are ids enough for a pool and those about to be closed (`TunnelAssumption`,
`MimicryAssumption`), and how the durations of the pools fit together (`DurationsFit`,
`TimesAssumption`, section 2). The bounds that keep TLC's state spaces small are constants of the theorems too.

### The table: `ServerSessionsProofs`

`TableInvariant` proves `NatInv`. The properties one wants, `AddressesConserved`,
`ClientsPlaced` and that a session has one user, are not inductive: that a release gives
back the right addresses needs `MapsAgree`; that nobody is lost between the two halves of
`UpdateConnectionsStatus` needs to know what its local vectors hold, which is
`EmptySessionsPending` (an empty registered session is about to be released) and
`ExpiredUnplaced` (what was collected is in no bucket); that a delete empties
the right bucket needs `BucketsReachable`. Two facts carry most of the proof:
`AcceptPlaces` (whatever the two clock reads return, an accepted connection is in
a bucket) and `ReleaseKeeps` (a release, or the refusal of one, keeps maps
and free lists in agreement). `TypeCorrect`, `TableStaysConsistent`,
`AddressConservation`, `NoConnectionLost` and `SessionOfOneUser` follow.

`TableImplementsLease`: the table implements `AddressLease` under the mapping `leaseOf`
(the address pair of the session's multiplexer) and `membersOf` (the connections of the
session that are in a bucket). Joining maps to `Join`, a new session to `Acquire`,
deletes, collections and releases to `Leave`, and everything else to a stutter. In
`Acquire` the pair must be held by nobody else; `AddressesConserved` and
`MapsAgree` say so.

### Server sessions: `ServerSessionsProofs`

`DrivesNatTable` shows that the server uses the table as the table's specification
allows (`ServerSpec => NatSpec`), so that all theorems about the table hold in it.
`ServerInvariant` adds to `NatInv` that a coroutine between its check and its registration
knows its request (`AskedKnown`), that an entry has an owner, and `SweepReaches`: before
the sweep of `Stop` an accepted session is in `sessions_`, where the sweep finds it, and
from then on none is being registered and the open ones have been told to close. The
second half holds only because registration looks at `running_` again under the mutex.
`RegistrationsStayInStep` and `SweepClosesAll` follow.

### The way to a client: `WebTrafficProofs`

`PathInvariant`: a connection belongs to its multiplexer for good, so what `receiving` and
`members` hold of a multiplexer are its connections (`Belong`); a thread that chose a
connection chose one of the multiplexer it found (`ThreadsAgree`); a sender that waits or
merges has nothing in the place it is about to fill (`SendersAgree`).
`PacketsKeepTheirSession` needs only these; for `ChannelsAreWrittenInOrder` the
concatenation of a sequence of sequences must be related to its head, its tail and one
more element. What the library defines by a fold is proved here along the sequence, from
the well-foundedness of the strict subsets of a finite set, which is the one form of
induction the provers can instantiate: `LeastNumber` gives every set of numbers its
least one, and the counterexample of least length is refuted.

### The handshake cache: `WebTrafficProofs`

`CacheInv` says what the cache holds (`StoredIsDue`: an entry's time stamp is the time of its
answer, which is the name's own site's, or the default domain's after that site has failed)
and what a call waits for (`CallsAsk`: it asks the default domain only after a failure).
With it `CacheAnswersAreDue` follows for a call that finds an entry and for one that fetches
its own, however calls for one name overlap. `TrafficIsBoth` shows that a behaviour of
`WebTraffic` is one of each half, which carries both halves' theorems over.

### The pools and a client: `TransportProofs`

`TransportInv` is one invariant per kind.

*Rolling tunnels* (`TunnelInv`). `OpenAreOwned` needs `RepairFits`: the connection that is made
has an id of its own, and a place in the pool or a predecessor there; and `FewClosing`: when
the manager drops the dead ones, at most one client is still closing, so that ids suffice.
`DeadlinesApart` needs that the new deadline is none of the pool's and leaves more
than the lead after the longest start. This is `NewDeadline`, a lemma about the slot
algorithm: fewer than `Count` deadlines are beyond the lead; if all gaps between
them were narrow, their sum would fall short of the slots before the last
(`DurationsFit`), so that one more slot had fitted after the last deadline. The pigeonhole
is proved with the counterexample of least cardinality, from `LeastNumber`.

*Browser mimicry* (`MimicryInv`). The lists follow the pool (`ListsFollowPool`) because an id
names one connection (`DistinctIds`), which needs a free id for each new one: `MaxPool`
in the pool and `MaxPool` closing at most, since what the last turn dropped is closed before
the next (`ClosedBefore`), and `MakingFits`.

*One client* (`ClientInv`). Its coroutines begin when it is initialised, nothing of connecting
comes after, and a coroutine that is over has taken back the mark of a connected client. From
this `StartedServes`.

*No gap* (`DeadlinesLeaveNoGap`). The argument is a budget of time. `SpacedOut`: deadlines of
started connections are more than the lead apart, so one is due at a time. `InTime`: the
ticks until what is due is replaced, `Remaining` (the stagger or the manager's next turn, the rest
of a start under way, every failure still to come), are fewer than it has left. `AloneFits`:
a tunnel of one is not held up by the stagger when its turn comes. Each step keeps
the balance: a tick takes one from both sides, a failure trades its own time for the
stagger's, and a new due connection finds a whole lead. For the mimicry pool (`LivesOn`) one
connection outlives the next turn of the manager unless the pool is full, and then
the property asks nothing. `FairTransport` states all four for the specification the
run checks.

### The two managers: `VpnManagerProofs`

`CmInv` adds three parts to what is wanted of the connection manager: `CallerCleared`
(between its flag and its return a call has cleared `running_`, and after its join there is
no worker), `AttemptCounted` (who is past the check has an attempt left) and
`LaunchesFresh` (who is about to launch has a fresh `io_context`, unless a stop has got as
far as its join). It gives the type, that the object is never destroyed or dropped
under its users (`NeverResetWhileUsed`, `StrategyNotDropped`), that a started manager has a
worker, and `SpinIsForever`: the state of the first disagreement above is never left by
any step of any thread, so the `Stop` that waits there waits for ever.

`DrivesConnectionManager` shows `VpnSpec => CmSpec`: the supervisor, the packet paths and
the applications call the connection manager as its own specification allows, one caller
at a time. `VpnInv` says who holds `mutex_` and what follows from the place of the
application and of the supervisor (`HolderAgrees`, `OneCaller`, `ThreadsFollowApp`,
`SupervisorKnows`, `RoutesAgree`). `SupervisedOnceConnected`, `RoutesAreWithConnection`
and `NothingUsedAfterReset` follow.

### Routes: `RouteManagerProofs`

`RouteInv` accounts for everything the system may hold: a route of the client is noted,
about to be deleted by the `Clean` that owns `mutex_`, or raced (`RoutesAccounted`);
what a worker knows between two locks holds, or a `Clean` has come by (`WorkerKnows`);
`resolv.conf`, or its backup while the VPN's servers are added, is the user's
(`ResolvAccounted`); each crash leaves one firewall rule at most (`SettingsAccounted`); and
`Ipv6Accounted` follows the IPv6 gateway: where the network has one, a running manager
has detected it and no other, because its own default route is always listed; where it has
none, the only gateway it can find is the VPN's, after an `Apply` that left its routes.
`NotedRoutesExist` and `CleanRestoresSystem` follow.

### The tray: `TrayAppProofs`

`TrayInv` ties the menu, the worker and the tunnel together: `vpn_client_` is the worker's
object until the attempt is cancelled (`WorkerKnown`); a box about a failed attempt
is open exactly while the slot that opened it waits, and there is one of these, however deep
the event loops are nested (`BoxesAgree`); a tunnel that runs has an owner
(`TunnelKnown`); `MenuAgrees`; and a token that no attempt left behind is on its way
to its login (`TokenKnown`). `OneTunnel` and `TokensMatch` follow.

### Settings and scan: `SettingsProofs`

`WindowInv` has three parts that do not touch each other. Page: the services are listed
once, in the file too, since a restart reads them from there (`ListedOnce`), the rows
are the services, and a file that was saved and can be read has every service in use
(`FileHasAll`), which is what Esc relies on. Pings: the counter is the cardinality of `Pinged`, a finite set even if
the names are not; a batch starts only from an empty one. Scan: what the context
counts is what the workers do (`CountsAgree`: names taken, counted and in hand, workers
present), and why a worker has left (`EndsKnown`). A worker's step is reduced to one lemma,
`WorkerStep`, that says what it may do to its context; the counting is in
`SetCounts` and `WorkerMoves`. `SoundVerdict` is the argument of the dialog's last message:
no worker is present, so one of them has left, so the list was at its end or the scan
stopped, so every name is counted or one was found. `PageShowsModel`, `ClosedIsSaved`,
`PingsAreCounted` and `VerdictsSound` follow.

### Users: `AdminBotProofs`

The operations on tables come first (`AppliedTable`, `AppliedHolds`: what an operation
leaves alone, and that the new table holds what was told). `AccountsInvariant`: a time stamp
that one write left tells what the file, its backup and the server's copy hold (`StampsTell`);
a call of the backend holds the lock, and its copy is the file's unless somebody who had not
read it has written since (`CallsAgree`, the same for the tool and the bot); the bot's copy
has no salts (`BotAgrees`); the file holds what was issued, and a salt is missing exactly from
the users in `unsalted` (`IssuedHeld`, `AppliedSalts`). In `speed_input` a question is
open, about the selected user unless a card was opened (`PromptAgrees`).
`LoginsAreCurrent`, `FileHoldsIssued`, `LockKeepsUpdates` and `SpeedsAnswerPrompts` follow.

## 5. What is only model-checked, and what is not modelled

Only model-checked:

* Liveness (`StopReturns`, `ExpiredAreClosed`, `LossAnswered`, `StopEndsOrSpins`,
  `DestructionEnds`, `PoolFills`, `ClientEnds`, `AttemptEnds`, `DeathReported`, `ScanEnds`,
  `TakenIsWritten`): the provers have no rule for fairness and `ENABLED`.
* The three violated properties: a theorem cannot show them, but `SpinIsForever` proves
  the hopeless part of the first.

Not modelled:

* The server's packet path from a client (`RunFromClient` and a session's reader keep no
  state of their own), the answers of its HTTP API, and the client's split tunnelling
  decisions: they read the modelled state but do not change it.
* The traffic shaper and the filters, beyond that they may drop any packet.
* Bytes: TLS, obfuscation, packet layouts, checksums, the encoding of tokens and settings.
  Unit tests cover them, and they have no interleavings.
* The route manager's commands on macOS and Windows: other commands in the same order.
* Metrics, configuration.
* The backend's stores of servers and administrators, the switch that starts the bot,
  the bot's server monitor, the front end, deployment scripts.
* Wording, logging, statistics, layout, translations.
* The start of the machine: `last_spawn_time_` starts as the epoch of the
  steady clock, so that shortly after boot the stagger is not yet over. The tunnel's
  model starts with it over.

## 6. Plan

Done: all the models above, and the theorems of section 4, which cover every safety
invariant and action property of the passing runs.

What could come next:

1. That a behaviour of `Transport` is one of the strategy that was chosen, as `TrafficIsBoth`
   has it for `WebTraffic`. The invariants are proved per strategy already, but the temporal
   formulas of an instance with a parameter (`Tunnel(t)`) would need a statement each.
2. A model of the traffic shaper's token bucket, with the filters in front of it.
3. The route manager's commands on macOS and Windows as further instances of `RouteManager`.

There are eight modules of theorems. A module holds more than one component where both
share lemmas or are small.
