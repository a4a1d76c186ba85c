# Verification of roomielib

TLA+ models of the Roomie relay server (`server/`) and of its client libraries
(`clients/`), TLC runs over small instances
of them, and TLAPS proofs of the results that matter most. The reference is the
code; line numbers are those of the files under `src/` (written here without that
prefix: `dispatch.rs` is `src/server/src/server/dispatch.rs`, `mod.rs` is
`src/server/src/server/mod.rs`, `room.rs` and `pool.rs` are under
`src/server/src/room/`).

## 1. The system

Roomie lets game clients meet in *rooms*. One peer of a room is the *host*: it
sends the game's state, the others send input, and the server relays both.

| Part | State | Operations | Talks to |
|---|---|---|---|
| Room (`room.rs`) | host id, accepted `clients`, `pending`, settings, banned hashes, id counter, state blob; one mutex per room | allocate a peer id and a side, is full / banned, broadcast and prune closed channels | written by every connection of the room |
| Room pool (`pool.rs`) | sharded map code -> `Arc<Mutex<Room>>`, one per app | look up, create if the code is free, remove if empty, list, count | connections, HTTP statistics |
| Connection (`mod.rs`) | session (app, code, peer id), outgoing queue of 256, idle deadline, rate window | read a frame and dispatch it, write a queued message, time out, clean up | dispatch, the client's socket |
| Dispatch (`dispatch.rs`) | none of its own | one handler per client message | pool, room, the sender's session, other clients' queues |
| Admission (`mod.rs:55-144`) | one atomic counter | two accept loops, guards of connection tasks | connections |
| App configuration (`schema/load.rs`) | cache of default settings | load, is registered | Hello, ListRooms |
| HTTP statistics (`http.rs`) | none | counts of rooms and players | pool, rooms |
| Protocol (`protocol/`) | none | bincode in frames of at most 64 KiB | connections, clients |
| Clients (C++, C#, GML) | socket, receive buffer, view of the room (code, own id, host id) | connect, create, join, leave, send, poll | the server |

**What is hard.** Every connection is a task on a multi-threaded runtime. A handler
never awaits, but takes locks one after another and lets them go between: the pool's
shard, then a room's mutex, then the shard again. In between it keeps an `Arc` of a
room that others may fill, empty or unregister. A connection's session is private
and is not touched when another peer kicks it, so it may name a place that is gone
or belongs to somebody else. Host authority is a comparison of peer ids. A host may
leave while only pending peers remain, or kick itself. Ids saturate, sides are a
byte, `max_players` may fall below the peers present. Messages are queued after
locks are released, and dropped when a queue is full. Clients cut frames out of a
stream that arrives in any pieces, over connections that come and go, while
callbacks act on the very client that runs them. `PROJECT.json` lists these
hazards at their lines.

**What makes each part correct.** A room: ids and sides are unique, the host is one
of the accepted clients, the limit is respected. The pool and the sessions: a seat
always has an owner who will give it up, nobody has two, no room is lost while
somebody sits in it, empty rooms go away. Requests: only the host evicts others or
writes the state. Admission: the counter is exact, the limit holds, nobody is turned
away far below it. Connection: an idle peer is closed, a busy one is not. Relay: what
a client is told converges to what the server holds. Clients: their view follows the
server's messages in every order the network and the application can produce.

## 2. The modules

| Module | Models | Uses |
|---|---|---|
| `RoomState` | one room as a value, and what each operation under its mutex does | |
| `RoomRegistry` | pool, rooms, sessions and tasks of one app | `RoomState`, `Lobby` |
| `Lobby` | what the rooms of an app promise, one step for each request | |
| `MCRoomRegistry` | constants of the instances | `RoomRegistry` |
| `Admission` | the connection counter | |
| `Connection` | the select loop of one connection | |
| `RoomRelay` | what the members of one room are told, and their clients' views | `RoomState` |
| `MCRoomRelay` | constants of the instances | `RoomRelay` |
| `AppConfig` | files and cache of default settings | |
| `Locking` | the locks of registry, pools and rooms, and the tasks that want them | `AppConfig` |
| `MCLocking` | constants of the instance | `Locking` |
| `ClientSession` | the clients as receivers: connections, buffers, polls | |
| `WebBridge` | the C# client in a browser: sockets, late events, reconnects, sends | |
| `RoomState_proofs`, `RoomRegistry_proofs`, `Admission_proofs`, `Connection_proofs`, `RoomRelay_proofs`, `Locking_proofs`, `ClientSession_proofs`, `WebBridge_proofs` | theorems | the module they are named after |

### RoomState

A room is a record; `clients` and `pending` are total functions from peer ids to a
seat or `NoSeat`, which stand for the hash maps. A seat holds the connection its
channel leads to, the client's hash and its side. Names, password text and blobs are
abstracted: a password is whether there is one, the state is who wrote it. Where the
code takes "the first key" of a hash map, the order is arbitrary, so `Rehosted`,
`FixHost`, `Broadcast`, `HandOver` and `Left` yield the *set* of rooms that may
result. `Broadcast` and `BroadcastState` stand for the loops of
`broadcast_and_prune` and its sibling (`mod.rs:164-205`): every accepted (or pending)
peer whose channel is closed is removed and a host among them replaced. A host chosen
among peers about to be removed is replaced again, so only the final choice counts.

### RoomRegistry

The pool is one app's. Pools are created on demand and never removed, and no handler
relates two of them: several apps behave like one whose codes are (app, code) pairs.

A task is idle or between two accesses to shared state; each access is one action.

| Step of the code | Action |
|---|---|
| Hello takes the session and looks up the old room (`dispatch.rs:40-42`) | `BeginHello` |
| invalid, wrong secret, unregistered app, no such room | `RejectHello` |
| `get_room` / `create_room` under the shard lock | `FindRoom`, `CreateRoom` |
| the section under the new room's mutex (`dispatch.rs:133-217`) | `Join`, `JoinRefused`, `JoinWithoutId` |
| `RoomControl::Leave`; the end of the connection | `BeginLeave`, `Disconnect` |
| the section of `leave_room` (`mod.rs:388-403`) | `Vacate` |
| `remove_if_empty` under the shard lock | `Clean` |
| `lookup_room` of any other request | `BeginAct` |
| the section under the room's mutex of that request | `Observe`, `Move`, `UpdateSettings`, `SetPublic`, `AcceptPeer`, `DenyPeer`, `Kick`, `Ban`, `TransferHost` |
| the runtime drops a waiting task (shutdown, panic) | `Abort` |

The code stores the session after it has unlocked the room (`dispatch.rs:217-222`);
`Join` does both at once, which nobody can tell, as only the connection itself reads
its session and it does nothing in between. `Clean` may fail its `try_lock` exactly
when another task holds that room's `Arc`, which includes every task inside its
section. ListRooms and the statistics also lock rooms, but under the shard's read
lock, which excludes `remove_if_empty`. `Collected` forgets a room object with its
last reference, so that the object can stand for a later allocation.

`Observe` is every request that changes nothing: Input, RequestState, and those
refused because the sender is not the host. A request's arguments are chosen when
the section runs. A closed connection is not reused; a client that returns is
another connection of the instance.

### Lobby

The abstract specification: names of open rooms, and guests, each a client with the name
of its room and its id there. `Enter`, `Depart`, `Open` and `Close` are one step each.
`RoomRegistry` maps to it by `AsLobby`: a room is open when the pool has its code
(`OpenCodes`), its guests are those who sit in the room *that the code leads to*
(`Guests`). So the lookups, the time a task keeps an `Arc` and the rooms nobody can
find are invisible, and what is visible is promised whatever happens in between: nobody
enters a second room before leaving the first, no id is given twice, those who go at
once go from one room, and a room closes only when it is empty.

### Locking and AppConfig

`RoomRegistry` takes each locked section as one step; `Locking` says why nobody waits
for good before one. A task has a place (`task[t].at`) and the guards it keeps there:
a registry shard (`reg`), a shard of a pool (`shard`), a room's mutex (`locked`). At the
places in `Waiting` it wants another one (`Wants`), which it gets when nobody `Holds`
one that excludes it.

| Code | Steps, in order |
|---|---|
| Hello that names a room | cache, `Load`, `Keep`; `Register`, `Open`, `Find`, `Enter`, `Sit` |
| Hello for a new room | the same to `Open`; `CheckDefaults`, `Load`, `Keep`; `Create` or `Collide`; `Enter`, `Sit` |
| other requests; leave | `Open`, `Find`, `Enter`, `Act`; with `Vacate`, then for an empty room `Open`, `Remove` |
| ListRooms | cache, `Load`, `Keep`; `Open`; for each shard `TurnPage`, for each room of it `Reach`, `Count` |
| statistics | for each registry shard `Turn`; for each pool as ListRooms, then `Measure` |

A lookup keeps the registry's shard while it looks into the pool, and lets go of both
before it locks the room. A scan locks rooms while it keeps their shard. DashMap and
parking_lot are external: a DashMap iterator keeps the guard of its shard until it has
the one of the next; whether readers pass a waiting writer is left open
(`WaitsFor` allows for both). What is called under a write guard of a shard, or under
the lock of the cache, takes no other lock, and is one step. A Hello of a client that
is in a room begins with a leave, which is a request of its own here. A room stands for
its code, which is drawn once; joins are not refused: `RoomRegistry` has both.

`AppConfig` has one file per app, builtin ones included, which an operator may write or
delete while the server runs, and the cache. No load reads the file of a builtin app
(`Found`).

### Admission

`Accept` is the atomic `fetch_add` after `accept`, with the value it returned;
`Admit` and `Refuse` are the decision by that value, in either loop; `End` is the
guard's drop. Between them the other loop and other guards move. `Shutdown` follows
ctrl-c: it is awaited beside the TCP `accept`, and then the runtime drops the
WebSocket loop where it waits.

### Connection

One action per branch of the `select!` of `handle_connection` and
`handle_ws_connection`, which differ in `Upgrade` (the WebSocket handshake) and
`Uncounted` (control messages and frames of the wrong length, skipped before the rate
window); `transport` says which loop it is. A branch runs to its end, so the only
place between two selects is `"writing"`: the socket has not taken the message yet.
`Counted` is the rate window of `mod.rs:322-327`; `Limited`, `Garbled` and `Request`
are what follows. Messages are counted; `Enqueued` drops what does not fit, as
`try_send` does. `dispatch` returns `Ok` on every path, so its error branch is not
taken. All ends lead to the same `leave_room`, which is `Disconnect` of `RoomRegistry`.
`ages` is a history variable for the properties: how long ago, up to the window's
length, the last frames were counted. Time is in ticks, and the loop may be late by any
number of them.

### RoomRelay

One room, its members' tasks, and between each task and its client one bounded queue:
`outbox` stands for the channel of 256 and for the network after it. A handler is one
action; lookup and locked section, which `RoomRegistry` keeps apart, are together here.
What is kept apart is the answer: `dispatch` returns it, and the loop queues it after
the mutex is released (`mod.rs:342-346`), so `reply` holds it until `QueueReply`, and
broadcasts of other tasks may pass it. A Hello of a client that still has a seat
(`BeginHello`) leaves in one section and joins in another.

| Code | Definition |
|---|---|
| `try_send` to every accepted (and pending) member | `Sent`, `Fitting`, `Tells` |
| `broadcast_and_prune`: PeerLeft of the dead, HostTransferred | `Broadcasts`, `Aftermath` |
| `leave_room` | `Vacates` |
| the handlers of `dispatch` | `BeginHello`, `Join`, `JoinRefused`, `Leave`, `Move`, `RequestState`, `RoomControl`, `SettingsControl` |
| `decode_and_dispatch` in the C++ client | `Applied` |
| `poll`; `leave_room` of the client | `Poll`, `AfterSending` |

A client needs a connection to ask for something, and nothing else (`Asks`): it may leave
before its `Joined` has come, ask for a room while it is in one, and send what only a host
may. A state is a number, 0 for one without bytes, and a move may carry any of them, also
the one the room has. `view` is the client's room, own id and host id, with the state and
the roster an application learns from its callbacks; a C++ client does not pass on a state
without bytes. `missed` is a history variable: the types of the messages a connection was
not given (queue full, or pending while the accepted were told), or was given before an
older answer, and `"Crossed"` if it gave up its seat while it still showed the room, or
with the `Joined` on its way. The properties except exactly those, so they say what the
server's messages are worth to a client that missed none, and show the exceptions to be
the only ones.
Three reductions keep the state space small and lose nothing: a request is read when
it is sent (that it was sent on an old view is the same as messages arriving late); a
poll applies all that has arrived (what arrives later is a later poll); a queue is not
drained within another task's section.

### ClientSession

The four receivers are variants of one machine: C++ and C# over TCP, C# over the
browser's WebSocket bridge, and GML over asynchronous events; `lib` says which. The
wire is a sequence of units of frames, labelled with connection, frame and position,
so that a byte of another connection or a cut frame is seen. A unit stands for some
kilobytes: the first of a frame holds the length prefix.

| | C++ | C#, TCP | C#, WebSocket | GML |
|---|---|---|---|---|
| reading | `TryRecvFrame`: one `recv` of a chunk | `StartPollCs`: all that is available | `StartPollWs`: whole messages | `DataEvent`, between polls |
| dispatching | the same step, erased after the callback | `ProcessFrame`, removed before it | the same | `ProcessFrame`, read position, compacted after it |
| loss | `recv` returns 0 or fails | a failing send | state 0 or 3, before reading | `DisconnectEvent` |

`Disconnected`, `Lost` and `Connected` say what each library resets where: C++ clears
its buffer on connect and on loss but not on disconnect, C# keeps its view when the
connection is lost, GML keeps its buffer then. `Reactions` are what a callback may do
to the client. `Compacted` uses the size from before the callback, as the code does.

### WebBridge

All of the page's state is one record, `page`: the bridge's `wsState`, the browser's
sockets and the client's fields. Calls of the C# client run one another
(`Reconnect` calls `Connect`, that `Disconnect`, that `OnDisconnected`, which may call
`Reconnect`), so they are operators from a page to the pages that may result; an action
is one call of the application, or one event of the browser with its handler. The browser
is external and follows the WebSocket standard: `close()` during a handshake is followed,
later, by an error and a close event, afterwards by a close event; no message is
delivered after it, and onopen only comes to a socket that is still connecting.
`Ended` is `onerror` and `onclose`, which write to the bridge whichever socket they are
of. `handed` and `disturbed` are history variables.

## 3. The runs

| Run | Question | Instance |
|---|---|---|
| `admission` | `CountExact`, `LimitHeld`, `RefusedNearLimit` | 5 streams, 2 loops, limit 2 |
| `registry_evictions` | do stale sessions meet other people's places, and does the room keep a host, sides and its limit? `SessionsDistinct`, `SidesDistinct`, `EvictionJustified`, `StateFromHostSeat`, `HostHandedOver`, `OverfullNeverGrows` | one room with admission, at first of at most 2; its host uses every control it has, lowering the limit to 1 and ending admission; 3 connections that may be dropped, ids up to 3 |
| `registry_recycled` | what survives when codes and ids are reused? `SeatOwned`, `OneSeat`, `NoRoomLost`, `Implements`, `TypeOK` | 3 connections, 2 codes, 2 room objects, 2 ids, admission |
| `registry_reaping` | do empty rooms go away? `EmptyRoomAttended`, `EmptyRoomReaped` | 3 connections, 2 codes, 2 rooms, no refusals |
| `connection` | does the loop keep its limits and come to its end? `RateJudged`, `FullQueueMoves`, `RenewedOrClosed` | queue 3, 3 frames in 3 ticks, 4 ticks of silence |
| `relay` | do clients agree with the server once all has arrived? `ViewMatchesSession`, `HostKnown`, `StateKnown`, `RosterKnown` | 3 connections, queues of 3, 3 requests of any kind, dropped tasks, 2 states and the empty one, with and without admission, for 2 players or any number |
| `relay_host` | violated: `HostShown` | queues that do not fill, 3 requests |
| `client` | is the stream cut where the server joined it? `StreamIntact`, `ViewCurrent`, `FramesDispatched`, `LossNoticed` | all libraries, 2 connections, 2 frames on each, of 1 or 3 units; chunks of 2 |
| `client_truncated` | violated: `SameFraming` | WebSocket, a frame one unit longer than the bridge's buffer |
| `bridge` | does one socket spoil the next? `StreamsApart`, `GivenUpWithCause`, `QueueFlushed` | 4 sockets, 2 frames on each, reconnecting callbacks |
| `locking` | can tasks wait for each other? `NoWaitCycle`, `RequestsEnd`, `EmptyRoomClaimed`; is the cache right? `SettingsAsChecked`, `NothingKeptForUnknown` | 2 connections and the statistics, 3 requests, 2 apps, 2 rooms, each in a shard of its own, 1 edit of the file of either app, which may be there at first or not |
| `registry_orphan` | violated: `SeatedRoomRegistered` | 2 rooms of one code |

**Bounds.** `Conns`, `Hashes`, `Codes`, `RoomIds`: three connections are a host, a peer
and a third that interferes with either; one hash, so that a ban keeps out whoever comes
to the room after it; two room objects, a forgotten one and its successor. `MaxPeerId`
stands for `u32::MAX`. With `Recycle = TRUE` it is the code's own limit, so the counter
saturates and ids are reused; codes are drawn again. With `Recycle = FALSE` it only bounds
the run: `WithinIds` keeps clients from asking for a room whose ids would run out, and a
code is issued once. That is the normal regime, as a room would need 2^32 joins and a code
has 32^6 values. `SideCap` stands for 255, and in these runs exceeds the number of peers;
a 257th peer in a room without a limit shares side 0 with the first (`room.rs:153`).
`Requests` names the requests the clients of an instance use; between them the runs take
every action. Symmetry is used where no liveness is checked. In `RoomRelay`, `MaxRequests`
is a budget of requests, beside which tasks may be dropped: three are enough to seat a
second peer and change the host, or to seat two and lose the host, since one connection
sits in the room at first. They leave ids over (`MaxRequestsAssumption`), as 2^32 joins to
one room would be needed to use them up; what happens after that is in `RoomRegistry`. A
queue of three fills up with the news of one eviction among dead peers. Two states and the
empty one are a state, its successor, and the case that is neither. In `ClientSession`, a
frame of three units in chunks of two is one that arrives in pieces, across polls, with
the start of the next one behind it; two connections show what survives from one to the
other. In `Locking`, two shards of either kind are the least at which a scan asks for one
with another in its hands, and three tasks the least at which a third comes between two;
three requests fill a room, empty it and scan meanwhile. The theorems hold for any
numbers. In `WebBridge`, four sockets are one closed late, its successor, and two that
callbacks open in between; two frames are one before and one after the handshake.

**Fairness.** `FairSpec` asks weak fairness of each connection's steps *within* a
request and of nothing else: handlers and `leave_room` contain no await, so a
request that has begun runs to its end, and a mutex is held only during such a run.
Clients are free never to send anything. In `Connection`, time passes, and the branches
`TakeMessage` and `Silence` are strongly fair: `tokio::select!` polls in random order, so
a branch ready at every other select is taken in the end. `DrainingSpec` adds that a
handshake and a write come to an end, which is up to the peer. In `ClientSession`, the
application polls once a frame, as the headers ask, a poll runs to its end, and the
network delivers (weak fairness); the GML engine's events come between two steps of
the game, hence are strongly fair. Nothing else is: the server need not send, nor an
opening connection be established. In `Locking`, some task goes on as long as one can
(one weak fairness for all of them together): handlers do not await, and a free lock is
given to somebody. To whom is left open. In `WebBridge`, the application polls, and the
browser brings each handshake and each closing to an end, in either way.

**What the runs show.**

* `SessionsDistinct`, `EvictionJustified` and `StateFromHostSeat` hold without reuse of
  codes and ids, because the id counter only moves forward. With the lowest free id
  instead (a mutant), a kicked client acts in its successor's seat. Under reuse
  (`Recycle = TRUE`) they are not claimed; there the same can happen in the code.
* `HostHandedOver`: through leave, transfer, admission and pruning a room with accepted
  clients keeps a host among them. The exceptions are in the code: a host that kicks or
  bans itself keeps `host_peer_id` without a seat (`dispatch.rs:358`), and when the last
  accepted client leaves, `leave_room` finds no host among those pending
  (`mod.rs:394`): they wait for somebody who will not come, and so does who joins later.
* `Implements`: with all of this, the rooms that codes lead to are a lobby. The room that
  no code leads to any more (below) is not in it.
* Nobody waits in a circle (`NoWaitCycle`), whichever policy the locks have, since guards
  are taken registry first, then the shards of one pool in their order, then one room. The
  clean-up keeps to that only because `leave_room` has released the mutex (a mutant keeps
  it) and `remove_if_empty` tries the mutex instead of waiting. Scans do not make that
  `try_lock` fail (`EmptyRoomClaimed`), because they keep the shard while they lock a room.
* A Hello asks for the app twice, under different locks. What it gets for a new room was in
  the app's file at some time (`SettingsAsChecked`), because the first question has filled
  the cache; it may be what the file said when the server started. A builtin app, "pong",
  is the exception, and the property says so: it gets the program's settings, whatever its
  file says. The comment at `load.rs:55-57` says that the settings are loaded from
  `apps/{app_key}.json`, with a fallback for known apps "if the file is missing or invalid";
  `apps/pong.json` is there and is never read (`load.rs:62` and `97` come first). As
  shipped the two agree. Nothing is kept for an
  app that never had a file (`NothingKeptForUnknown`): neither settings nor a pool.
* `EmptyRoomAttended` and `EmptyRoomReaped` hold when no join is refused. They are not
  claimed with refusals: if the clean-up's `try_lock` meets a joiner that is then
  refused (banned, wrong password), the room stays, empty and registered, until
  somebody enters and leaves again. The same happens with a task whose session names
  an orphaned room's code. No property here is about these two cases.
* A join that has its `Arc` but not yet the mutex does not stop the clean-up, whatever
  the comment at `pool.rs:92-94` says (`registry_orphan`): the client gets `Joined`,
  is host of a room nobody can find, and its moves vanish without an answer. What does
  hold is `NoRoomLost`: a room in which somebody already sits is never removed.
* A silent client is closed, however many messages are queued for it and whatever
  WebSocket pings it sends, if its socket takes what is written (`connection`). If not, the
  task waits in its write, where the deadline is not polled, and keeps its seat: without
  `WF_vars(Write)` the property fails. The comment at `mod.rs:29` ("closes connections that send
  no frames within this period") does not make this exception. A handshake that is never
  completed has no deadline either, whence `WF_vars(Upgrade)`.
* The rate window is fixed, not sliding: up to twice the limit passes in a stretch of its
  length, and nobody is cut off who did not exceed the limit in such a stretch.
* A client that missed nothing has its session, host, state and peers right once all has
  arrived (`relay`). The host is a case of its own: `Joined` carries the host of the
  join and is queued after the unlock, so a transfer can be overtaken by it, and a
  pending peer is not told of transfers, nor of the host when it is accepted
  (`relay_host`). A queue that fills up makes any view wrong for as long as no message
  of the same kind follows; `RequestState` repairs the state only.
* `ViewMatchesSession` is about the *session*: a client that was kicked, banned or denied
  still has one, and still shows the room, though `roomie_client.hpp:133` says of the code
  "Empty if not in a room" and `:136` of the id "0 if not in a room". There are two
  exceptions. A client whose `Joined` was dropped for a full queue does not show the room it
  is in. One that leaves before its `Joined` has come, or asks for another room and is
  refused, goes on to show a room although it has no session (`"Crossed"`): the client has
  reset its view before, or does not reset it at all.
* A move may be empty (`dispatch.rs:259`), and then the room's state is as if there were
  none: C++ clients do not pass the update on (`roomie_client.cpp:316`; C# ones do), a
  `Joined` carries no state, and `RequestState` is not answered (`dispatch.rs:397`). So an
  application keeps the state of before although its client missed nothing. `StateKnown`
  excepts a room whose state is empty, and nothing else.
* All four receivers keep their stream intact (`client`), whichever of their parts is
  left over from the last connection, as long as callbacks do not connect again. The
  C# client over TCP does not notice that the server has closed the connection until it
  sends. A client gives up what it has not dispatched when it notices an end: C++ the complete
  frames in its buffer (`roomie_client.cpp:465` receives before it looks there), C# in the
  browser the messages that came before a close (`RoomieClient.cs:288`); so a last `Kicked`
  or `Error` may not be shown. `FramesDispatched` is about connections that have not ended.
  The WebSocket bridge cuts the last bytes off a frame of full length
  (`client_truncated`), after which the client reads lengths out of payloads.
* In the browser, frames and messages stay with the socket they are for, in order, across
  reconnects and a reconnect within another (`StreamsApart`). But the handlers do not ask
  whose event it is. An `onclose` of the last socket that comes when the next one is open
  sets `connected` to false for good: what is sent from then on waits in `sendQueue`,
  which the bridge says "will be flushed automatically when the connection opens"
  (`RoomieWebSocket.jslib:85-86`). An `onerror`, which follows when a socket is closed during
  its handshake, makes the next poll give up the new one; a client that reconnects from
  `OnDisconnected` then closes that during its handshake as well, and so on.
  `QueueFlushed` and `GivenUpWithCause` except this (`disturbed`), and nothing else: what
  they show is that a late event of an earlier socket is the only way to either.
* After `CreateRoom`, `Reconnect` does nothing: no code is stored, though `Joined` tells it.
* The counter of connections overshoots the limit by up to the number of loops, but no
  more than `MaxConnections` are ever admitted.

Each property of a passing run is also checked against a mutant of the model, a
change a plausible bug would make (definitions commented "Mutant"), and is violated.

## 4. The proofs

They hold for every value of the constants allowed by the modules' assumptions: any
set of connections, codes and rooms, any `MaxPeerId`, `SideCap`, settings and requests,
with or without reuse, unless a theorem names a hypothesis. The counts of `Admission`
need finite sets of streams and loops. Inductive invariants were given to TLC first.

* **RoomRegistry.** `RegistryInvariance`: `RegistryInv` is inductive. `SeatOwned` alone is
  not: a leave finds its room again by the session's code. That this is the room of the
  seat needs `PoolNamesRooms`; that creation does not overwrite a room that a task still
  holds, and that a room joined has a code, need `HeldRoomsExist`; that a task between
  rooms cannot own a seat by its session needs `SessionAtRest`. There is one lemma per
  action. Actions that seat nobody share `RoomStep` and the relation `SeatsWithin`,
  which the lemmas of `RoomState_proofs` establish for every room operation.
  `TypeCorrectness`, `SeatsAreOwned` and `OneSeatEach` follow, and so does
  `RoomsAreNotLost`, an action property: only `Clean` and `CreateRoom` change the pool.
* **Refinement of Lobby** (in `RoomRegistry_proofs`). `RegistryImplementsLobby`: the
  initial states map, and each step maps to a step of the lobby or a stutter, given
  `RegistryInv`. A step that only moves a task is unseen (`QuietIsUnseen`); one under the
  mutex that seats nobody is a departure from one room (`SeatsGo`), by `SeatsWithin`, or
  unseen if no code leads to that room; a join is an entrance, for which `OneSeat` and
  `NextPeerIdIsFree` are needed. `GuestsAreOrderly` carries `LobbyIsOrderly` over to the
  registry.
* **Hosts, sides, sessions and empty rooms** (in `RoomRegistry_proofs`). `StepKinds`
  reduces the steps to four kinds (outside the rooms, inside the room a task holds, a new
  room, a joiner's seat), over which each invariant is shown once. `HostIsHandedOver`:
  every operation keeps a seated host seated (`HostKept`), but for a host's request
  against itself. `OverfullRoomsDoNotGrow` needs that accepted and pending peers are apart
  (`SeatsApart`), or one who is both would be counted twice. `PlacesAreDistinct` rests on
  `ClaimsInv`: a session, stale or not, and a seat are claims to an id of a room. No two
  connections claim the same (`ClaimsApart`), every id claimed is below the room's counter
  (`ClaimsGiven`), there are ids left for the joins under way (`IdsSpared`), a code leads
  to at most one room object ever (`CodesApart`, `CodesIssued`), and a task acts in the
  room of its session (`ActsInOwnRoom`). `EvictionsAreJustified` and
  `StatesComeFromTheHost` follow: who passes the host check has the host's id, and if that
  seat is taken, nobody else has that id. `EmptyRoomsAreAttended` (`AttendInv`): the
  session of a connection is for a seat of its own, so whoever empties a room goes on to
  clean it up, and whoever makes its `try_lock` fail is on its way to a seat in it or to
  the clean-up.

  Their hypotheses are those of the runs. `~Recycle` and `MaxPeerId > 1`: codes are not
  drawn again and ids do not run out (see Bounds); `registry_recycled` shows that these
  properties are not to be had otherwise. `[]RoomsFitSides` of `SidesAreDistinct`: a room
  never has more peers than there are sides. The code gives side 0 to all others, and
  `max_players = 0` allows any number. `Gentle` and `NothingLocked` of
  `EmptyRoomsAreAttended`: clients use none of the requests that send others away, and
  no room is locked, so no join is refused for anything but its size. Without them the
  property is false (see section 3).
* **RoomState.** `NextPeerIdIsFree` (the id handed out is in range and unused, through
  saturation and the wrapped scan), `NextAvailableSideIsFree` (the side is unused
  whenever the code has one to give), `LeftWithin`, `LeftEffects` and `TakeSeatAddsOne`
  (what a leave and a join do to the seats and to the host).
* **Admission.** The invariant says that the counter is `live` plus the streams being
  decided, and that every value a loop got back was an upper bound of what was admitted
  then; `TypeCorrectness`, `CountIsExact`, `LimitIsHeld` and `RefusalIsNearLimit` follow.
* **Connection.** `RateIsJudged` for every limit, window and pace of the clock, from
  `FramesInWindows`: of the last frames, those of the window under way are younger than
  its start, the `RateMax` before them belong to at most one earlier window, and all
  others are older than a window. The lengths of time are a function from the last
  `2 * RateMax + 1` frames to their ages, not a sum over a history, so that no induction
  over the history is needed. `TypeCorrectness` bounds the queue.
* **RoomRelay.** `RelayInvariance`, and from it `TypeCorrectness`, `ViewsMatchSessions`,
  `HostsAreKnown`, `StatesAreKnown` and `RostersAreKnown`. The properties speak of clients
  for which nothing is under way any more; the invariant speaks of all: `Told` is what a
  client will believe once it has read its queue and the reply due to it, and that agrees
  with the room and the session, but for what the client has `missed` (`Knows`). To poll
  then changes nothing, and every request has to announce just what it changes: a section
  leaves a room (`Prepared`), its messages prepare each member for that (`Prepares`), and
  `AftermathTells` adds what pruning tells. A reply queued after news that was made later
  is the hard case: `Heard` shows that the news acts as if it came last, unless the reply
  is one of those that count as missed then. The invariant also needs that a `Joined` is
  the reply due only to a client with a session (`Asking`), while one in the queue of a
  client without is `"Crossed"`; that connections sit where their
  sessions say (`SeatsOwned`); that every seat has an id below the counter, so that a roster
  can be compared with ids, and that only a room with admission has pending peers
  (`RoomFine`); and it says of pending clients that their roster is empty, or it would not
  be right on the day they are accepted (`RosterFits`). Queues have any capacity, and what a
  client reads is a fold over them, shown by least counterexample as below.
  `MaxRequestsAssumption` says that the requests do not use up the ids (see Bounds).
* **Locking.** `LockingInvariance`: the inductive invariant has one main part, `WellPlaced`,
  which says for every place what guards a task keeps and what it knows there.
  `NobodyWaitsInACircle` gives each lock a rank (registry shards, then pool shards, then
  rooms): whoever waits has only guards of lower rank, so of a group, one that wants the
  highest, and to write it if anybody does, waits for nobody in it. The maximum exists by
  well-founded induction on the ranks, over a group of any size. `SettingsWereChecked` needs
  more (`SureInv`): the app of a task that is past `is_registered_app` is in the cache, from
  which nothing is removed. `UnknownAppsAreForgotten` follows from the same.
  `EmptyRoomsAreClaimed` (`HomeInv`): what a task has found is still in the pool it found
  it in, or removed, and a scan is in the shard of the rooms it visits (`Traced`), so that
  a clean-up, which has that shard to write, meets none; and who empties a room knew its
  seat (`Seated`) and goes on to clean up (`Claimed`).
* **ClientSession.** `ViewsAreCurrent`, from `SessionInvariance`. A dispatched `Joined` sets
  the view to the current connection, so the invariant must show that nothing is
  dispatched without one: by its fields in C++ (a socket is a connection) and C# (a lost
  client has emptied its buffer); in GML, where a client may have a socket and not be
  connected, because nothing arrives on a connection that was never established. The
  lemmas first follow a client through `Disconnected`, `Lost`, `Reactions` and `Dispatched`.

  `StreamsAreIntact` and `TypeCorrectness`, from `StreamInvariance`: `StreamIntact` says
  that the buffer from the read position on, followed by the wire, is the rest of the
  frames that the server sent on the connection. To be inductive it needs that units lie
  within their frames, and that an established connection has a number of its own, so that
  the first unit read as a length is one. The stream is a concatenation over
  frames (`FlattenSeq`), a fold, and the provers cannot instantiate the library's
  induction; the lemmas on it (`AllNumbers` and those after it) are by least
  counterexample instead: a set of numbers with 0 that is closed under successor is `Nat`,
  applied to the set of the lengths for which the equation holds. The theorems assume
  `FramesFit`: no message is longer than the bridge's buffer, if the WebSocket client is
  among the libraries. The code does not guarantee it, and `client_truncated` is what
  happens then.
* **WebBridge.** `StreamsStayApart` and `SocketsGivenUpWithCause`, from
  `BridgeInvariance`: only the socket in use may be connecting or open, so late `onopen`
  and `onmessage` do not come; while it is connected and open, nothing is queued, so that
  nothing is overtaken; an error without a disturbance means that it is closed. The lemmas
  follow the calls as the client makes them, including `Connect` inside the callback of
  `Disconnect` inside `Connect`: the outer one still finds a clean bridge to dial from.

Only model-checked, as liveness under fairness is out of the prover's reach:
`EmptyRoomReaped`, `FullQueueMoves`, `RenewedOrClosed`, `FramesDispatched`, `LossNoticed`,
`RequestsEnd` and `QueueFlushed`. Every other property of a passing run is a theorem.

## 5. Not modelled

The sizes of messages but for the limit of a frame, so also a reply too long to encode
(`mod.rs:354`); PeerInput, RoomList and Pong, on which no view depends, and what
SettingsChanged says; the numbers that the statistics report, which are of different
moments; the spelling of codes (`identity.rs`) and how one is drawn; the encodings of the
four implementations. Of the app settings, where the files are and how they are parsed;
`schema/types.rs` and `schema/codec.rs` are not called by the server.
`Room::send_to_retain_connected` is never called. The length checks of `validation.rs` and
the shared secret are `RejectHello`.

Of the clients: callbacks that connect again from within a C++ poll (undefined behaviour
after `roomie_client.cpp:477`); the events that the game engine may still raise for a
socket GML has destroyed, which nothing in the repository says; that GML follows the host
only with an `on_host_transferred` callback (`roomie_client.gml:268`): the view in
`RoomRelay` is that of C++. Logging and the example game are left out for good.

## 6. Plan

1. `Reconnect` against the server's seats: `WebBridge` and `RoomRegistry` composed.
2. The varint codec of the four implementations against a reference definition, and with
   it sizes of messages; `RoomCodes`: drawing and normalisation.
3. Theorems about both, as far as they are not liveness: for the composition, that the old
   seat and the new one of a client that reconnects are two claims, of which the old one is
   given up.
