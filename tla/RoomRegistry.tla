---------------------------- MODULE RoomRegistry ----------------------------
(***************************************************************************)
(* The rooms of one app, the pool that names them and the connections that *)
(* enter, use and leave them (server/src/room/pool.rs, server/mod.rs and   *)
(* server/dispatch.rs).                                                    *)
(*                                                                         *)
(* A connection is one task.  It runs a request to its end without         *)
(* awaiting, but on its own thread: other connections interleave between   *)
(* any two of its accesses to shared state.  Those accesses are the pool's *)
(* operations (under a DashMap shard lock) and the sections in which it    *)
(* holds a room's mutex; each is one action.  Between them the task keeps  *)
(* an Arc of the room, which stays alive when the pool forgets it.         *)
(*                                                                         *)
(* Messages to clients are left out, save that a broadcast removes the     *)
(* seats of connections whose task is gone.  What a request contains is    *)
(* chosen when the code first looks at it.                                 *)
(***************************************************************************)
EXTENDS RoomState

CONSTANTS
  RoomIds,          \* room objects: the Arc<Mutex<Room>> that can be allocated
  NoRoom,           \* what the pool maps a free code to
  NoSession,        \* session of a connection that is in no room
  DefaultSettings,  \* settings of a new room (load::default_room_settings_for_app)
  SettingsChoices,  \* what UpdateSettings may send
  Requests,         \* bound: the requests that clients use in this instance
  Crashable,        \* connections whose task may be dropped without leave_room
  Recycle           \* may a code be drawn again, and ids run up to MaxPeerId?

RequestNames ==
  {"Leave", "Move", "UpdateSettings", "SetPublic", "AcceptPeer",
   "DenyPeer", "Kick", "Ban", "TransferHost"}

ASSUME NoRoomAssumption == NoRoom \notin RoomIds
ASSUME SettingsAssumption ==
  DefaultSettings \in Settings /\ SettingsChoices \subseteq Settings
ASSUME RequestsAssumption == Requests \subseteq RequestNames
ASSUME CrashableAssumption == Crashable \subseteq Conns
ASSUME RecycleAssumption == Recycle \in BOOLEAN

VARIABLES
  pool,    \* pool[code]: the room registered under code, or NoRoom
  rooms,   \* rooms[r]: the room object r
  sess,    \* sess[c]: the session of connection c
  task,    \* task[c]: where connection c is in its work
  issued   \* codes handed out so far; kept only if codes are not drawn again

vars == <<pool, rooms, sess, task, issued>>

Session == [code : Codes, peer : PeerIds]
ASSUME NoSessionAssumption == NoSession \notin Session

-----------------------------------------------------------------------------
(* Where a task is.  A leave continues with the rest of a Hello, with the  *)
(* next request, or with the end of the connection.                        *)

Idle == [at |-> "idle"]
Entering == [at |-> "entering"]          \* a Hello, not yet in the pool
Joining(r) == [at |-> "joining", room |-> r]
Leaving(r, peer, then) ==
  [at |-> "leaving", room |-> r, peer |-> peer, then |-> then]
Cleaning(code, then) == [at |-> "cleaning", code |-> code, then |-> then]
Acting(r) == [at |-> "acting", room |-> r]
Down == [at |-> "down"]                  \* closed after leave_room
Aborted == [at |-> "aborted"]            \* dropped at an await, without leave_room

Afterwards == {Idle, Entering, Down}
Task == {Idle, Entering, Down, Aborted}
          \cup [at : {"joining", "acting"}, room : RoomIds]
          \cup [at : {"leaving"}, room : RoomIds, peer : PeerIds, then : Afterwards]
          \cup [at : {"cleaning"}, code : Codes, then : Afterwards]

HoldsRoom(t, r) == t.at \in {"joining", "leaving", "acting"} /\ t.room = r

Registered(r) == \E code \in Codes : pool[code] = r

\* The receiver of the connection's channel has been dropped.
Closed == {c \in Conns : task[c] \in {Down, Aborted}}

NoSuchRoom == NewRoom(NoCode, DefaultSettings)

\* A room object is freed with its last Arc.
Collected(rs, p, t) ==
  [r \in RoomIds |->
     IF (\E code \in Codes : p[code] = r) \/ (\E c \in Conns : HoldsRoom(t[c], r))
     THEN rs[r] ELSE NoSuchRoom]

\* Connection c goes on at t and leaves the rooms as rs.
GoesOn(c, t, rs) ==
  /\ task' = [task EXCEPT ![c] = t]
  /\ rooms' = Collected(rs, pool', task')

Init ==
  /\ pool = [code \in Codes |-> NoRoom]
  /\ rooms = [r \in RoomIds |-> NoSuchRoom]
  /\ sess = [c \in Conns |-> NoSession]
  /\ task = [c \in Conns |-> Idle]
  /\ issued = {}

-----------------------------------------------------------------------------
(* Hello: leave the old room, find or create the new one, take a seat.     *)

\* leave_room's lookup: with no such room the leave is over at once.
StartsLeaving(c, then) ==
  LET s == sess[c]
      r == pool[s.code]
  IN  IF r = NoRoom THEN then ELSE Leaving(r, s.peer, then)

\* Mutant: the old session is overwritten without leaving its room.
BeginHelloWithoutLeaving(c) ==
  /\ task[c] = Idle
  /\ pool' = pool
  /\ GoesOn(c, Entering, rooms)
  /\ sess' = [sess EXCEPT ![c] = NoSession]
  /\ UNCHANGED issued

BeginHello(c) ==
  /\ task[c] = Idle
  /\ pool' = pool
  /\ IF sess[c] = NoSession THEN GoesOn(c, Entering, rooms)
     ELSE GoesOn(c, StartsLeaving(c, Entering), rooms)
  /\ sess' = [sess EXCEPT ![c] = NoSession]
  /\ UNCHANGED issued

\* Invalid, unauthenticated or unregistered; no such room; no code to create one.
RejectHello(c) ==
  /\ task[c] = Entering
  /\ pool' = pool
  /\ GoesOn(c, Idle, rooms)
  /\ UNCHANGED <<sess, issued>>

\* Bound: without Recycle no client asks for a room in which u32::MAX ids would
\* run out, those of the joins under way included.
WithinIds(r) ==
  Recycle \/ rooms[r].next + Cardinality({c \in Conns : task[c] = Joining(r)}) < MaxPeerId

FindRoom(c, code) ==
  /\ task[c] = Entering
  /\ pool[code] # NoRoom
  /\ WithinIds(pool[code])
  /\ pool' = pool
  /\ GoesOn(c, Joining(pool[code]), rooms)
  /\ UNCHANGED <<sess, issued>>

IsFree(r) == /\ ~Registered(r)
             /\ \A c \in Conns : ~HoldsRoom(task[c], r)

\* The entry of code is checked and filled under one shard lock.
CreateRoom(c, code, r) ==
  /\ task[c] = Entering
  /\ pool[code] = NoRoom
  /\ code \notin issued
  /\ IsFree(r)
  /\ pool' = [pool EXCEPT ![code] = r]
  /\ GoesOn(c, Joining(r), [rooms EXCEPT ![r] = NewRoom(code, DefaultSettings)])
  /\ issued' = IF Recycle THEN issued ELSE issued \cup {code}
  /\ UNCHANGED sess

Refuses(room, hash) == IsBanned(room, hash) \/ IsFull(room)

Join(c, hash) ==
  /\ task[c].at = "joining"
  /\ LET r == task[c].room
         room == rooms[r]
         peer == NextPeerId(room)
         seat == [conn |-> c, hash |-> hash, side |-> NextAvailableSide(room)]
     IN  /\ ~Refuses(room, hash)
         /\ FreePeerIds(room) # {}
         /\ pool' = pool
         /\ GoesOn(c, Idle, [rooms EXCEPT ![r] = TakeSeat(AdvancePeerId(room), peer, seat)])
         /\ sess' = [sess EXCEPT ![c] = [code |-> room.code, peer |-> peer]]
  /\ UNCHANGED issued

\* Banned, full, or a wrong password.
JoinRefused(c, hash) ==
  /\ task[c].at = "joining"
  /\ LET room == rooms[task[c].room]
     IN  Refuses(room, hash) \/ room.settings.locked
  /\ pool' = pool
  /\ GoesOn(c, Idle, rooms)
  /\ UNCHANGED <<sess, issued>>

\* next_peer_id returns None, having moved its counter.
JoinWithoutId(c, hash) ==
  /\ task[c].at = "joining"
  /\ LET r == task[c].room
     IN  /\ ~Refuses(rooms[r], hash)
         /\ FreePeerIds(rooms[r]) = {}
         /\ pool' = pool
         /\ GoesOn(c, Idle, [rooms EXCEPT ![r] = AdvancePeerId(@)])
  /\ UNCHANGED <<sess, issued>>

-----------------------------------------------------------------------------
(* Leaving: RoomControl::Leave, the start of a Hello, or the connection's  *)
(* end.  The seat goes under the room's mutex; an empty room is then       *)
(* removed under the shard lock, unless somebody is found holding it.      *)

BeginLeave(c) ==
  /\ task[c] = Idle
  /\ "Leave" \in Requests
  /\ sess[c] # NoSession
  /\ pool' = pool
  /\ GoesOn(c, StartsLeaving(c, Idle), rooms)
  /\ sess' = [sess EXCEPT ![c] = NoSession]
  /\ UNCHANGED issued

\* End of stream, an error, the idle timeout or the rate limit.
Disconnect(c) ==
  /\ task[c] = Idle
  /\ pool' = pool
  /\ IF sess[c] = NoSession THEN GoesOn(c, Down, rooms)
     ELSE GoesOn(c, StartsLeaving(c, Down), rooms)
  /\ sess' = [sess EXCEPT ![c] = NoSession]
  /\ UNCHANGED issued

\* Mutant: only Hello and Leave clean up, the end of a connection does not.
VacateWithoutCleaning(c) ==
  /\ task[c].at = "leaving"
  /\ LET t == task[c]
     IN  \E left \in Left(rooms[t.room], t.peer, Closed) :
           /\ pool' = pool
           /\ GoesOn(c, IF Empty(left) /\ t.then # Down
                        THEN Cleaning(rooms[t.room].code, t.then) ELSE t.then,
                     [rooms EXCEPT ![t.room] = left])
  /\ UNCHANGED <<sess, issued>>

Vacate(c) ==
  /\ task[c].at = "leaving"
  /\ LET t == task[c]
     IN  \E left \in Left(rooms[t.room], t.peer, Closed) :
           /\ pool' = pool
           /\ GoesOn(c, IF Empty(left) THEN Cleaning(rooms[t.room].code, t.then) ELSE t.then,
                     [rooms EXCEPT ![t.room] = left])
  /\ UNCHANGED <<sess, issued>>

\* try_lock can only fail against a task that holds this room's Arc.
TryLockFails(c, r) == \E d \in Conns \ {c} : HoldsRoom(task[d], r)

\* Mutant: the room that leave_room found empty is removed unseen.
CleanBlindly(c) ==
  /\ task[c].at = "cleaning"
  /\ pool' = [pool EXCEPT ![task[c].code] = NoRoom]
  /\ GoesOn(c, task[c].then, rooms)
  /\ UNCHANGED <<sess, issued>>

\* remove_if_empty goes by code: the room it meets may not be the one left.
Clean(c) ==
  /\ task[c].at = "cleaning"
  /\ LET code == task[c].code
         r == pool[code]
         removable == r # NoRoom /\ Empty(rooms[r])
     IN  \/ removable /\ pool' = [pool EXCEPT ![code] = NoRoom]
         \/ (removable => TryLockFails(c, r)) /\ pool' = pool
  /\ GoesOn(c, task[c].then, rooms)
  /\ UNCHANGED <<sess, issued>>

-----------------------------------------------------------------------------
(* Requests from inside a room.  lookup_room and the section under the     *)
(* room's mutex are two steps; nothing checks that the sender still has    *)
(* its seat.                                                               *)

BeginAct(c) ==
  /\ task[c] = Idle
  /\ sess[c] # NoSession
  /\ pool[sess[c].code] # NoRoom
  /\ pool' = pool
  /\ GoesOn(c, Acting(pool[sess[c].code]), rooms)
  /\ UNCHANGED <<sess, issued>>

\* Under the mutex of the room it looked up, c ends its request with that room
\* as one of outcomes.
Acts(c, outcomes) ==
  /\ task[c].at = "acting"
  /\ \E room \in outcomes :
       /\ pool' = pool
       /\ GoesOn(c, Idle, [rooms EXCEPT ![task[c].room] = room])
  /\ UNCHANGED <<sess, issued>>

IsHost(c) == rooms[task[c].room].host = sess[c].peer

\* Input, RequestState, and every request that is refused.
Observe(c) ==
  /\ task[c].at = "acting"
  /\ Acts(c, {rooms[task[c].room]})

Move(c) ==
  /\ "Move" \in Requests
  /\ task[c].at = "acting"
  /\ LET room == rooms[task[c].room]
     IN  /\ IsHost(c)
         /\ Cardinality(Peers(room.clients)) >= room.settings.min
         /\ Acts(c, BroadcastState([room EXCEPT !.state = c], Closed))

UpdateSettings(c, settings) ==
  /\ "UpdateSettings" \in Requests
  /\ task[c].at = "acting"
  /\ IsHost(c)
  /\ Acts(c, Broadcast([rooms[task[c].room] EXCEPT !.settings = settings], Closed))

SetPublic(c, public) ==
  /\ "SetPublic" \in Requests
  /\ task[c].at = "acting"
  /\ IsHost(c)
  /\ Acts(c, {[rooms[task[c].room] EXCEPT !.settings.public = public]})

Accepted(room, peer) ==
  [room EXCEPT !.pending = Without(@, {peer}),
               !.clients = With(@, peer, room.pending[peer])]

AcceptPeer(c, peer) ==
  /\ "AcceptPeer" \in Requests
  /\ task[c].at = "acting"
  /\ LET room == rooms[task[c].room]
     IN  /\ IsHost(c)
         /\ peer \in Peers(room.pending)
         /\ Acts(c, Broadcast(Accepted(room, peer), Closed))

DenyPeer(c, peer) ==
  /\ "DenyPeer" \in Requests
  /\ task[c].at = "acting"
  /\ LET room == rooms[task[c].room]
     IN  /\ IsHost(c)
         /\ peer \in Peers(room.pending)
         /\ Acts(c, {[room EXCEPT !.pending = Without(@, {peer})]})

Kicked(room, peer) == [room EXCEPT !.clients = Without(@, {peer})]

\* Mutant: anybody may kick.
KickByAnybody(c, peer) ==
  /\ "Kick" \in Requests
  /\ task[c].at = "acting"
  /\ Acts(c, Broadcast(Kicked(rooms[task[c].room], peer), Closed))

\* The ids of pending and absent peers, and the host's own, are not refused.
Kick(c, peer) ==
  /\ "Kick" \in Requests
  /\ task[c].at = "acting"
  /\ IsHost(c)
  /\ Acts(c, Broadcast(Kicked(rooms[task[c].room], peer), Closed))

Banned(room, peer) ==
  IF peer \in Peers(room.clients)
  THEN [Kicked(room, peer) EXCEPT !.banned = @ \cup {room.clients[peer].hash}]
  ELSE room

Ban(c, peer) ==
  /\ "Ban" \in Requests
  /\ task[c].at = "acting"
  /\ IsHost(c)
  /\ Acts(c, Broadcast(Banned(rooms[task[c].room], peer), Closed))

TransferHost(c, peer) ==
  /\ "TransferHost" \in Requests
  /\ task[c].at = "acting"
  /\ LET room == rooms[task[c].room]
     IN  /\ IsHost(c)
         /\ peer \in Peers(room.clients)
         /\ Acts(c, Broadcast([room EXCEPT !.host = peer], Closed))

-----------------------------------------------------------------------------
\* The runtime drops a task that is waiting: its seat stays in the room.
Abort(c) ==
  /\ c \in Crashable
  /\ task[c] = Idle
  /\ pool' = pool
  /\ GoesOn(c, Aborted, rooms)
  /\ sess' = [sess EXCEPT ![c] = NoSession]
  /\ UNCHANGED issued

\* Every connection of the instance has ended.
Terminated == Closed = Conns /\ UNCHANGED vars

\* What a task that has begun a request does next.
HelloStep(c) ==
  \/ RejectHello(c)
  \/ \E code \in Codes : FindRoom(c, code)
  \/ \E code \in Codes, r \in RoomIds : CreateRoom(c, code, r)
  \/ \E hash \in Hashes : Join(c, hash) \/ JoinRefused(c, hash) \/ JoinWithoutId(c, hash)

LeaveStep(c) == Vacate(c) \/ Clean(c)

ActStep(c) ==
  \/ Observe(c)
  \/ Move(c)
  \/ \E settings \in SettingsChoices : UpdateSettings(c, settings)
  \/ \E public \in BOOLEAN : SetPublic(c, public)
  \/ \E peer \in PeerIds : \/ AcceptPeer(c, peer)
                           \/ DenyPeer(c, peer)
                           \/ Kick(c, peer)
                           \/ Ban(c, peer)
                           \/ TransferHost(c, peer)

BeginStep(c) == BeginHello(c) \/ BeginLeave(c) \/ Disconnect(c) \/ BeginAct(c)

Next ==
  \/ \E c \in Conns : BeginStep(c) \/ HelloStep(c) \/ LeaveStep(c) \/ ActStep(c) \/ Abort(c)
  \/ Terminated

Spec == Init /\ [][Next]_vars

\* A request that has begun runs to its end: dispatch and leave_room never await,
\* and a mutex is held only for such a run.  Clients owe nothing.
Fairness == \A c \in Conns : WF_vars(HelloStep(c) \/ LeaveStep(c) \/ ActStep(c))
FairSpec == Spec /\ Fairness

-----------------------------------------------------------------------------
(* Properties.                                                             *)

\* Every variable keeps to the values its type allows.
TypeOK ==
  /\ pool \in [Codes -> RoomIds \cup {NoRoom}]
  /\ rooms \in [RoomIds -> Room]
  /\ sess \in [Conns -> Session \cup {NoSession}]
  /\ task \in [Conns -> Task]
  /\ issued \subseteq Codes

\* Connection c still answers for its seat p in r.
OwnsSeat(c, r, p) ==
  \/ task[c] = Aborted
  \/ sess[c] = [code |-> rooms[r].code, peer |-> p]
  \/ task[c].at = "leaving" /\ task[c].room = r /\ task[c].peer = p

\* A seat in a registered room belongs to a connection that can still give it up:
\* its session names the seat, or it is about to vacate it; only a dropped task
\* leaves a seat behind.  Hello (dispatch.rs:40-42) and leave_room take the
\* session, then find the room again by its code, then remove the seat.
SeatOwned ==
  \A r \in RoomIds, p \in PeerIds, c \in Conns :
    Registered(r) /\ Sits(rooms[r], p, c) => OwnsSeat(c, r, p)

\* What makes SeatOwned inductive.  A room is registered under its own code, so
\* that looking it up by a session's code finds the room of the seat; an Arc is of
\* a room that was created; a task between two rooms has no session.
PoolNamesRooms == \A code \in Codes : pool[code] # NoRoom => rooms[pool[code]].code = code
HeldRoomsExist == \A c \in Conns, r \in RoomIds : HoldsRoom(task[c], r) => rooms[r].code \in Codes
SessionAtRest == \A c \in Conns : sess[c] # NoSession => task[c].at \in {"idle", "acting"}

\* The inductive invariant of the registry (proved in RoomRegistry_proofs).
RegistryInv == TypeOK /\ PoolNamesRooms /\ HeldRoomsExist /\ SessionAtRest /\ SeatOwned

\* A connection has at most one seat in the app's registered rooms, however its
\* Hellos, leaves and kicks are interleaved with other connections' requests.
OneSeat ==
  \A c \in Conns, r, s \in RoomIds, p, q \in PeerIds :
    /\ task[c] # Aborted
    /\ Registered(r) /\ Sits(rooms[r], p, c)
    /\ Registered(s) /\ Sits(rooms[s], q, c)
    => r = s /\ p = q

\* A room in which somebody sits is never taken out of the pool, whoever cleans up
\* after whom (remove_if_empty, pool.rs:92-104).
NoRoomLost ==
  [][\A code \in Codes :
       pool[code] # NoRoom /\ ~Empty(rooms[pool[code]]) => pool'[code] = pool[code]]_vars

\* No two peers of a room are given the same side (dispatch.rs:165, room.rs:135).
SidesDistinct ==
  \A r \in RoomIds : Cardinality(UsedSides(rooms[r])) = SeatCount(rooms[r])

\* A room that holds more peers than max_players, after the host lowered it, does
\* not grow further (is_full, room.rs:156).
OverfullNeverGrows ==
  [][\A r \in RoomIds :
       /\ rooms'[r].code = rooms[r].code
       /\ rooms'[r].settings.max # 0
       /\ SeatCount(rooms'[r]) > rooms'[r].settings.max
       => SeatCount(rooms'[r]) <= SeatCount(rooms[r])]_vars

\* A room whose host is one of its accepted clients (room.rs:85: "Accepted clients
\* (and host)") keeps it so through joins, leaves, transfers and pruning, as long as
\* anybody accepted is left; only a host that kicks or bans itself leaves it headless.
HostHandedOver ==
  [][\A r \in RoomIds :
       /\ rooms'[r].code = rooms[r].code
       /\ rooms[r].host \in Peers(rooms[r].clients)
       /\ Peers(rooms'[r].clients) # {}
       /\ rooms'[r].host \notin Peers(rooms'[r].clients)
       => /\ rooms'[r].host = rooms[r].host
          /\ \E h \in Conns : /\ task[h] = Acting(r)
                              /\ task'[h] # task[h]
                              /\ sess[h].peer = rooms[r].host]_vars

\* No two connections hold the same place: a kicked client keeps its session, so
\* the place must not be given out again (dispatch.rs:357-369 leave the session of
\* the kicked connection alone).
SessionsDistinct ==
  \A c, d \in Conns : c # d /\ sess[c] # NoSession => sess[c] # sess[d]

\* Somebody else's seat is only taken away by the peer the room names as host, and
\* only if nobody else sits in the host's seat; otherwise a seat goes by its own
\* connection's leave, or because its task is gone.
EvictionJustified ==
  [][\A r \in RoomIds, p \in PeerIds, c \in Conns :
       /\ Registered(r)
       /\ Sits(rooms[r], p, c)
       /\ ~Sits(rooms'[r], p, c)
       => \/ task[c] = Aborted
          \/ task[c].at = "leaving" /\ task[c].room = r /\ task[c].peer = p
          \/ \E h \in Conns :
               /\ task'[h] # task[h]
               /\ task[h] = Acting(r)
               /\ sess[h].peer = rooms[r].host
               /\ \A d \in Conns \ {h} : ~Sits(rooms[r], rooms[r].host, d)]_vars

\* The state of a room is written only by the connection that sits in the host's
\* seat, or by a former host while nobody sits there (dispatch.rs:239-245 compares
\* peer ids, not connections).
StateFromHostSeat ==
  [][\A r \in RoomIds :
       rooms'[r].code = rooms[r].code /\ rooms'[r].state # rooms[r].state =>
         \A d \in Conns \ {rooms'[r].state} : ~Sits(rooms[r], rooms[r].host, d)]_vars

\* An empty registered room is on somebody's hands: a task about to sit down in it,
\* to vacate it or to remove it.  Otherwise it would stay for good.
EmptyRoomAttended ==
  \A code \in Codes :
    pool[code] # NoRoom /\ Empty(rooms[pool[code]]) =>
      \E c \in Conns : \/ task[c].at \in {"joining", "leaving"} /\ task[c].room = pool[code]
                       \/ task[c].at = "cleaning" /\ task[c].code = code

\* An empty room is eventually removed or sat in again.
EmptyRoomReaped ==
  \A code \in Codes :
    (pool[code] # NoRoom /\ Empty(rooms[pool[code]]))
      ~> (pool[code] = NoRoom \/ ~Empty(rooms[pool[code]]))

\* The rooms as a lobby (Lobby): the codes that lead to one, and who sits where in them.
OpenCodes == {code \in Codes : pool[code] # NoRoom}
Guests ==
  {g \in [conn : Conns, code : OpenCodes, peer : PeerIds] :
     Sits(rooms[pool[g.code]], g.peer, g.conn)}

AsLobby == INSTANCE Lobby WITH
  Clients <- Conns, Names <- Codes, Ids <- PeerIds, open <- OpenCodes, guests <- Guests

\* Through lookups, mutexes and clean-ups that interleave, with codes and ids reused,
\* the rooms that codes lead to behave like a lobby (dispatch.rs:40-42 and 94-182,
\* pool.rs:95-104, mod.rs:388-410): a client enters a room that is there, being in none,
\* under an id that is free; those who go at once go from one room; a room closes empty.
Implements == AsLobby!Spec

\* What the pool is said to give a client that has taken a seat (pool.rs:92-94: "if
\* another task is mid-join, the lock fails and the room is left in place"): its
\* room is found under its code.
SeatedRoomRegistered ==
  \A c \in Conns, r \in RoomIds :
    /\ sess[c] # NoSession
    /\ rooms[r].code = sess[c].code
    /\ Sits(rooms[r], sess[c].peer, c)
    => pool[sess[c].code] = r

=============================================================================
