------------------------------- MODULE Locking -------------------------------
(***************************************************************************)
(* The locks of the server, and who waits for whom (server/dispatch.rs,    *)
(* server/mod.rs, server/http.rs, room/pool.rs).                           *)
(*                                                                         *)
(* Three tiers: the shards of the registry, a DashMap from app to pool;    *)
(* the shards of each pool, a DashMap from code to room; the mutex of each *)
(* room.  A lookup keeps a read guard of its shard as long as it uses what *)
(* it found; a scan keeps the guard of the shard it is in.  The calls made *)
(* under the write guard of a shard, and under any guard of the settings   *)
(* cache, take no other lock and do not wait: each is one step.            *)
(*                                                                         *)
(* A room stands for its code, which is not drawn again: RoomRegistry has  *)
(* that.  Of a room's contents only the seats are kept, and no join is     *)
(* refused.  A Hello of a client in a room starts with a leave, which is   *)
(* here a request of its own.                                              *)
(***************************************************************************)
EXTENDS AppConfig

CONSTANTS
  Conns,       \* tasks that serve a connection
  Watchers,    \* tasks that serve HTTP statistics
  RoomIds,     \* room objects
  RegShards,   \* number of shards of the registry
  PoolShards,  \* number of shards of a pool
  RegShardOf,  \* RegShardOf[a]: the shard of the registry with the pool of a
  ShardOf,     \* ShardOf[r]: the shard of its pool that room r is in
  Nothing,     \* no app, no room, no session
  Removed,     \* what a room is listed under that was removed from its pool
  MaxRequests  \* bound: the requests of all tasks together

Tasks == Conns \cup Watchers

ASSUME WatchersAssumption == Conns \cap Watchers = {}
ASSUME NothingAssumption ==
  Nothing \notin RoomIds /\ Nothing \notin Apps /\ Removed \notin Apps \cup {Nothing}
ASSUME ShardsAssumption ==
  /\ RegShards \in Nat \ {0} /\ RegShardOf \in [Apps -> 1 .. RegShards]
  /\ PoolShards \in Nat \ {0} /\ ShardOf \in [RoomIds -> 1 .. PoolShards]
ASSUME MaxRequestsAssumption == MaxRequests \in Nat

VARIABLES
  pools,   \* the apps that the registry has a pool for
  listed,  \* listed[r]: the app whose pool lists room r
  seats,   \* seats[r]: the connections that sit in room r
  sess,    \* sess[c]: the room that the session of c names
  task,    \* task[t]: where task t is, and which guards it keeps
  quota    \* requests that may still come

config == <<file, cache, said, edits>>
vars == <<pools, listed, seats, sess, task, quota, file, cache, said, edits>>

-----------------------------------------------------------------------------
(* Where a task is.                                                        *)

Uses == {"find", "create", "list", "act", "leave", "clean", "stats"}
Waiting == {"registering", "opening", "finding", "creating", "removing", "entering",
            "scanning", "reaching", "measuring", "turning"}
Places == Waiting \cup {"rest", "checking", "loading", "keeping", "inside", "counting"}

Place ==
  [at : Places, use : Uses,
   app : Apps \cup {Nothing}, room : RoomIds \cup {Nothing},
   reg : 0 .. RegShards,          \* the registry shard it has a read guard of, or 0
   shard : 0 .. PoolShards,       \* the shard of app's pool it has a read guard of, or 0
   locked : BOOLEAN,              \* has it locked the mutex of room?
   next : 0 .. PoolShards + 1,    \* a scan: the shard to look into next
   left : SUBSET RoomIds,         \* a scan: the rooms still to visit in its shard
   apps : SUBSET Apps,            \* statistics: the apps still to visit in its shard
   settings : Settings \cup {Unset}]

Rest ==
  [at |-> "rest", use |-> "act", app |-> Nothing, room |-> Nothing, reg |-> 0, shard |-> 0,
   locked |-> FALSE, next |-> 0, left |-> {}, apps |-> {}, settings |-> Unset]

Guard(lock, write) == [lock |-> lock, write |-> write]
RegLock(i) == [tier |-> 1, of |-> Nothing, key |-> i]
PoolLock(a, i) == [tier |-> 2, of |-> a, key |-> i]
RoomLock(r) == [tier |-> 3, of |-> Nothing, key |-> r]

Holds(t) ==
  LET p == task[t]
  IN  {g \in {Guard(RegLock(p.reg), FALSE)} : p.reg # 0}
        \cup {g \in {Guard(PoolLock(p.app, p.shard), FALSE)} : p.shard # 0}
        \cup {g \in {Guard(RoomLock(p.room), TRUE)} : p.locked}

\* The guard that the next step of t takes, asked for where it is.
Wants(t) ==
  LET p == task[t]
  IN  CASE p.at = "registering" -> Guard(RegLock(RegShardOf[p.app]), TRUE)
        [] p.at = "opening" -> Guard(RegLock(RegShardOf[p.app]), FALSE)
        [] p.at = "turning" -> Guard(RegLock(p.reg + 1), FALSE)
        [] p.at = "finding" -> Guard(PoolLock(p.app, ShardOf[p.room]), FALSE)
        [] p.at \in {"creating", "removing"} -> Guard(PoolLock(p.app, ShardOf[p.room]), TRUE)
        [] p.at \in {"scanning", "measuring"} -> Guard(PoolLock(p.app, p.next), FALSE)
        [] p.at \in {"entering", "reaching"} -> Guard(RoomLock(p.room), TRUE)

Excludes(g, h) == g.lock = h.lock /\ (g.write \/ h.write)

\* Nobody, not t itself either, holds what excludes the guard that t wants.
Granted(t) == \A s \in Tasks : \A g \in Holds(s) : ~Excludes(g, Wants(t))

-----------------------------------------------------------------------------
(* Steps.                                                                  *)

Init ==
  /\ ConfigInit
  /\ pools = {}
  /\ listed = [r \in RoomIds |-> Nothing]
  /\ seats = [r \in RoomIds |-> {}]
  /\ sess = [c \in Conns |-> Nothing]
  /\ task = [t \in Tasks |-> Rest]
  /\ quota = MaxRequests

GoesTo(t, place) == task' = [task EXCEPT ![t] = place]
RoomsUnchanged == UNCHANGED <<pools, listed, seats, sess>>

\* What a load was for.  is_registered_app comes first and keeps no guard; the default
\* settings are loaded under the guard of the registry.
Loaded(p, settings) ==
  CASE p.reg # 0 -> [p EXCEPT !.at = "creating", !.settings = settings]
    [] p.reg = 0 /\ p.use = "list" -> [p EXCEPT !.at = "opening", !.settings = Unset]
    [] p.reg = 0 /\ p.use # "list" -> [p EXCEPT !.at = "registering", !.settings = Unset]

\* On the way to a new room, t draws a code; a bound lets it draw no old one unless
\* all are.
Drawing(t, next) ==
  IF next.at # "creating" THEN GoesTo(t, next)
  ELSE \E r \in RoomIds : /\ listed[r] = Nothing \/ \A q \in RoomIds : listed[q] # Nothing
                         /\ GoesTo(t, [next EXCEPT !.room = r])

\* The cache is looked into for p.app.
Checked(t, p) ==
  IF cache[p.app] # Unset THEN Drawing(t, Loaded(p, cache[p.app]))
  ELSE GoesTo(t, [p EXCEPT !.at = "loading"])

\* A Hello that names a room, of those that have been given out, or wants a new one, or
\* ListRooms: c, at rest, is asked and looks into the cache.
Named(a) ==
  {[Rest EXCEPT !.use = "find", !.app = a, !.room = r] : r \in {q \in RoomIds : listed[q] # Nothing}}
    \cup {[Rest EXCEPT !.use = use, !.app = a] : use \in {"create", "list"}}

BeginNamed(c) ==
  /\ task[c].at = "rest"
  /\ quota > 0 /\ quota' = quota - 1
  /\ \E a \in Apps : \E p \in Named(a) : /\ sess[c] = Nothing \/ p.use = "list"
                                        /\ Checked(c, p)
  /\ RoomsUnchanged /\ ConfigUnchanged

\* A request from inside a room, or the end of the stay.
BeginSeated(c) ==
  /\ task[c].at = "rest"
  /\ quota > 0 /\ quota' = quota - 1
  /\ sess[c] # Nothing
  /\ \E use \in {"act", "leave"} :
       /\ GoesTo(c, [Rest EXCEPT !.at = "opening", !.use = use,
                                 !.app = sess[c].app, !.room = sess[c].room])
       /\ sess' = IF use = "leave" THEN [sess EXCEPT ![c] = Nothing] ELSE sess
  /\ UNCHANGED <<pools, listed, seats>> /\ ConfigUnchanged

BeginStats(t) ==
  /\ t \in Watchers
  /\ task[t].at = "rest"
  /\ quota > 0 /\ quota' = quota - 1
  /\ GoesTo(t, [Rest EXCEPT !.at = "turning", !.use = "stats"])
  /\ RoomsUnchanged /\ ConfigUnchanged

\* default_room_settings_for_app, under the guard of the registry.
CheckDefaults(t) ==
  /\ task[t].at = "checking"
  /\ Checked(t, task[t])
  /\ RoomsUnchanged /\ ConfigUnchanged /\ UNCHANGED quota

\* Mutant: an app is found to be registered and its settings are not kept.
LoadUnkept(t) ==
  LET p == task[t]
  IN  /\ p.at = "loading"
      /\ IF Found(p.app) # Unset THEN Drawing(t, Loaded(p, Found(p.app)))
         ELSE IF p.reg # 0 THEN Drawing(t, Loaded(p, app_fallback(p.app)))
         ELSE GoesTo(t, Rest)
      /\ RoomsUnchanged /\ ConfigUnchanged /\ UNCHANGED quota

\* Mutant: the answer for an unknown app is kept as well.
LoadAlwaysKept(t) ==
  LET p == task[t]
  IN  /\ p.at = "loading"
      /\ GoesTo(t, [p EXCEPT !.at = "keeping",
                             !.settings = IF Found(p.app) # Unset THEN Found(p.app)
                                          ELSE app_fallback(p.app)])
      /\ RoomsUnchanged /\ ConfigUnchanged /\ UNCHANGED quota

\* Mutant: a file that cannot be read is tried again.
LoadRetrying(t) ==
  LET p == task[t]
  IN  /\ p.at = "loading"
      /\ GoesTo(t, IF Found(p.app) # Unset THEN [p EXCEPT !.at = "keeping", !.settings = Found(p.app)]
                   ELSE [p EXCEPT !.at = "checking"])
      /\ RoomsUnchanged /\ ConfigUnchanged /\ UNCHANGED quota

Load(t) ==
  LET p == task[t]
  IN  /\ p.at = "loading"
      /\ IF Found(p.app) # Unset THEN GoesTo(t, [p EXCEPT !.at = "keeping", !.settings = Found(p.app)])
         ELSE IF p.reg # 0 THEN Drawing(t, Loaded(p, app_fallback(p.app)))
         ELSE GoesTo(t, Rest)
      /\ RoomsUnchanged /\ ConfigUnchanged /\ UNCHANGED quota

Keep(t) ==
  LET p == task[t]
  IN  /\ p.at = "keeping"
      /\ Remember(p.app, p.settings)
      /\ Drawing(t, Loaded(p, p.settings))
      /\ RoomsUnchanged /\ UNCHANGED quota

Register(t) ==
  /\ task[t].at = "registering" /\ Granted(t)
  /\ pools' = pools \cup {task[t].app}
  /\ GoesTo(t, [task[t] EXCEPT !.at = "opening"])
  /\ UNCHANGED <<listed, seats, sess, quota>> /\ ConfigUnchanged

\* registry.get: the guard is kept; without a pool ListRooms is over.
Open(t) ==
  LET p == task[t]
      open == [p EXCEPT !.reg = RegShardOf[p.app]]
  IN  /\ p.at = "opening" /\ Granted(t)
      /\ GoesTo(t, CASE p.use \in {"find", "act", "leave"} -> [open EXCEPT !.at = "finding"]
                     [] p.use = "create" -> [open EXCEPT !.at = "checking"]
                     [] p.use = "clean" -> [open EXCEPT !.at = "removing"]
                     [] p.use = "list" -> IF p.app \in pools
                                          THEN [open EXCEPT !.at = "scanning", !.next = 1]
                                          ELSE Rest)
      /\ RoomsUnchanged /\ ConfigUnchanged /\ UNCHANGED quota

\* The room as an Arc, with no guard kept.
Holding(p) == [p EXCEPT !.at = "entering", !.reg = 0, !.settings = Unset]

Find(t) ==
  LET p == task[t]
  IN  /\ p.at = "finding" /\ Granted(t)
      /\ GoesTo(t, IF listed[p.room] = p.app THEN Holding(p) ELSE Rest)
      /\ RoomsUnchanged /\ ConfigUnchanged /\ UNCHANGED quota

Create(t) ==
  LET p == task[t]
  IN  /\ p.at = "creating" /\ Granted(t)
      /\ listed[p.room] = Nothing
      /\ listed' = [listed EXCEPT ![p.room] = p.app]
      /\ GoesTo(t, Holding(p))
      /\ UNCHANGED <<pools, seats, sess, quota>> /\ ConfigUnchanged

\* The code is taken: another is drawn, or there is none.
Collide(t) ==
  LET p == task[t]
  IN  /\ p.at = "creating" /\ Granted(t)
      /\ listed[p.room] # Nothing
      /\ \/ \E r \in RoomIds : listed[r] = Nothing /\ GoesTo(t, [p EXCEPT !.room = r])
         \/ (\A r \in RoomIds : listed[r] # Nothing) /\ GoesTo(t, Rest)
      /\ RoomsUnchanged /\ ConfigUnchanged /\ UNCHANGED quota

Enter(t) ==
  /\ task[t].at = "entering" /\ Granted(t)
  /\ GoesTo(t, [task[t] EXCEPT !.at = "inside", !.locked = TRUE])
  /\ RoomsUnchanged /\ ConfigUnchanged /\ UNCHANGED quota

Sit(t) ==
  LET p == task[t]
  IN  /\ p.at = "inside" /\ p.use \in {"find", "create"}
      /\ seats' = [seats EXCEPT ![p.room] = @ \cup {t}]
      /\ sess' = [sess EXCEPT ![t] = [app |-> p.app, room |-> p.room]]
      /\ GoesTo(t, Rest)
      /\ UNCHANGED <<pools, listed, quota>> /\ ConfigUnchanged

Act(t) ==
  /\ task[t].at = "inside" /\ task[t].use = "act"
  /\ GoesTo(t, Rest)
  /\ RoomsUnchanged /\ ConfigUnchanged /\ UNCHANGED quota

\* Mutant: the mutex is kept for the clean-up.
VacateLocked(t) ==
  LET p == task[t]
  IN  /\ p.at = "inside" /\ p.use = "leave"
      /\ seats' = [seats EXCEPT ![p.room] = @ \ {t}]
      /\ GoesTo(t, IF seats'[p.room] = {} THEN [p EXCEPT !.at = "opening", !.use = "clean"] ELSE Rest)
      /\ UNCHANGED <<pools, listed, sess, quota>> /\ ConfigUnchanged

\* The mutex is released before an empty room is cleaned up.
Vacate(t) ==
  LET p == task[t]
  IN  /\ p.at = "inside" /\ p.use = "leave"
      /\ seats' = [seats EXCEPT ![p.room] = @ \ {t}]
      /\ GoesTo(t, IF seats'[p.room] = {}
                   THEN [p EXCEPT !.at = "opening", !.use = "clean", !.locked = FALSE] ELSE Rest)
      /\ UNCHANGED <<pools, listed, sess, quota>> /\ ConfigUnchanged

\* remove_if_empty: the mutex is only tried.
Removable(p) ==
  /\ listed[p.room] = p.app
  /\ \A s \in Tasks : ~(task[s].locked /\ task[s].room = p.room)
  /\ seats[p.room] = {}

Remove(t) ==
  LET p == task[t]
  IN  /\ p.at = "removing" /\ Granted(t)
      /\ listed' = IF Removable(p) THEN [listed EXCEPT ![p.room] = Removed] ELSE listed
      /\ GoesTo(t, Rest)
      /\ UNCHANGED <<pools, seats, sess, quota>> /\ ConfigUnchanged

-----------------------------------------------------------------------------
(* Scans: ListRooms of one pool, statistics of all.                        *)

\* The scan in p goes on with one of the rooms left, or with the next shard; after the
\* last a list is sent, and statistics go on to rooms.len().
Visiting(p, left) ==
  IF left # {} THEN {[p EXCEPT !.at = "reaching", !.room = r, !.left = left \ {r}] : r \in left}
  ELSE IF p.next <= PoolShards THEN {[p EXCEPT !.at = "scanning", !.room = Nothing]}
  ELSE IF p.use = "list" THEN {Rest}
  ELSE {[p EXCEPT !.at = "measuring", !.room = Nothing, !.shard = 0, !.next = 1]}

RoomsIn(a, i) == {r \in RoomIds : listed[r] = a /\ ShardOf[r] = i}

\* Mutant: the rooms of a shard are collected first and locked when its guard is gone.
TurnPageFreely(t) ==
  LET p == task[t]
  IN  /\ p.at = "scanning" /\ Granted(t)
      /\ \E q \in Visiting([p EXCEPT !.next = @ + 1], RoomsIn(p.app, p.next)) : GoesTo(t, q)
      /\ RoomsUnchanged /\ ConfigUnchanged /\ UNCHANGED quota

\* The guard of a shard is kept until the next one is had.
TurnPage(t) ==
  LET p == task[t]
  IN  /\ p.at = "scanning" /\ Granted(t)
      /\ \E q \in Visiting([p EXCEPT !.shard = p.next, !.next = @ + 1], RoomsIn(p.app, p.next)) :
           GoesTo(t, q)
      /\ RoomsUnchanged /\ ConfigUnchanged /\ UNCHANGED quota

Reach(t) ==
  /\ task[t].at = "reaching" /\ Granted(t)
  /\ GoesTo(t, [task[t] EXCEPT !.at = "counting", !.locked = TRUE])
  /\ RoomsUnchanged /\ ConfigUnchanged /\ UNCHANGED quota

Count(t) ==
  LET p == task[t]
  IN  /\ p.at = "counting"
      /\ \E q \in Visiting([p EXCEPT !.locked = FALSE], p.left) : GoesTo(t, q)
      /\ RoomsUnchanged /\ ConfigUnchanged /\ UNCHANGED quota

\* Mutant: the registry has no last shard.
NextAppEndless(p, apps) ==
  IF apps # {}
  THEN {[p EXCEPT !.at = "scanning", !.app = a, !.next = 1, !.apps = apps \ {a}] : a \in apps}
  ELSE {[p EXCEPT !.at = "turning", !.app = Nothing, !.next = 0]}

\* Statistics: the next app of the registry's shard, or its next shard, or the end.
NextApp(p, apps) ==
  IF apps # {}
  THEN {[p EXCEPT !.at = "scanning", !.app = a, !.next = 1, !.apps = apps \ {a}] : a \in apps}
  ELSE IF p.reg < RegShards THEN {[p EXCEPT !.at = "turning", !.app = Nothing, !.next = 0]}
  ELSE {Rest}

\* rooms.len() reads one shard after the other.
Measure(t) ==
  LET p == task[t]
  IN  /\ p.at = "measuring" /\ Granted(t)
      /\ IF p.next < PoolShards THEN GoesTo(t, [p EXCEPT !.next = @ + 1])
         ELSE \E q \in NextApp(p, p.apps) : GoesTo(t, q)
      /\ RoomsUnchanged /\ ConfigUnchanged /\ UNCHANGED quota

Turn(t) ==
  LET p == task[t]
      apps == {a \in pools : RegShardOf[a] = p.reg + 1}
  IN  /\ p.at = "turning" /\ Granted(t)
      /\ \E q \in NextApp([p EXCEPT !.reg = @ + 1], apps) : GoesTo(t, q)
      /\ RoomsUnchanged /\ ConfigUnchanged /\ UNCHANGED quota

-----------------------------------------------------------------------------
LoadStep(t) == CheckDefaults(t) \/ Load(t) \/ Keep(t)
RoomStep(t) ==
  \/ Register(t) \/ Open(t) \/ Find(t) \/ Create(t) \/ Collide(t)
  \/ Enter(t) \/ Sit(t) \/ Act(t) \/ Vacate(t) \/ Remove(t)
ScanStep(t) == TurnPage(t) \/ Reach(t) \/ Count(t) \/ Measure(t) \/ Turn(t)
Work(t) == LoadStep(t) \/ RoomStep(t) \/ ScanStep(t)

Begin ==
  \/ \E c \in Conns : BeginNamed(c) \/ BeginSeated(c)
  \/ \E t \in Watchers : BeginStats(t)

Edit == (\E a \in Apps : EditFile(a)) /\ RoomsUnchanged /\ UNCHANGED <<task, quota>>

\* Nobody asks for anything any more.
Terminated == (\A t \in Tasks : task[t].at = "rest") /\ UNCHANGED vars

Next == Begin \/ (\E t \in Tasks : Work(t)) \/ Edit \/ Terminated

Spec == Init /\ [][Next]_vars

\* As long as a thread can go on, one does: handlers never await, and a lock that is free
\* is given to somebody.  Nothing is assumed about whom.
FairSpec == Spec /\ WF_vars(\E t \in Tasks : Work(t))

-----------------------------------------------------------------------------
(* Properties.                                                             *)

\* Every variable keeps to its type, and a task keeps the guards that its place allows.
TypeOK ==
  /\ ConfigOK
  /\ pools \subseteq Apps
  /\ listed \in [RoomIds -> Apps \cup {Nothing, Removed}]
  /\ seats \in [RoomIds -> SUBSET Conns]
  /\ sess \in [Conns -> [app : Apps, room : RoomIds] \cup {Nothing}]
  /\ task \in [Tasks -> Place]
  /\ quota \in 0 .. MaxRequests

\* s cannot go on before t has: t has what s wants, or asks to write what s wants to
\* read (whether a lock lets readers pass a waiting writer is up to the library).
WaitsFor(s, t) ==
  /\ task[s].at \in Waiting
  /\ \/ \E g \in Holds(t) : Excludes(g, Wants(s))
     \/ /\ task[t].at \in Waiting
        /\ Wants(t).lock = Wants(s).lock
        /\ Wants(t).write /\ ~Wants(s).write

\* No group of tasks waits for each other: guards are taken registry first, then a
\* pool's shards in their order, then one room (dispatch.rs:81-133 and 412-419,
\* mod.rs:153-162 and 384-410, pool.rs:95-134, http.rs:20-33).
NoWaitCycle ==
  \A group \in (SUBSET Tasks) \ {{}} : \E s \in group : \A t \in group : ~WaitsFor(s, t)

\* A new room gets what its app's file said at some time since the server started, and
\* never the fallback of load.rs:72 for a file that has gone since is_registered_app; nor
\* is a file ever read under the registry's guard (dispatch.rs:67 fills the cache before
\* dispatch.rs:93 asks for the settings).  But a room of a builtin app gets the program's
\* own settings (load.rs:62 and 97), also when its file is there and says otherwise.
SettingsAsChecked ==
  \A t \in Tasks :
    /\ task[t].at = "creating" => task[t].settings \in Given(task[t].app)
    /\ task[t].at = "loading" => task[t].reg = 0

\* Nothing is kept for an app key that the server never knew (load.rs:71: "return
\* fallback without caching to avoid memory leak from invalid keys").
NothingKeptForUnknown ==
  \A a \in Apps : cache[a] # Unset \/ a \in pools => Known(a)

\* An empty room in a pool is on somebody's hands.  A scan, which also locks rooms, does
\* not make the try_lock of a clean-up fail (pool.rs:95-104 and 109-133): it would leave
\* the room there for good.
EmptyRoomClaimed ==
  \A r \in RoomIds :
    listed[r] \in Apps /\ seats[r] = {} =>
      \E c \in Conns : /\ task[c].room = r
                       /\ \/ task[c].at \in {"entering", "inside"} /\ task[c].use # "act"
                          \/ task[c].use = "clean"

\* Requests do not keep each other at work for good: of finitely many, all are answered.
RequestsEnd == <>[](\A t \in Tasks : task[t].at = "rest")

=============================================================================
