--------------------------- MODULE Locking_proofs ---------------------------
(***************************************************************************)
(* Proofs about Locking, for any number of tasks, apps, rooms and shards:  *)
(* the types, that no group of tasks waits for each other, what settings   *)
(* rooms get, and that empty rooms are claimed.                            *)
(*                                                                         *)
(* The locks are ranked: the registry's shards in their order, the shards  *)
(* of pools in theirs, the rooms.  WellPlaced says of every place that a   *)
(* task there has only guards of a lower rank than the one it asks for;    *)
(* that is inductive, and so whoever is waited for and waits itself waits  *)
(* higher up.                                                              *)
(***************************************************************************)
EXTENDS Locking, WellFoundedInduction, TLAPS

InRoom == {"entering", "inside"}
Looking == {"finding", "creating", "removing"}
Loading == {"checking", "loading", "keeping"}
Scanning == {"scanning", "reaching", "counting"}

\* What a task at place p may have locked on its way there.
WellPlaced(p) ==
  /\ p.at \notin {"rest", "turning"} => p.app \in Apps
  /\ p.at \in Looking \cup InRoom \cup {"reaching", "counting"} => p.room \in RoomIds
  /\ p.use \in {"find", "leave", "clean"} => p.room \in RoomIds
  /\ p.use = "act" /\ p.at # "rest" => p.room \in RoomIds
  /\ p.at \notin {"inside", "counting"} => ~p.locked
  /\ p.at \notin Scanning => p.shard = 0
  /\ p.at \in {"registering", "opening"} \cup InRoom => p.reg = 0
  /\ p.at \in Scanning => p.shard < p.next
  /\ p.at \in Scanning \cup {"measuring", "turning"} => p.use \in {"list", "stats"}
  /\ p.at \in {"scanning", "measuring"} => p.next \in 1 .. PoolShards
  /\ p.at = "turning" => p.reg < RegShards

\* What brings a task to a place.
WellUsed(t, p) ==
  /\ t \in Watchers => p.use \in {"stats", "act"} /\ (p.use = "act" => p.at = "rest")
  /\ p.use = "stats" => p.at \in Scanning \cup {"measuring", "turning"}

Good(t, p) == p \in Place /\ WellPlaced(p) /\ WellUsed(t, p)

RoomsOK ==
  /\ pools \subseteq Apps
  /\ listed \in [RoomIds -> Apps \cup {Nothing, Removed}]
  /\ seats \in [RoomIds -> SUBSET Conns]
  /\ sess \in [Conns -> [app : Apps, room : RoomIds] \cup {Nothing}]

TasksOK == task \in [Tasks -> Place] /\ \A t \in Tasks : Good(t, task[t])

QuotaOK == quota \in 0 .. MaxRequests

\* The inductive invariant.
IInv == ConfigOK /\ RoomsOK /\ TasksOK /\ QuotaOK

-----------------------------------------------------------------------------
(* The places that steps lead to.                                          *)

USE ShardsAssumption, NothingAssumption, MaxRequestsAssumption, WatchersAssumption

LEMMA RestIsGood == \A t : Good(t, Rest)
BY DEF Good, Place, Rest, WellPlaced, WellUsed, Places, Waiting, Uses, Settings, InRoom, Looking,
       Loading, Scanning

LEMMA GoesToGood ==
  ASSUME TasksOK, NEW t \in Tasks, NEW q, Good(t, q), GoesTo(t, q)
  PROVE  TasksOK'
BY DEF TasksOK, GoesTo, Good, WellPlaced, WellUsed, Place

LEMMA LoadedIsGood ==
  ASSUME NEW t, NEW p, Good(t, p), p.at \in Loading, NEW s \in Settings \cup {Unset}
  PROVE  /\ Loaded(p, s).at = "creating" =>
              \A r \in RoomIds : Good(t, [Loaded(p, s) EXCEPT !.room = r])
         /\ Loaded(p, s).at # "creating" => Good(t, Loaded(p, s))
<1> USE DEF Good
<1>1. ASSUME p.reg # 0, NEW r \in RoomIds
      PROVE  /\ Loaded(p, s).at = "creating"
             /\ Good(t, [Loaded(p, s) EXCEPT !.room = r])
  <2> DEFINE q == [p EXCEPT !.at = "creating", !.settings = s, !.room = r]
  <2>1. q \in Place
    BY DEF Place, Places, Waiting
  <2>2. WellPlaced(q)
    BY <1>1 DEF WellPlaced, Place, InRoom, Looking, Loading, Scanning
  <2>3. WellUsed(t, q)
    BY <1>1 DEF WellUsed, Place, Loading, Scanning
  <2>4. /\ Loaded(p, s).at = "creating"
        /\ [Loaded(p, s) EXCEPT !.room = r] = q
    BY <1>1 DEF Loaded, Place
  <2> QED
    BY <2>1, <2>2, <2>3, <2>4
<1>2. ASSUME p.reg = 0
      PROVE  Loaded(p, s).at # "creating" /\ Good(t, Loaded(p, s))
  <2> DEFINE place == IF p.use = "list" THEN "opening" ELSE "registering"
  <2> DEFINE q == [p EXCEPT !.at = place, !.settings = Unset]
  <2>1. q \in Place
    BY DEF Place, Places, Waiting
  <2>2. WellPlaced(q)
    BY <1>2 DEF WellPlaced, Place, InRoom, Looking, Loading, Scanning
  <2>3. WellUsed(t, q)
    BY <1>2 DEF WellUsed, Place, Loading, Scanning
  <2>4. Loaded(p, s) = q /\ q.at # "creating"
    BY <1>2 DEF Loaded, Place
  <2> QED
    BY <2>1, <2>2, <2>3, <2>4
<1>3. p.reg # 0 => Loaded(p, s).at = "creating"
  BY DEF Loaded, Place
<1> QED
  BY <1>1, <1>2, <1>3

LEMMA DrawingGoes ==
  ASSUME IInv, NEW t \in Tasks, NEW p, Good(t, p), p.at \in Loading,
         NEW s \in Settings \cup {Unset},
         Drawing(t, Loaded(p, s))
  PROVE  TasksOK'
<1>1. CASE Loaded(p, s).at = "creating"
  <2>1. PICK r \in RoomIds : GoesTo(t, [Loaded(p, s) EXCEPT !.room = r])
    BY <1>1 DEF Drawing
  <2>2. Good(t, [Loaded(p, s) EXCEPT !.room = r])
    BY <1>1, LoadedIsGood
  <2> QED
    BY <2>1, <2>2, GoesToGood DEF IInv
<1>2. CASE Loaded(p, s).at # "creating"
  BY <1>2, LoadedIsGood, GoesToGood DEF Drawing, IInv
<1> QED
  BY <1>1, <1>2

LEMMA ShardNumbers ==
  /\ 0 \in 0 .. PoolShards /\ 0 \in 0 .. RegShards
  /\ 0 \in 0 .. PoolShards + 1 /\ 1 \in 0 .. PoolShards + 1 /\ 1 \in 1 .. PoolShards
OBVIOUS

LEMMA VisitingIsGood ==
  ASSUME NEW t, NEW p \in Place, p.app \in Apps, ~p.locked, p.shard < p.next, WellUsed(t, p),
         p.use \in {"list", "stats"}, NEW left \in SUBSET RoomIds, NEW q \in Visiting(p, left)
  PROVE  Good(t, q)
<1>1. CASE left # {}
  <2>1. PICK r \in left : q = [p EXCEPT !.at = "reaching", !.room = r, !.left = left \ {r}]
    BY <1>1 DEF Visiting
  <2>2. q \in Place
    BY <2>1, ShardNumbers DEF Place, Places, Waiting
  <2>3. WellPlaced(q) /\ WellUsed(t, q)
    BY <2>1 DEF Place, WellPlaced, WellUsed, InRoom, Looking, Scanning
  <2> QED
    BY <2>2, <2>3 DEF Good
<1>2. CASE left = {} /\ p.next <= PoolShards
  <2>1. q = [p EXCEPT !.at = "scanning", !.room = Nothing]
    BY <1>2 DEF Visiting
  <2>2. q \in Place
    BY <2>1, ShardNumbers DEF Place, Places, Waiting
  <2>3. WellPlaced(q) /\ WellUsed(t, q)
    BY <1>2, <2>1 DEF Place, WellPlaced, WellUsed, InRoom, Looking, Scanning
  <2> QED
    BY <2>2, <2>3 DEF Good
<1>3. CASE left = {} /\ ~(p.next <= PoolShards) /\ p.use = "list"
  BY <1>3, RestIsGood DEF Visiting
<1>4. CASE left = {} /\ ~(p.next <= PoolShards) /\ p.use # "list"
  <2>1. q = [p EXCEPT !.at = "measuring", !.room = Nothing, !.shard = 0, !.next = 1]
    BY <1>4 DEF Visiting
  <2>2. q \in Place
    BY <2>1, ShardNumbers DEF Place, Places, Waiting
  <2>3. WellPlaced(q) /\ WellUsed(t, q)
    BY <1>4, <2>1 DEF Place, WellPlaced, WellUsed, InRoom, Looking, Scanning
  <2> QED
    BY <2>2, <2>3 DEF Good
<1> QED
  BY <1>1, <1>2, <1>3, <1>4

LEMMA NextAppIsGood ==
  ASSUME NEW t, NEW p \in Place, ~p.locked, p.shard = 0, WellUsed(t, p),
         p.use \in {"list", "stats"},
         NEW apps \in SUBSET Apps, NEW q \in NextApp(p, apps)
  PROVE  Good(t, q)
<1>1. CASE apps # {}
  <2>1. PICK a \in apps : q = [p EXCEPT !.at = "scanning", !.app = a, !.next = 1,
                                        !.apps = apps \ {a}]
    BY <1>1 DEF NextApp
  <2>2. q \in Place
    <3>1. /\ a \in Apps \cup {Nothing} /\ apps \ {a} \in SUBSET Apps
          /\ 1 \in 0 .. PoolShards + 1 /\ "scanning" \in Places
      BY <1>1, ShardNumbers DEF Places, Waiting
    <3> QED
      BY <2>1, <3>1 DEF Place
  <2>3. WellPlaced(q) /\ WellUsed(t, q)
    BY <2>1 DEF Place, WellPlaced, WellUsed, InRoom, Looking, Scanning
  <2> QED
    BY <2>2, <2>3 DEF Good
<1>2. CASE apps = {} /\ p.reg < RegShards
  <2>1. q = [p EXCEPT !.at = "turning", !.app = Nothing, !.next = 0]
    BY <1>2 DEF NextApp
  <2>2. q \in Place
    BY <2>1, ShardNumbers DEF Place, Places, Waiting
  <2>3. WellPlaced(q) /\ WellUsed(t, q)
    BY <1>2, <2>1 DEF Place, WellPlaced, WellUsed, InRoom, Looking, Scanning
  <2> QED
    BY <2>2, <2>3 DEF Good
<1>3. CASE apps = {} /\ ~(p.reg < RegShards)
  BY <1>3, RestIsGood DEF NextApp
<1> QED
  BY <1>1, <1>2, <1>3

LEMMA ConfigStays ==
  ASSUME ConfigOK, ConfigUnchanged
  PROVE  ConfigOK'
BY DEF ConfigOK, ConfigUnchanged

LEMMA RoomsStay ==
  ASSUME RoomsOK, RoomsUnchanged
  PROVE  RoomsOK'
BY DEF RoomsOK, RoomsUnchanged

\* A step that only moves t to another place.
LEMMA MoveKeeps ==
  ASSUME IInv, NEW t \in Tasks, NEW q, Good(t, q), GoesTo(t, q),
         RoomsUnchanged, ConfigUnchanged, UNCHANGED quota
  PROVE  IInv'
<1>1. ConfigOK'
  BY ConfigStays DEF IInv
<1>2. RoomsOK'
  BY RoomsStay DEF IInv
<1>3. TasksOK'
  BY GoesToGood DEF IInv
<1>4. QuotaOK'
  BY DEF IInv, QuotaOK
<1> QED
  BY <1>1, <1>2, <1>3, <1>4 DEF IInv

-----------------------------------------------------------------------------
(* Requests begin.                                                         *)

LEMMA CheckedGoes ==
  ASSUME IInv, NEW t \in Tasks, NEW p, Good(t, p), p.at \in Loading, Checked(t, p)
  PROVE  TasksOK'
<1>1. CASE cache[p.app] # Unset
  <2>1. cache[p.app] \in Settings \cup {Unset}
    BY DEF IInv, ConfigOK, Good, WellPlaced, Loading
  <2> QED
    BY <1>1, <2>1, DrawingGoes DEF Checked
<1>2. CASE cache[p.app] = Unset
  <2> DEFINE q == [p EXCEPT !.at = "loading"]
  <2>1. Good(t, q)
    BY DEF Good, Place, Places, Waiting, Uses, Settings, WellPlaced, WellUsed, InRoom, Looking,
       Loading, Scanning
  <2> QED
    BY <1>2, <2>1, GoesToGood DEF Checked, IInv
<1> QED
  BY <1>1, <1>2

LEMMA NamedIsGood ==
  ASSUME NEW c \in Conns, NEW a \in Apps, NEW p \in Named(a)
  PROVE  /\ p \in Place
         /\ Good(c, [p EXCEPT !.at = "checking"])
<1> DEFINE q == [p EXCEPT !.at = "checking"]
<1>0. Rest \in Place
  BY ShardNumbers DEF Rest, Place, Places, Waiting, Uses, Settings
<1>1. CASE \E r \in RoomIds : p = [Rest EXCEPT !.use = "find", !.app = a, !.room = r]
  <2>1. p \in Place
    <3>1. PICK r \in RoomIds : p = [Rest EXCEPT !.use = "find", !.app = a, !.room = r]
      BY <1>1
    <3>2. PICK use \in Uses, app \in Apps \cup {Nothing}, room \in RoomIds \cup {Nothing} :
            use = "find" /\ app = a /\ room = r
      BY DEF Uses
    <3> QED
      BY <1>0, <3>1, <3>2 DEF Place
  <2>2. q \in Place
    BY <2>1 DEF Place, Places
  <2>3. WellPlaced(q) /\ WellUsed(c, q)
    BY <1>1, WatchersAssumption DEF Rest, WellPlaced, WellUsed, InRoom, Looking, Loading, Scanning
  <2> QED
    BY <2>1, <2>2, <2>3 DEF Good
<1>2. CASE \E use \in {"create", "list"} : p = [Rest EXCEPT !.use = use, !.app = a]
  <2>1. p \in Place
    <3>1. PICK use \in {"create", "list"} : p = [Rest EXCEPT !.use = use, !.app = a]
      BY <1>2
    <3>2. use \in Uses /\ a \in Apps \cup {Nothing}
      BY DEF Uses
    <3> QED
      BY <1>0, <3>1, <3>2 DEF Place
  <2>2. q \in Place
    BY <2>1 DEF Place, Places
  <2>3. WellPlaced(q) /\ WellUsed(c, q)
    BY <1>2, WatchersAssumption DEF Rest, WellPlaced, WellUsed, InRoom, Looking, Loading, Scanning
  <2> QED
    BY <2>1, <2>2, <2>3 DEF Good
<1> QED
  BY <1>1, <1>2 DEF Named

LEMMA BeginNamedKeeps ==
  ASSUME IInv, NEW c \in Conns, BeginNamed(c)
  PROVE  IInv'
<1>1. PICK a \in Apps : \E p \in Named(a) : Checked(c, p)
  BY DEF BeginNamed
<1>2. PICK p \in Named(a) : Checked(c, p)
  BY <1>1
<1> DEFINE q == [p EXCEPT !.at = "checking"]
<1>3. p \in Place /\ Good(c, q)
  BY NamedIsGood
<1>4. q.app = p.app /\ q.at \in Loading
  BY <1>3 DEF Place, Loading
<1>5. Loaded(q, cache[p.app]) = Loaded(p, cache[p.app])
  BY <1>3 DEF Place, Loaded
<1>6. [q EXCEPT !.at = "loading"] = [p EXCEPT !.at = "loading"]
  BY <1>3 DEF Place
<1>7. Checked(c, q)
  BY <1>2, <1>4, <1>5, <1>6 DEF Checked
<1>8. TasksOK'
  BY <1>3, <1>4, <1>7, CheckedGoes DEF Tasks
<1> QED
  BY <1>8, ConfigStays, RoomsStay DEF BeginNamed, IInv, QuotaOK

LEMMA BeginSeatedKeeps ==
  ASSUME IInv, NEW c \in Conns, BeginSeated(c)
  PROVE  IInv'
<1>1. sess[c] \in [app : Apps, room : RoomIds]
  BY DEF BeginSeated, IInv, RoomsOK
<1>2. PICK use \in {"act", "leave"} :
        GoesTo(c, [Rest EXCEPT !.at = "opening", !.use = use,
                               !.app = sess[c].app, !.room = sess[c].room])
  BY DEF BeginSeated
<1>3. Good(c, [Rest EXCEPT !.at = "opening", !.use = use,
                           !.app = sess[c].app, !.room = sess[c].room])
  BY <1>1, ShardNumbers, WatchersAssumption DEF Good, Rest, Place, Places, Waiting, Uses,
     Settings, WellPlaced, WellUsed, InRoom, Looking, Loading, Scanning
<1>4. TasksOK'
  BY <1>2, <1>3, GoesToGood DEF Tasks, IInv
<1>5. RoomsOK'
  BY DEF BeginSeated, IInv, RoomsOK
<1> QED
  BY <1>4, <1>5, ConfigStays DEF BeginSeated, IInv, QuotaOK

LEMMA BeginStatsKeeps ==
  ASSUME IInv, NEW t \in Watchers, BeginStats(t)
  PROVE  IInv'
<1>1. Good(t, [Rest EXCEPT !.at = "turning", !.use = "stats"])
  <2> DEFINE q == [Rest EXCEPT !.at = "turning", !.use = "stats"]
  <2>1. q \in Place
    BY ShardNumbers DEF Rest, Place, Places, Waiting, Uses, Settings
  <2>2. WellPlaced(q)
    BY DEF Rest, WellPlaced, WellUsed, InRoom, Looking, Loading, Scanning
  <2>3. WellUsed(t, q)
    BY DEF Rest, WellPlaced, WellUsed, InRoom, Looking, Loading, Scanning
  <2> QED
    BY <2>1, <2>2, <2>3 DEF Good
<1>2. TasksOK'
  BY <1>1, GoesToGood DEF BeginStats, Tasks, IInv
<1> QED
  BY <1>2, ConfigStays, RoomsStay DEF BeginStats, IInv, QuotaOK

-----------------------------------------------------------------------------
(* Steps of tasks at work.                                                 *)

LEMMA CheckDefaultsKeeps ==
  ASSUME IInv, NEW t \in Tasks, CheckDefaults(t)
  PROVE  IInv'
<1>1. Good(t, task[t]) /\ task[t].at \in Loading
  BY DEF CheckDefaults, IInv, TasksOK, Loading
<1>2. TasksOK'
  BY <1>1, CheckedGoes DEF CheckDefaults
<1> QED
  BY <1>2, ConfigStays, RoomsStay DEF CheckDefaults, IInv, QuotaOK

LEMMA LoadKeeps ==
  ASSUME IInv, NEW t \in Tasks, Load(t)
  PROVE  IInv'
<1> DEFINE p == task[t]
<1>1. Good(t, p) /\ p.at \in Loading /\ p.app \in Apps
  BY DEF Load, IInv, TasksOK, Loading, Good, WellPlaced
<1>2. Found(p.app) \in Settings \cup {Unset} /\ app_fallback(p.app) \in Settings
  BY <1>1 DEF IInv, ConfigOK, Found, app_fallback, Settings
<1>3. TasksOK'
  <2>1. CASE Found(p.app) # Unset
    <3> DEFINE q == [p EXCEPT !.at = "keeping", !.settings = Found(p.app)]
    <3>1. q \in Place
      BY <1>1, <1>2 DEF Good, Place, Places
    <3>2. WellPlaced(q) /\ WellUsed(t, q)
      BY <1>1 DEF Good, Place, WellPlaced, WellUsed, InRoom, Looking, Loading, Scanning
    <3>3. GoesTo(t, q)
      BY <2>1 DEF Load
    <3> QED
      BY <3>1, <3>2, <3>3, GoesToGood DEF Good, IInv
  <2>2. CASE Found(p.app) = Unset /\ p.reg # 0
    BY <1>1, <1>2, <2>2, DrawingGoes DEF Load
  <2>3. CASE Found(p.app) = Unset /\ p.reg = 0
    BY <2>3, RestIsGood, GoesToGood DEF Load, IInv
  <2> QED
    BY <2>1, <2>2, <2>3
<1> QED
  BY <1>3, ConfigStays, RoomsStay DEF Load, IInv, QuotaOK

LEMMA KeepKeeps ==
  ASSUME IInv, NEW t \in Tasks, Keep(t)
  PROVE  IInv'
<1> DEFINE p == task[t]
<1>1. Good(t, p) /\ p.at \in Loading /\ p.app \in Apps /\ p.settings \in Settings \cup {Unset}
  BY DEF Keep, IInv, TasksOK, Loading, Good, WellPlaced, Place
<1>2. TasksOK'
  BY <1>1, DrawingGoes DEF Keep
<1>3. ConfigOK'
  BY <1>1 DEF Keep, Remember, IInv, ConfigOK
<1> QED
  BY <1>2, <1>3, RoomsStay DEF Keep, IInv, QuotaOK

LEMMA RegisterKeeps ==
  ASSUME IInv, NEW t \in Tasks, Register(t)
  PROVE  IInv'
<1> DEFINE p == task[t]
<1>1. Good(t, p) /\ p.app \in Apps
  BY DEF Register, IInv, TasksOK, Good, WellPlaced
<1> DEFINE q == [p EXCEPT !.at = "opening"]
<1>2. q \in Place
  BY <1>1 DEF Good, Place, Places, Waiting
<1>3. WellPlaced(q) /\ WellUsed(t, q)
  BY <1>1 DEF Register, Good, Place, WellPlaced, WellUsed, InRoom, Looking, Loading, Scanning
<1>4. TasksOK'
  BY <1>2, <1>3, GoesToGood DEF Register, IInv, Good
<1>5. RoomsOK'
  BY <1>1 DEF Register, IInv, RoomsOK
<1> QED
  BY <1>4, <1>5, ConfigStays DEF Register, IInv, QuotaOK

LEMMA OpenKeeps ==
  ASSUME IInv, NEW t \in Tasks, Open(t)
  PROVE  IInv'
<1> DEFINE p == task[t]
           open == [p EXCEPT !.reg = RegShardOf[p.app]]
<1>1. /\ Good(t, p) /\ p.app \in Apps
      /\ p.at = "opening"
  BY DEF Open, IInv, TasksOK, Good, WellPlaced
<1>2. open \in Place
  BY <1>1 DEF Good, Place
<1>3. RoomsUnchanged /\ ConfigUnchanged /\ UNCHANGED quota
  BY DEF Open
<1>4. CASE p.use \in {"find", "act", "leave"}
  <2> DEFINE q == [open EXCEPT !.at = "finding"]
  <2>1. q \in Place
    BY <1>2 DEF Place, Places, Waiting
  <2>2. WellPlaced(q) /\ WellUsed(t, q)
    BY <1>1, <1>4 DEF Good, Place, WellPlaced, WellUsed, InRoom, Looking, Loading, Scanning
  <2>3. GoesTo(t, q)
    BY <1>4 DEF Open
  <2> QED
    BY <1>3, <2>1, <2>2, <2>3, MoveKeeps DEF Good
<1>5. CASE p.use = "create"
  <2> DEFINE q == [open EXCEPT !.at = "checking"]
  <2>1. q \in Place
    BY <1>2 DEF Place, Places, Waiting
  <2>2. WellPlaced(q) /\ WellUsed(t, q)
    BY <1>1, <1>5 DEF Good, Place, WellPlaced, WellUsed, InRoom, Looking, Loading, Scanning
  <2>3. GoesTo(t, q)
    BY <1>5 DEF Open
  <2> QED
    BY <1>3, <2>1, <2>2, <2>3, MoveKeeps DEF Good
<1>6. CASE p.use = "clean"
  <2> DEFINE q == [open EXCEPT !.at = "removing"]
  <2>1. q \in Place
    BY <1>2 DEF Place, Places, Waiting
  <2>2. WellPlaced(q) /\ WellUsed(t, q)
    BY <1>1, <1>6 DEF Good, Place, WellPlaced, WellUsed, InRoom, Looking, Loading, Scanning
  <2>3. GoesTo(t, q)
    BY <1>6 DEF Open
  <2> QED
    BY <1>3, <2>1, <2>2, <2>3, MoveKeeps DEF Good
<1>7. CASE p.use = "list" /\ p.app \in pools
  <2> DEFINE q == [open EXCEPT !.at = "scanning", !.next = 1]
  <2>1. q \in Place
    BY <1>2, ShardNumbers DEF Place, Places, Waiting
  <2>2. WellPlaced(q) /\ WellUsed(t, q)
    BY <1>1, <1>7 DEF Good, Place, WellPlaced, WellUsed, InRoom, Looking, Loading, Scanning
  <2>3. GoesTo(t, q)
    BY <1>7 DEF Open
  <2> QED
    BY <1>3, <2>1, <2>2, <2>3, MoveKeeps DEF Good
<1>8. CASE p.use = "list" /\ p.app \notin pools
  BY <1>3, <1>8, RestIsGood, MoveKeeps DEF Open
<1>9. p.use \in {"find", "create", "list", "act", "leave", "clean"}
  BY <1>1 DEF Good, Place, WellUsed, Scanning, Uses
<1> QED
  BY <1>4, <1>5, <1>6, <1>7, <1>8, <1>9

LEMMA HoldingIsGood ==
  ASSUME NEW t, NEW p, Good(t, p), p.at \in {"finding", "creating"}
  PROVE  Good(t, Holding(p))
<1> DEFINE q == [p EXCEPT !.at = "entering", !.reg = 0, !.settings = Unset]
<1>1. q \in Place
  BY ShardNumbers DEF Good, Place, Places, Waiting
<1>2. WellPlaced(q) /\ WellUsed(t, q)
  BY DEF Good, Place, WellPlaced, WellUsed, InRoom, Looking, Loading, Scanning
<1> QED
  BY <1>1, <1>2 DEF Good, Holding

LEMMA FindKeeps ==
  ASSUME IInv, NEW t \in Tasks, Find(t)
  PROVE  IInv'
<1>1. Good(t, task[t]) /\ Good(t, Holding(task[t]))
  BY HoldingIsGood DEF Find, IInv, TasksOK
<1> QED
  BY <1>1, RestIsGood, MoveKeeps DEF Find

LEMMA CreateKeeps ==
  ASSUME IInv, NEW t \in Tasks, Create(t)
  PROVE  IInv'
<1>1. Good(t, task[t]) /\ Good(t, Holding(task[t]))
  BY HoldingIsGood DEF Create, IInv, TasksOK
<1>2. TasksOK'
  BY <1>1, GoesToGood DEF Create, IInv
<1>3. task[t].app \in Apps /\ task[t].room \in RoomIds
  BY <1>1 DEF Create, Good, WellPlaced, Looking
<1>4. RoomsOK'
  BY <1>3 DEF Create, IInv, RoomsOK
<1> QED
  BY <1>2, <1>4, ConfigStays DEF Create, IInv, QuotaOK

LEMMA CollideKeeps ==
  ASSUME IInv, NEW t \in Tasks, Collide(t)
  PROVE  IInv'
<1> DEFINE p == task[t]
<1>1. Good(t, p) /\ p.at = "creating"
  BY DEF Collide, IInv, TasksOK
<1>2. ASSUME NEW r \in RoomIds
      PROVE  Good(t, [p EXCEPT !.room = r])
  <2> DEFINE q == [p EXCEPT !.room = r]
  <2>1. q \in Place
    BY <1>1 DEF Good, Place
  <2>2. WellPlaced(q) /\ WellUsed(t, q)
    BY <1>1 DEF Good, Place, WellPlaced, WellUsed, InRoom, Looking, Loading, Scanning
  <2> QED
    BY <2>1, <2>2 DEF Good
<1> QED
  BY <1>2, RestIsGood, MoveKeeps DEF Collide

LEMMA EnterKeeps ==
  ASSUME IInv, NEW t \in Tasks, Enter(t)
  PROVE  IInv'
<1> DEFINE q == [task[t] EXCEPT !.at = "inside", !.locked = TRUE]
<1>1. Good(t, task[t]) /\ task[t].at = "entering"
  BY DEF Enter, IInv, TasksOK
<1>2. q \in Place
  BY <1>1 DEF Good, Place, Places
<1>3. WellPlaced(q) /\ WellUsed(t, q)
  BY <1>1 DEF Good, Place, WellPlaced, WellUsed, InRoom, Looking, Loading, Scanning
<1> QED
  BY <1>2, <1>3, MoveKeeps DEF Enter, Good

LEMMA SitKeeps ==
  ASSUME IInv, NEW t \in Tasks, Sit(t)
  PROVE  IInv'
<1>1. Good(t, task[t]) /\ t \in Conns
  BY DEF Sit, IInv, TasksOK, Tasks, Good, WellUsed
<1>2. task[t].app \in Apps /\ task[t].room \in RoomIds
  BY <1>1 DEF Sit, Good, WellPlaced, InRoom
<1>3. TasksOK'
  BY RestIsGood, GoesToGood DEF Sit, IInv
<1>4. RoomsOK'
  BY <1>1, <1>2 DEF Sit, IInv, RoomsOK
<1> QED
  BY <1>3, <1>4, ConfigStays DEF Sit, IInv, QuotaOK

LEMMA VacateKeeps ==
  ASSUME IInv, NEW t \in Tasks, Vacate(t)
  PROVE  IInv'
<1> DEFINE p == task[t]
           q == [p EXCEPT !.at = "opening", !.use = "clean", !.locked = FALSE]
<1>1. Good(t, p) /\ p.at = "inside" /\ p.use = "leave"
  BY DEF Vacate, IInv, TasksOK
<1>2. q \in Place
  BY <1>1 DEF Good, Place, Places, Waiting, Uses
<1>3. WellPlaced(q) /\ WellUsed(t, q)
  BY <1>1 DEF Good, Place, WellPlaced, WellUsed, InRoom, Looking, Loading, Scanning
<1>4. GoesTo(t, q) \/ GoesTo(t, Rest)
  BY DEF Vacate
<1>5. TasksOK'
  BY <1>2, <1>3, <1>4, RestIsGood, GoesToGood DEF IInv, Good
<1>6. RoomsOK'
  BY <1>1 DEF Vacate, IInv, RoomsOK, Good, WellPlaced, InRoom
<1> QED
  BY <1>5, <1>6, ConfigStays DEF Vacate, IInv, QuotaOK

LEMMA RemoveKeeps ==
  ASSUME IInv, NEW t \in Tasks, Remove(t)
  PROVE  IInv'
<1>1. TasksOK'
  BY RestIsGood, GoesToGood DEF Remove, IInv
<1>2. RoomsOK'
  BY DEF Remove, IInv, RoomsOK
<1> QED
  BY <1>1, <1>2, ConfigStays DEF Remove, IInv, QuotaOK

-----------------------------------------------------------------------------
(* Scans.                                                                  *)

LEMMA TurnPageKeeps ==
  ASSUME IInv, NEW t \in Tasks, TurnPage(t)
  PROVE  IInv'
<1> DEFINE p == task[t]
           next == [p EXCEPT !.shard = p.next, !.next = p.next + 1]
<1>1. Good(t, p) /\ p.at = "scanning"
  BY DEF TurnPage, IInv, TasksOK
<1>2. p.next \in 1 .. PoolShards /\ p.app \in Apps /\ ~p.locked /\ p.use \in {"list", "stats"}
  BY <1>1 DEF Good, WellPlaced, Scanning
<1>3. p.next \in 0 .. PoolShards /\ p.next + 1 \in 0 .. PoolShards + 1 /\ p.next < p.next + 1
  BY <1>2
<1>4. next \in Place
  BY <1>1, <1>3 DEF Good, Place
<1>5. /\ next.app \in Apps /\ ~next.locked /\ next.shard < next.next
      /\ next.use \in {"list", "stats"} /\ WellUsed(t, next)
  BY <1>1, <1>2, <1>3 DEF Good, Place, WellUsed
<1>6. PICK q \in Visiting(next, RoomsIn(p.app, p.next)) : GoesTo(t, q)
  BY DEF TurnPage
<1>7. RoomsIn(p.app, p.next) \in SUBSET RoomIds
  BY DEF RoomsIn
<1> HIDE DEF next
<1>8. Good(t, q)
  BY <1>4, <1>5, <1>6, <1>7, VisitingIsGood
<1> QED
  BY <1>6, <1>8, MoveKeeps DEF TurnPage

LEMMA ReachKeeps ==
  ASSUME IInv, NEW t \in Tasks, Reach(t)
  PROVE  IInv'
<1> DEFINE q == [task[t] EXCEPT !.at = "counting", !.locked = TRUE]
<1>1. Good(t, task[t]) /\ task[t].at = "reaching"
  BY DEF Reach, IInv, TasksOK
<1>2. q \in Place
  BY <1>1 DEF Good, Place, Places
<1>3. WellPlaced(q) /\ WellUsed(t, q)
  BY <1>1 DEF Good, Place, WellPlaced, WellUsed, InRoom, Looking, Loading, Scanning
<1> QED
  BY <1>2, <1>3, MoveKeeps DEF Reach, Good

LEMMA CountKeeps ==
  ASSUME IInv, NEW t \in Tasks, Count(t)
  PROVE  IInv'
<1> DEFINE p == task[t]
           free == [p EXCEPT !.locked = FALSE]
<1>1. Good(t, p) /\ p.at = "counting"
  BY DEF Count, IInv, TasksOK
<1>2. free \in Place /\ p.left \in SUBSET RoomIds
  BY <1>1 DEF Good, Place
<1>3. /\ free.app \in Apps /\ ~free.locked /\ free.shard < free.next
      /\ free.use \in {"list", "stats"} /\ WellUsed(t, free)
  BY <1>1 DEF Good, Place, WellUsed, WellPlaced, Scanning
<1>4. PICK q \in Visiting(free, p.left) : GoesTo(t, q)
  BY DEF Count
<1> HIDE DEF free
<1>5. Good(t, q)
  BY <1>2, <1>3, <1>4, VisitingIsGood
<1> QED
  BY <1>4, <1>5, MoveKeeps DEF Count

LEMMA MeasureKeeps ==
  ASSUME IInv, NEW t \in Tasks, Measure(t)
  PROVE  IInv'
<1> DEFINE p == task[t]
<1>1. Good(t, p) /\ p.at = "measuring"
  BY DEF Measure, IInv, TasksOK
<1>2. RoomsUnchanged /\ ConfigUnchanged /\ UNCHANGED quota
  BY DEF Measure
<1>3. CASE p.next < PoolShards
  <2> DEFINE q == [p EXCEPT !.next = p.next + 1]
  <2>1. p.next \in 1 .. PoolShards
    BY <1>1 DEF Good, WellPlaced
  <2>2. p.next + 1 \in 1 .. PoolShards /\ p.next + 1 \in 0 .. PoolShards + 1
    BY <1>3, <2>1
  <2>3. q \in Place
    BY <1>1, <2>2 DEF Good, Place
  <2>4. WellPlaced(q) /\ WellUsed(t, q)
    BY <1>1, <2>2 DEF Good, Place, WellPlaced, WellUsed, InRoom, Looking, Loading, Scanning
  <2> QED
    BY <1>2, <1>3, <2>3, <2>4, MoveKeeps DEF Measure, Good
<1>4. CASE ~(p.next < PoolShards)
  <2>1. PICK q \in NextApp(p, p.apps) : GoesTo(t, q)
    BY <1>4 DEF Measure
  <2>2. /\ p \in Place /\ p.apps \in SUBSET Apps /\ ~p.locked /\ p.shard = 0
        /\ p.use \in {"list", "stats"} /\ WellUsed(t, p)
    BY <1>1 DEF Good, Place, WellPlaced, Scanning
  <2>3. Good(t, q)
    BY <2>1, <2>2, NextAppIsGood
  <2> QED
    BY <1>2, <2>1, <2>3, MoveKeeps
<1> QED
  BY <1>3, <1>4

LEMMA TurnKeeps ==
  ASSUME IInv, NEW t \in Tasks, Turn(t)
  PROVE  IInv'
<1> DEFINE p == task[t]
           next == [p EXCEPT !.reg = p.reg + 1]
           apps == {a \in pools : RegShardOf[a] = p.reg + 1}
<1>1. Good(t, p) /\ p.at = "turning"
  BY DEF Turn, IInv, TasksOK
<1>2. p.reg + 1 \in 0 .. RegShards
  BY <1>1 DEF Good, Place, WellPlaced
<1>3. next \in Place
  BY <1>1, <1>2 DEF Good, Place
<1>4. /\ ~next.locked /\ next.shard = 0
      /\ next.use \in {"list", "stats"} /\ WellUsed(t, next)
  BY <1>1 DEF Good, Place, WellUsed, WellPlaced, Scanning
<1>5. PICK q \in NextApp(next, apps) : GoesTo(t, q)
  BY DEF Turn
<1>6. apps \in SUBSET Apps
  BY DEF IInv, RoomsOK
<1> HIDE DEF next, apps
<1>7. Good(t, q)
  BY <1>3, <1>4, <1>5, <1>6, NextAppIsGood
<1> QED
  BY <1>5, <1>7, MoveKeeps DEF Turn

-----------------------------------------------------------------------------
(* The invariant.                                                          *)

LEMMA EditKeeps ==
  ASSUME IInv, Edit
  PROVE  IInv'
<1>1. ConfigOK'
  BY EditsAssumption DEF Edit, EditFile, IInv, ConfigOK
<1>2. TasksOK'
  BY DEF Edit, IInv, TasksOK, Good, WellPlaced, WellUsed, Place
<1> QED
  BY <1>1, <1>2, RoomsStay DEF Edit, IInv, QuotaOK

LEMMA StandingKeeps ==
  ASSUME IInv, UNCHANGED vars
  PROVE  IInv'
BY DEF vars, IInv, ConfigOK, RoomsOK, TasksOK, QuotaOK

LEMMA WorkKeeps ==
  ASSUME IInv, NEW t \in Tasks, Work(t)
  PROVE  IInv'
<1>1. CASE LoadStep(t)
  BY <1>1, CheckDefaultsKeeps, LoadKeeps, KeepKeeps DEF LoadStep
<1>2. CASE RoomStep(t)
  <2>1. CASE Act(t)
    BY <2>1, RestIsGood, MoveKeeps DEF Act
  <2> QED
    BY <1>2, <2>1, RegisterKeeps, OpenKeeps, FindKeeps, CreateKeeps, CollideKeeps, EnterKeeps,
       SitKeeps, VacateKeeps, RemoveKeeps DEF RoomStep
<1>3. CASE ScanStep(t)
  BY <1>3, TurnPageKeeps, ReachKeeps, CountKeeps, MeasureKeeps, TurnKeeps DEF ScanStep
<1> QED
  BY <1>1, <1>2, <1>3 DEF Work

LEMMA InitHasInvariant == Init => IInv
<1> SUFFICES ASSUME Init PROVE IInv
  OBVIOUS
<1>1. ConfigOK
  BY EditsAssumption DEF Init, ConfigInit, ConfigOK
<1>2. RoomsOK
  BY DEF Init, RoomsOK
<1>3. TasksOK
  BY RestIsGood DEF Init, TasksOK, Good
<1> QED
  BY <1>1, <1>2, <1>3 DEF Init, IInv, QuotaOK

LEMMA NextKeepsInvariant == IInv /\ [Next]_vars => IInv'
<1> SUFFICES ASSUME IInv, [Next]_vars PROVE IInv'
  OBVIOUS
<1>1. CASE Begin
  BY <1>1, BeginNamedKeeps, BeginSeatedKeeps, BeginStatsKeeps DEF Begin
<1>2. CASE \E t \in Tasks : Work(t)
  BY <1>2, WorkKeeps
<1>3. CASE Edit
  BY <1>3, EditKeeps
<1>4. CASE UNCHANGED vars
  BY <1>4, StandingKeeps
<1> QED
  BY <1>1, <1>2, <1>3, <1>4 DEF Next, Terminated

\* In every reachable state each task has only guards that its place allows, whatever the
\* requests, and whoever is asked for a guard first.
THEOREM LockingInvariance == Spec => []IInv
<1> USE InitHasInvariant, NextKeepsInvariant
<1> QED
  BY PTL DEF Spec

\* Every variable keeps to its type.
THEOREM TypeCorrectness == Spec => []TypeOK
<1>1. IInv => TypeOK
  <2> SUFFICES ASSUME IInv PROVE TypeOK
    OBVIOUS
  <2>1. task \in [Tasks -> Place]
    BY DEF IInv, TasksOK, Good, TypeOK
  <2> QED
    BY <2>1 DEF IInv, RoomsOK, QuotaOK, TypeOK
<1> QED
  BY <1>1, LockingInvariance, PTL

-----------------------------------------------------------------------------
(* Nobody waits for each other.                                            *)

Top == RegShards + PoolShards + 1

Rank(lock) ==
  CASE lock.tier = 1 -> lock.key
    [] lock.tier = 2 -> RegShards + lock.key
    [] lock.tier = 3 -> Top

\* How high up t waits; a writer above the readers of the same lock.
Height(t) == 2 * Rank(Wants(t).lock) + (IF Wants(t).write THEN 1 ELSE 0)

LEMMA GuardParts == \A lock, write : /\ Guard(lock, write).lock = lock
                                     /\ Guard(lock, write).write = write
BY DEF Guard

LEMMA Ranks ==
  /\ \A i : Rank(RegLock(i)) = i
  /\ \A a, i : Rank(PoolLock(a, i)) = RegShards + i
  /\ \A r : Rank(RoomLock(r)) = Top
BY DEF Rank, RegLock, PoolLock, RoomLock

\* What is asked for, place by place.
LEMMA WantsAre ==
  ASSUME NEW t
  PROVE  /\ task[t].at \in {"registering", "opening"} =>
              \E w \in BOOLEAN : Wants(t) = Guard(RegLock(RegShardOf[task[t].app]), w)
         /\ task[t].at = "turning" => Wants(t) = Guard(RegLock(task[t].reg + 1), FALSE)
         /\ task[t].at \in Looking =>
              \E w \in BOOLEAN :
                Wants(t) = Guard(PoolLock(task[t].app, ShardOf[task[t].room]), w)
         /\ task[t].at \in {"scanning", "measuring"} =>
              Wants(t) = Guard(PoolLock(task[t].app, task[t].next), FALSE)
         /\ task[t].at \in {"entering", "reaching"} =>
              Wants(t) = Guard(RoomLock(task[t].room), TRUE)
BY DEF Wants, Looking

\* The guard asked for is of a higher rank than those kept.
LEMMA WantsAbove ==
  ASSUME IInv, NEW t \in Tasks, task[t].at \in Waiting
  PROVE  /\ Rank(Wants(t).lock) \in 1 .. Top
         /\ Wants(t).write \in BOOLEAN
         /\ \A g \in Holds(t) : Rank(g.lock) < Rank(Wants(t).lock)
<1> DEFINE p == task[t]
<1>1. p \in Place /\ WellPlaced(p)
  BY DEF IInv, TasksOK, Good
<1>2. /\ p.reg \in 0 .. RegShards /\ p.shard \in 0 .. PoolShards
      /\ p.at \in Waiting
  BY <1>1 DEF Place
<1>3. ~p.locked
  BY <1>1, <1>2 DEF WellPlaced, Waiting
<1>4. \A g \in Holds(t) : \/ p.reg # 0 /\ Rank(g.lock) = p.reg
                          \/ p.shard # 0 /\ Rank(g.lock) = RegShards + p.shard
  <2>1. \A g \in Holds(t) : \/ p.reg # 0 /\ g = Guard(RegLock(p.reg), FALSE)
                            \/ p.shard # 0 /\ g = Guard(PoolLock(p.app, p.shard), FALSE)
    BY <1>3 DEF Holds
  <2>2. Rank(Guard(RegLock(p.reg), FALSE).lock) = p.reg
    BY Ranks DEF Guard
  <2>3. Rank(Guard(PoolLock(p.app, p.shard), FALSE).lock) = RegShards + p.shard
    BY Ranks DEF Guard
  <2> QED
    BY <2>1, <2>2, <2>3
<1>5. CASE p.at \in {"registering", "opening"}
  <2>1. p.reg = 0 /\ p.shard = 0 /\ RegShardOf[p.app] \in 1 .. RegShards
    BY <1>1, <1>5 DEF WellPlaced, Scanning
  <2>2. PICK w \in BOOLEAN : Wants(t) = Guard(RegLock(RegShardOf[p.app]), w)
    BY <1>5, WantsAre
  <2>3. Rank(Wants(t).lock) = RegShardOf[p.app] /\ Wants(t).write \in BOOLEAN
    BY <2>2, GuardParts, Ranks
  <2> QED
    BY <1>4, <2>1, <2>3 DEF Top
<1>6. CASE p.at = "turning"
  <2>1. p.reg < RegShards /\ p.shard = 0
    BY <1>1, <1>6 DEF WellPlaced, Scanning
  <2>2. PICK w \in BOOLEAN : Wants(t) = Guard(RegLock(p.reg + 1), w)
    BY <1>6, WantsAre
  <2>3. Rank(Wants(t).lock) = p.reg + 1 /\ Wants(t).write \in BOOLEAN
    BY <2>2, GuardParts, Ranks
  <2> QED
    BY <1>2, <1>4, <2>1, <2>3 DEF Top
<1>7. CASE p.at \in Looking
  <2>1. p.shard = 0 /\ ShardOf[p.room] \in 1 .. PoolShards
    BY <1>1, <1>7 DEF WellPlaced, Scanning, Looking
  <2>2. PICK w \in BOOLEAN : Wants(t) = Guard(PoolLock(p.app, ShardOf[p.room]), w)
    BY <1>7, WantsAre
  <2>3. Rank(Wants(t).lock) = RegShards + ShardOf[p.room] /\ Wants(t).write \in BOOLEAN
    BY <2>2, GuardParts, Ranks
  <2> QED
    BY <1>2, <1>4, <2>1, <2>3 DEF Top
<1>8. CASE p.at \in {"scanning", "measuring"}
  <2>1. p.next \in 1 .. PoolShards /\ (p.shard # 0 => p.shard < p.next)
    BY <1>1, <1>8 DEF WellPlaced, Scanning
  <2>2. PICK w \in BOOLEAN : Wants(t) = Guard(PoolLock(p.app, p.next), w)
    BY <1>8, WantsAre
  <2>3. Rank(Wants(t).lock) = RegShards + p.next /\ Wants(t).write \in BOOLEAN
    BY <2>2, GuardParts, Ranks
  <2> QED
    BY <1>2, <1>4, <2>1, <2>3 DEF Top
<1>9. CASE p.at \in {"entering", "reaching"}
  <2>1. PICK w \in BOOLEAN : Wants(t) = Guard(RoomLock(p.room), w)
    BY <1>9, WantsAre
  <2>2. Rank(Wants(t).lock) = Top /\ Wants(t).write \in BOOLEAN
    BY <2>1, GuardParts, Ranks
  <2> QED
    BY <1>2, <1>4, <2>2 DEF Top
<1> QED
  BY <1>2, <1>5, <1>6, <1>7, <1>8, <1>9 DEF Waiting, Looking

LEMMA HeightBounded ==
  ASSUME IInv, NEW t \in Tasks, task[t].at \in Waiting
  PROVE  Height(t) \in 0 .. 2 * Top + 1
BY WantsAbove DEF Height, Top

\* Whoever is waited for and waits, waits higher up.
LEMMA WaitsUpwards ==
  ASSUME IInv, NEW s \in Tasks, NEW t \in Tasks, WaitsFor(s, t), task[t].at \in Waiting
  PROVE  Height(s) < Height(t)
<1> DEFINE a == Rank(Wants(s).lock)
           b == Rank(Wants(t).lock)
<1>1. /\ a \in 1 .. Top /\ Wants(s).write \in BOOLEAN
      /\ b \in 1 .. Top /\ Wants(t).write \in BOOLEAN
  BY WantsAbove DEF WaitsFor
<1>2. CASE \E g \in Holds(t) : Excludes(g, Wants(s))
  <2>1. a < b
    BY <1>2, WantsAbove DEF Excludes
  <2> QED
    BY <1>1, <2>1 DEF Height, Top
<1>3. CASE Wants(t).lock = Wants(s).lock /\ Wants(t).write /\ ~Wants(s).write
  <2>1. a = b
    BY <1>3
  <2> HIDE DEF a, b
  <2>2. Height(s) = 2 * a /\ Height(t) = 2 * b + 1
    BY <1>1, <1>3 DEF Height, a, b
  <2> QED
    BY <1>1, <2>1, <2>2 DEF Top
<1> QED
  BY <1>2, <1>3 DEF WaitsFor

\* Handlers, clean-ups, lists and statistics never wait for each other in a circle, in a
\* group of any size: no order of requests stops the server for good.
THEOREM NobodyWaitsInACircle == Spec => []NoWaitCycle
<1>1. IInv => NoWaitCycle
  <2> SUFFICES ASSUME IInv, NEW group \in (SUBSET Tasks) \ {{}},
                      \A s \in group : \E t \in group : WaitsFor(s, t)
               PROVE  FALSE
    BY DEF NoWaitCycle
  <2> DEFINE Below(t) == 2 * Top + 1 - Height(t)
             depths == {Below(t) : t \in group}
  <2>1. \A t \in group : t \in Tasks /\ task[t].at \in Waiting
    BY DEF WaitsFor
  <2>2. \A t \in group : Height(t) \in 0 .. 2 * Top + 1
    BY <2>1, HeightBounded
  <2>3. depths \in SUBSET Nat /\ depths # {}
    BY <2>2 DEF Top
  <2> DEFINE less == {pair \in Nat \X Nat : pair[1] < pair[2]}
  <2>n. IsWellFoundedOn(less, Nat)
    BY NatLessThanWellFounded DEF OpToRel
  <2> HIDE DEF depths, less
  <2>4. PICK d \in depths : \A e \in depths : <<e, d>> \notin less
    BY <2>3, <2>n, WFMin
  <2>5. PICK s \in group : d = Below(s)
    BY DEF depths
  <2>6. PICK t \in group : WaitsFor(s, t)
    OBVIOUS
  <2>7. Height(s) < Height(t)
    BY <2>1, <2>6, WaitsUpwards
  <2>8. Below(t) \in Nat /\ Below(s) \in Nat /\ Below(t) < Below(s)
    BY <2>2, <2>7 DEF Top
  <2>9. <<Below(t), Below(s)>> \in less /\ Below(t) \in depths
    BY <2>8 DEF less, depths
  <2> QED
    BY <2>4, <2>5, <2>9
<1> QED
  BY <1>1, LockingInvariance, PTL

-----------------------------------------------------------------------------
(* Default settings.                                                       *)

\* What a task at place p knows of the app it is on the way to.
Sure(p) ==
  /\ p.at = "loading" => p.reg = 0
  /\ p.at = "keeping" => p.reg = 0 /\ p.settings \in Given(p.app)
  /\ p.at \in {"checking", "registering"} => cache[p.app] # Unset
  /\ p.at = "opening" /\ p.use = "create" => cache[p.app] # Unset
  /\ p.at = "creating" => p.settings \in Given(p.app)

CacheSure ==
  /\ \A a \in Apps : file[a] # Unset => file[a] \in said[a]
  /\ \A a \in Apps : cache[a] # Unset => cache[a] \in Given(a)
  /\ \A a \in pools : cache[a] # Unset

SureInv == CacheSure /\ \A t \in Tasks : Sure(task[t])

\* Where nothing is said of the app.
Beyond == {"rest", "finding", "removing", "entering", "inside", "scanning", "reaching",
           "counting", "measuring", "turning"}

LEMMA BeyondIsSure ==
  ASSUME NEW q, q.at \in Beyond
  PROVE  Sure(q)
BY DEF Sure, Beyond

LEMMA RestIsRest == Rest.at = "rest"
BY DEF Rest

LEMMA RestIsSure == Sure(Rest)
BY DEF Sure, Rest

LEMMA SureMove ==
  ASSUME IInv, SureInv, NEW t \in Tasks, NEW q, Sure(q), GoesTo(t, q),
         ConfigUnchanged, UNCHANGED pools
  PROVE  SureInv'
BY DEF SureInv, CacheSure, Sure, Given, GoesTo, ConfigUnchanged, IInv, TasksOK

LEMMA VisitingIsBeyond ==
  ASSUME NEW p \in Place, NEW left, NEW q \in Visiting(p, left)
  PROVE  q.at \in {"reaching", "scanning", "measuring", "rest"}
<1>1. CASE left # {}
  <2>1. PICK r \in left : q = [p EXCEPT !.at = "reaching", !.room = r, !.left = left \ {r}]
    BY <1>1 DEF Visiting
  <2> QED
    BY <2>1 DEF Place
<1>2. CASE left = {}
  <2>1. \/ q = [p EXCEPT !.at = "scanning", !.room = Nothing]
        \/ q = Rest
        \/ q = [p EXCEPT !.at = "measuring", !.room = Nothing, !.shard = 0, !.next = 1]
    BY <1>2 DEF Visiting
  <2>2. CASE q = Rest
    BY <2>2, RestIsRest
  <2>3. CASE q = [p EXCEPT !.at = "scanning", !.room = Nothing]
    BY <2>3 DEF Place
  <2>4. CASE q = [p EXCEPT !.at = "measuring", !.room = Nothing, !.shard = 0, !.next = 1]
    BY <2>4 DEF Place
  <2> QED
    BY <2>1, <2>2, <2>3, <2>4
<1> QED
  BY <1>1, <1>2

LEMMA NextAppIsBeyond ==
  ASSUME NEW p \in Place, NEW apps, NEW q \in NextApp(p, apps)
  PROVE  q.at \in {"scanning", "turning", "rest"}
<1>1. CASE apps # {}
  <2>1. PICK a \in apps : q = [p EXCEPT !.at = "scanning", !.app = a, !.next = 1,
                                        !.apps = apps \ {a}]
    BY <1>1 DEF NextApp
  <2> QED
    BY <2>1 DEF Place
<1>2. CASE apps = {}
  <2>1. q = [p EXCEPT !.at = "turning", !.app = Nothing, !.next = 0] \/ q = Rest
    BY <1>2 DEF NextApp
  <2>2. CASE q = Rest
    BY <2>2, RestIsRest
  <2>3. CASE q = [p EXCEPT !.at = "turning", !.app = Nothing, !.next = 0]
    BY <2>3 DEF Place
  <2> QED
    BY <2>1, <2>2, <2>3
<1> QED
  BY <1>1, <1>2

LEMMA UnsetIsNotGiven == \A a \in Apps : Unset \notin Given(a) \/ ~ConfigOK
BY UnsetAssumption DEF Given, ConfigOK, Settings

\* What a load ends in, of settings that were given to the app and are in the cache.
LEMMA DrawingIsSure ==
  ASSUME NEW t \in Tasks, NEW p, NEW s, p \in Place, Drawing(t, Loaded(p, s)),
         task \in [Tasks -> Place]
  PROVE  \E q : /\ GoesTo(t, q)
                /\ q.app = p.app
                /\ \/ q.at = "creating" /\ q.settings = s
                   \/ q.at = "registering"
                   \/ q.at = "opening" /\ q.use = "list"
<1>1. CASE p.reg # 0
  <2>1. Loaded(p, s) = [p EXCEPT !.at = "creating", !.settings = s]
    BY <1>1 DEF Loaded
  <2>2. PICK r \in RoomIds : GoesTo(t, [Loaded(p, s) EXCEPT !.room = r])
    BY <2>1 DEF Drawing, Place
  <2> DEFINE q == [Loaded(p, s) EXCEPT !.room = r]
  <2>3. q.app = p.app /\ q.at = "creating" /\ q.settings = s
    BY <2>1 DEF Place
  <2> QED
    BY <2>2, <2>3
<1>2. CASE p.reg = 0 /\ p.use = "list"
  <2> DEFINE q == [p EXCEPT !.at = "opening", !.settings = Unset]
  <2>1. Loaded(p, s) = q
    BY <1>2 DEF Loaded
  <2>2. q.app = p.app /\ q.at = "opening" /\ q.use = "list"
    BY <1>2 DEF Place
  <2> QED
    BY <2>1, <2>2 DEF Drawing
<1>3. CASE p.reg = 0 /\ p.use # "list"
  <2> DEFINE q == [p EXCEPT !.at = "registering", !.settings = Unset]
  <2>1. Loaded(p, s) = q
    BY <1>3 DEF Loaded
  <2>2. q.app = p.app /\ q.at = "registering"
    BY <1>3 DEF Place
  <2> QED
    BY <2>1, <2>2 DEF Drawing
<1> QED
  BY <1>1, <1>2, <1>3

\* The cache is looked into, by a task that is on its way to a room or wants a list.
LEMMA CheckedIsSure ==
  ASSUME IInv, SureInv, NEW t \in Tasks, NEW p \in Place, p.app \in Apps, Checked(t, p),
         p.reg = 0 \/ cache[p.app] # Unset, ConfigUnchanged, UNCHANGED pools
  PROVE  SureInv'
<1>1. CASE cache[p.app] # Unset
  <2>1. PICK q : /\ GoesTo(t, q)
                 /\ q.app = p.app
                 /\ \/ q.at = "creating" /\ q.settings = cache[p.app]
                    \/ q.at = "registering"
                    \/ q.at = "opening" /\ q.use = "list"
    BY <1>1, DrawingIsSure DEF Checked, IInv, TasksOK
  <2>2. Sure(q)
    BY <1>1, <2>1 DEF Sure, SureInv, CacheSure
  <2> QED
    BY <2>1, <2>2, SureMove
<1>2. CASE cache[p.app] = Unset
  <2> DEFINE q == [p EXCEPT !.at = "loading"]
  <2>1. Sure(q)
    BY <1>2 DEF Sure, Place
  <2> QED
    BY <1>2, <2>1, SureMove DEF Checked
<1> QED
  BY <1>1, <1>2

LEMMA LoadIsSure ==
  ASSUME IInv, SureInv, NEW t \in Tasks, Load(t)
  PROVE  SureInv'
<1> DEFINE p == task[t]
<1>1. p \in Place /\ p.at = "loading" /\ p.app \in Apps /\ p.reg = 0
  BY DEF Load, IInv, TasksOK, Good, WellPlaced, SureInv, Sure
<1>2. CASE Found(p.app) # Unset
  <2> DEFINE q == [p EXCEPT !.at = "keeping", !.settings = Found(p.app)]
  <2>1. GoesTo(t, q) /\ ConfigUnchanged /\ UNCHANGED pools
    BY <1>2 DEF Load, RoomsUnchanged
  <2>2. Found(p.app) \in Given(p.app)
    BY <1>1, <1>2 DEF Found, app_fallback, Given, SureInv, CacheSure
  <2>3. Sure(q)
    BY <1>1, <2>2 DEF Sure, Place
  <2> QED
    BY <2>1, <2>3, SureMove
<1>3. CASE Found(p.app) = Unset
  BY <1>1, <1>3, RestIsSure, SureMove DEF Load, RoomsUnchanged
<1> QED
  BY <1>2, <1>3

LEMMA KeepIsSure ==
  ASSUME IInv, SureInv, NEW t \in Tasks, Keep(t)
  PROVE  SureInv'
<1> DEFINE p == task[t]
<1>1. /\ p \in Place /\ p.at = "keeping" /\ p.app \in Apps /\ p.settings \in Given(p.app)
      /\ task \in [Tasks -> Place]
  BY DEF Keep, IInv, TasksOK, Good, WellPlaced, SureInv, Sure
<1>2. cache' = [cache EXCEPT ![p.app] = p.settings] /\ UNCHANGED <<file, said, pools>>
  BY DEF Keep, Remember, RoomsUnchanged
<1>3. p.settings # Unset
  BY <1>1, UnsetIsNotGiven DEF IInv
<1>4. CacheSure'
  BY <1>1, <1>2, <1>3 DEF SureInv, CacheSure, Given, IInv, ConfigOK
<1>5. \A a \in Apps : cache[a] # Unset => cache'[a] # Unset
  BY <1>2, <1>3 DEF IInv, ConfigOK
<1>6. PICK q : /\ GoesTo(t, q)
               /\ q.app = p.app
               /\ \/ q.at = "creating" /\ q.settings = p.settings
                  \/ q.at = "registering"
                  \/ q.at = "opening" /\ q.use = "list"
  BY <1>1, DrawingIsSure DEF Keep
<1>7. cache'[p.app] # Unset
  BY <1>1, <1>2, <1>3 DEF IInv, ConfigOK
<1>8. Sure(task[t])'
  BY <1>1, <1>2, <1>6, <1>7 DEF Sure, GoesTo, Given
<1>9. ASSUME NEW u \in Tasks, u # t
      PROVE  Sure(task[u])'
  BY <1>1, <1>2, <1>5, <1>6, <1>9 DEF Sure, GoesTo, Given, SureInv, IInv, TasksOK, Good,
     WellPlaced
<1> QED
  BY <1>4, <1>8, <1>9 DEF SureInv

\* A step of t that only moves it, to where nothing is said of the app.
LEMMA BeyondMove ==
  ASSUME IInv, SureInv, NEW t \in Tasks, NEW q, q.at \in Beyond, GoesTo(t, q),
         ConfigUnchanged, UNCHANGED pools
  PROVE  SureInv'
BY BeyondIsSure, SureMove

LEMMA RegisterIsSure ==
  ASSUME IInv, SureInv, NEW t \in Tasks, Register(t)
  PROVE  SureInv'
<1> DEFINE p == task[t]
           q == [p EXCEPT !.at = "opening"]
<1>1. p \in Place /\ cache[p.app] # Unset /\ task \in [Tasks -> Place]
  BY DEF Register, IInv, TasksOK, SureInv, Sure
<1>2. q.at = "opening" /\ q.app = p.app
  BY <1>1 DEF Place
<1>3. CacheSure'
  BY <1>1 DEF Register, ConfigUnchanged, SureInv, CacheSure, Given
<1>4. ASSUME NEW u \in Tasks
      PROVE  Sure(task[u])'
  BY <1>1, <1>2 DEF Register, ConfigUnchanged, GoesTo, Sure, SureInv, Given
<1> QED
  BY <1>3, <1>4 DEF SureInv

LEMMA OpenIsSure ==
  ASSUME IInv, SureInv, NEW t \in Tasks, Open(t)
  PROVE  SureInv'
<1> DEFINE p == task[t]
           open == [p EXCEPT !.reg = RegShardOf[p.app]]
<1>1. p \in Place /\ p.at = "opening" /\ (p.use = "create" => cache[p.app] # Unset)
  BY DEF Open, IInv, TasksOK, SureInv, Sure
<1>2. ConfigUnchanged /\ UNCHANGED pools
  BY DEF Open, RoomsUnchanged
<1>3. CASE p.use = "create"
  <2> DEFINE q == [open EXCEPT !.at = "checking"]
  <2>1. GoesTo(t, q)
    BY <1>3 DEF Open
  <2>2. Sure(q)
    BY <1>1, <1>3 DEF Sure, Place
  <2> QED
    BY <1>2, <2>1, <2>2, SureMove
<1>4. CASE p.use \in {"find", "act", "leave"}
  <2> DEFINE q == [open EXCEPT !.at = "finding"]
  <2>1. GoesTo(t, q)
    BY <1>4 DEF Open
  <2>2. q.at \in Beyond
    BY <1>1 DEF Beyond, Place
  <2> QED
    BY <1>2, <2>1, <2>2, BeyondMove
<1>5. CASE p.use = "clean"
  <2> DEFINE q == [open EXCEPT !.at = "removing"]
  <2>1. GoesTo(t, q)
    BY <1>5 DEF Open
  <2>2. q.at \in Beyond
    BY <1>1 DEF Beyond, Place
  <2> QED
    BY <1>2, <2>1, <2>2, BeyondMove
<1>6. CASE p.use = "list" /\ p.app \in pools
  <2> DEFINE q == [open EXCEPT !.at = "scanning", !.next = 1]
  <2>1. GoesTo(t, q)
    BY <1>6 DEF Open
  <2>2. q.at \in Beyond
    BY <1>1 DEF Beyond, Place
  <2> QED
    BY <1>2, <2>1, <2>2, BeyondMove
<1>7. CASE p.use = "list" /\ p.app \notin pools
  BY <1>2, <1>7, RestIsSure, SureMove DEF Open
<1>8. p.use \in {"find", "create", "list", "act", "leave", "clean"}
  BY <1>1 DEF IInv, TasksOK, Good, Place, WellUsed, Scanning, Uses
<1> QED
  BY <1>3, <1>4, <1>5, <1>6, <1>7, <1>8

LEMMA RoomStepIsSure ==
  ASSUME IInv, SureInv, NEW t \in Tasks, RoomStep(t)
  PROVE  SureInv'
<1> DEFINE p == task[t]
<1>1. p \in Place
  BY DEF IInv, TasksOK
<1>2. CASE Find(t) \/ Create(t)
  <2>1. Holding(p).at \in Beyond /\ Rest.at \in Beyond
    BY <1>1, RestIsRest DEF Holding, Place, Beyond
  <2> QED
    BY <1>2, <2>1, BeyondMove DEF Find, Create, RoomsUnchanged
<1>3. CASE Collide(t)
  <2>1. ASSUME NEW r \in RoomIds PROVE Sure([p EXCEPT !.room = r])
    BY <1>1, <1>3 DEF Collide, Sure, SureInv, Place
  <2> QED
    BY <1>3, <2>1, RestIsSure, SureMove DEF Collide, RoomsUnchanged
<1>4. CASE Enter(t)
  <2> DEFINE q == [p EXCEPT !.at = "inside", !.locked = TRUE]
  <2>1. q.at \in Beyond
    BY <1>1 DEF Place, Beyond
  <2> QED
    BY <1>4, <2>1, BeyondMove DEF Enter, RoomsUnchanged
<1>5. CASE Sit(t) \/ Act(t) \/ Remove(t)
  BY <1>5, RestIsSure, SureMove DEF Sit, Act, Remove, RoomsUnchanged
<1>6. CASE Vacate(t)
  <2> DEFINE q == [p EXCEPT !.at = "opening", !.use = "clean", !.locked = FALSE]
  <2>1. Sure(q)
    BY <1>1 DEF Place, Sure
  <2>2. GoesTo(t, q) \/ GoesTo(t, Rest)
    BY <1>6 DEF Vacate
  <2> QED
    BY <1>6, <2>1, <2>2, RestIsSure, SureMove DEF Vacate
<1> QED
  BY <1>2, <1>3, <1>4, <1>5, <1>6, RegisterIsSure, OpenIsSure DEF RoomStep

LEMMA ScanStepIsSure ==
  ASSUME IInv, SureInv, NEW t \in Tasks, ScanStep(t)
  PROVE  SureInv'
<1> DEFINE p == task[t]
<1>1. p \in Place /\ Good(t, p)
  BY DEF IInv, TasksOK
<1>2. CASE TurnPage(t)
  <2> DEFINE next == [p EXCEPT !.shard = p.next, !.next = p.next + 1]
  <2>1. PICK q \in Visiting(next, RoomsIn(p.app, p.next)) : GoesTo(t, q)
    BY <1>2 DEF TurnPage
  <2>2. p.next \in 0 .. PoolShards /\ p.next + 1 \in 0 .. PoolShards + 1
    BY <1>1, <1>2 DEF TurnPage, Good, WellPlaced
  <2>3. next \in Place
    BY <1>1, <2>2 DEF Place
  <2> HIDE DEF next
  <2>4. q.at \in Beyond
    BY <2>1, <2>3, VisitingIsBeyond DEF Beyond
  <2> QED
    BY <1>2, <2>1, <2>4, BeyondMove DEF TurnPage, RoomsUnchanged
<1>3. CASE Reach(t)
  <2> DEFINE q == [p EXCEPT !.at = "counting", !.locked = TRUE]
  <2>1. q.at \in Beyond
    BY <1>1 DEF Place, Beyond
  <2> QED
    BY <1>3, <2>1, BeyondMove DEF Reach, RoomsUnchanged
<1>4. CASE Count(t)
  <2> DEFINE free == [p EXCEPT !.locked = FALSE]
  <2>1. PICK q \in Visiting(free, p.left) : GoesTo(t, q)
    BY <1>4 DEF Count
  <2>2. free \in Place
    BY <1>1 DEF Place
  <2> HIDE DEF free
  <2>3. q.at \in Beyond
    BY <2>1, <2>2, VisitingIsBeyond DEF Beyond
  <2> QED
    BY <1>4, <2>1, <2>3, BeyondMove DEF Count, RoomsUnchanged
<1>5. CASE Measure(t) /\ p.next < PoolShards
  <2> DEFINE q == [p EXCEPT !.next = p.next + 1]
  <2>1. q.at \in Beyond
    BY <1>1, <1>5 DEF Measure, Place, Beyond
  <2> QED
    BY <1>5, <2>1, BeyondMove DEF Measure, RoomsUnchanged
<1>6. CASE Measure(t) /\ ~(p.next < PoolShards)
  <2>1. PICK q \in NextApp(p, p.apps) : GoesTo(t, q)
    BY <1>6 DEF Measure
  <2>2. q.at \in Beyond
    BY <1>1, <2>1, NextAppIsBeyond DEF Beyond
  <2> QED
    BY <1>6, <2>1, <2>2, BeyondMove DEF Measure, RoomsUnchanged
<1>7. CASE Turn(t)
  <2> DEFINE next == [p EXCEPT !.reg = p.reg + 1]
  <2>1. PICK q \in NextApp(next, {a \in pools : RegShardOf[a] = p.reg + 1}) : GoesTo(t, q)
    BY <1>7 DEF Turn
  <2>2. p.reg + 1 \in 0 .. RegShards
    BY <1>1, <1>7 DEF Turn, Good, WellPlaced, Place
  <2>3. next \in Place
    BY <1>1, <2>2 DEF Place
  <2> HIDE DEF next
  <2>4. q.at \in Beyond
    BY <2>1, <2>3, NextAppIsBeyond DEF Beyond
  <2> QED
    BY <1>7, <2>1, <2>4, BeyondMove DEF Turn, RoomsUnchanged
<1> QED
  BY <1>2, <1>3, <1>4, <1>5, <1>6, <1>7 DEF ScanStep

LEMMA BeginIsSure ==
  ASSUME IInv, SureInv, Begin
  PROVE  SureInv'
<1>1. ASSUME NEW c \in Conns, BeginNamed(c) PROVE SureInv'
  <2>1. PICK a \in Apps : \E p \in Named(a) : Checked(c, p)
    BY <1>1 DEF BeginNamed
  <2>2. PICK p \in Named(a) : Checked(c, p)
    BY <2>1
  <2>3. p \in Place /\ p.app = a /\ p.reg = 0
    BY NamedIsGood DEF Named, Rest
  <2> QED
    BY <1>1, <2>2, <2>3, CheckedIsSure DEF BeginNamed, RoomsUnchanged, Tasks
<1>2. ASSUME NEW c \in Conns, BeginSeated(c) PROVE SureInv'
  <2>1. PICK use \in {"act", "leave"} :
          GoesTo(c, [Rest EXCEPT !.at = "opening", !.use = use,
                                 !.app = sess[c].app, !.room = sess[c].room])
    BY <1>2 DEF BeginSeated
  <2>2. Sure([Rest EXCEPT !.at = "opening", !.use = use,
                          !.app = sess[c].app, !.room = sess[c].room])
    BY DEF Sure, Rest
  <2> QED
    BY <1>2, <2>1, <2>2, SureMove DEF BeginSeated, Tasks
<1>3. ASSUME NEW t \in Watchers, BeginStats(t) PROVE SureInv'
  <2>1. Sure([Rest EXCEPT !.at = "turning", !.use = "stats"])
    BY DEF Sure, Rest
  <2> QED
    BY <1>3, <2>1, SureMove DEF BeginStats, RoomsUnchanged, Tasks
<1> QED
  BY <1>1, <1>2, <1>3 DEF Begin

LEMMA EditIsSure ==
  ASSUME IInv, SureInv, Edit
  PROVE  SureInv'
<1>1. PICK a \in Apps, content \in Contents \cup {Unset} :
        /\ file' = [file EXCEPT ![a] = content]
        /\ said' = [said EXCEPT ![a] = @ \cup ({content} \ {Unset})]
        /\ UNCHANGED <<cache, pools, task>>
  BY DEF Edit, EditFile, RoomsUnchanged
<1>2. \A b : Given(b) \subseteq Given(b)'
  BY <1>1 DEF Given, IInv, ConfigOK
<1>3. CacheSure'
  <2>1. \A b \in Apps : file'[b] # Unset => file'[b] \in said'[b]
    BY <1>1 DEF SureInv, CacheSure, IInv, ConfigOK
  <2> QED
    BY <1>1, <1>2, <2>1 DEF SureInv, CacheSure
<1>4. ASSUME NEW t \in Tasks PROVE Sure(task[t])'
  BY <1>1, <1>2 DEF SureInv, Sure
<1> QED
  BY <1>3, <1>4 DEF SureInv

LEMMA NextKeepsSure == IInv /\ SureInv /\ [Next]_vars => SureInv'
<1> SUFFICES ASSUME IInv, SureInv, [Next]_vars PROVE SureInv'
  OBVIOUS
<1>1. ASSUME NEW t \in Tasks, LoadStep(t) PROVE SureInv'
  <2>1. CASE CheckDefaults(t)
    <3>1. task[t] \in Place /\ task[t].app \in Apps /\ cache[task[t].app] # Unset
      BY <2>1 DEF CheckDefaults, IInv, TasksOK, Good, WellPlaced, SureInv, Sure
    <3> QED
      BY <2>1, <3>1, CheckedIsSure DEF CheckDefaults, RoomsUnchanged
  <2> QED
    BY <1>1, <2>1, LoadIsSure, KeepIsSure DEF LoadStep
<1>2. CASE \E t \in Tasks : Work(t)
  BY <1>1, <1>2, RoomStepIsSure, ScanStepIsSure DEF Work
<1>3. CASE UNCHANGED vars
  BY <1>3 DEF vars, SureInv, CacheSure, Sure, Given
<1> QED
  BY <1>2, <1>3, BeginIsSure, EditIsSure DEF Next, Terminated

LEMMA InitIsSure == Init => SureInv
<1> SUFFICES ASSUME Init PROVE SureInv
  OBVIOUS
<1>1. CacheSure
  BY DEF Init, ConfigInit, CacheSure
<1>2. \A t \in Tasks : Sure(task[t])
  BY RestIsSure DEF Init
<1> QED
  BY <1>1, <1>2 DEF SureInv

LEMMA SureInvariance == Spec => [](IInv /\ SureInv)
<1> USE InitHasInvariant, NextKeepsInvariant, InitIsSure, NextKeepsSure
<1> QED
  BY PTL DEF Spec

\* A room is created with settings that the program or a file gave to its app, whatever
\* happens to the file between is_registered_app and default_room_settings_for_app.
THEOREM SettingsWereChecked == Spec => []SettingsAsChecked
<1>1. IInv /\ SureInv => SettingsAsChecked
  BY DEF SureInv, Sure, SettingsAsChecked
<1> QED
  BY <1>1, SureInvariance, PTL

\* Apps that the server never knew leave no trace, neither in the cache nor in the
\* registry, however often clients name them.
THEOREM UnknownAppsAreForgotten == Spec => []NothingKeptForUnknown
<1>1. IInv /\ SureInv => NothingKeptForUnknown
  BY DEF IInv, ConfigOK, RoomsOK, SureInv, CacheSure, NothingKeptForUnknown, Known, Given
<1> QED
  BY <1>1, SureInvariance, PTL

-----------------------------------------------------------------------------
(* Empty rooms.                                                            *)

\* Which requests come to a place.
Purposeful(p) ==
  /\ p.at \in Loading => p.use \in (IF p.reg # 0 THEN {"create"} ELSE {"find", "create", "list"})
  /\ p.at = "creating" => p.use = "create"
  /\ p.at = "registering" => p.use \in {"find", "create", "list"}
  /\ p.at = "finding" => p.use \in {"find", "act", "leave"}
  /\ p.at \in InRoom => p.use \in {"find", "create", "act", "leave"}
  /\ p.at = "removing" => p.use = "clean"
  /\ p.use = "clean" => p.at \in {"opening", "removing"}

\* Room r is, or was, in the pool of a.
Filed(r, a) == listed[r] \in {a, Removed}

\* What a task at place p has found is in the pool it found it in, and a scan is in the
\* shard of the rooms that it visits.
Traced(p) ==
  /\ p.at \in InRoom \/ p.use = "clean" => Filed(p.room, p.app)
  /\ p.at \in {"reaching", "counting"} =>
       \A r \in {p.room} \cup p.left : Filed(r, p.app) /\ ShardOf[r] = p.shard

\* c, at place p, sits in the room of its session, also while it acts there.
Seated(c, p) ==
  /\ sess[c] # Nothing => c \in seats[sess[c].room]
  /\ p.use = "act" /\ p.at # "rest" => c \in seats[p.room]
  /\ p.use = "leave" => sess[c] = Nothing

\* A task at place p is about to sit in room r, to leave it or to clean it up.
Claims(p, r) ==
  /\ p.room = r
  /\ p.use = "clean" \/ (p.at \in InRoom /\ p.use # "act")

Claimed == \A r \in RoomIds : listed[r] \in Apps /\ seats[r] = {} =>
                                 \E c \in Conns : Claims(task[c], r)

HomeInv ==
  /\ \A t \in Tasks : Purposeful(task[t]) /\ Traced(task[t])
  /\ \A c \in Conns : Seated(c, task[c])
  /\ Claimed

\* Where a task has nothing to do with an empty room.
Aloof(q) ==
  /\ q.at \notin InRoom \cup {"reaching", "counting"}
  /\ q.use \notin {"clean", "leave"}
  /\ q.use = "act" => q.at = "rest"

LEMMA RestIsAloof == Purposeful(Rest) /\ Aloof(Rest)
BY DEF Purposeful, Aloof, Rest, InRoom, Loading

\* A step that moves t and changes neither pools nor seats.
LEMMA HomeMove ==
  ASSUME IInv, HomeInv, NEW t \in Tasks, NEW q, GoesTo(t, q),
         UNCHANGED <<listed, seats, sess>>,
         Purposeful(q), Traced(q), t \in Conns => Seated(t, q),
         \A r \in RoomIds : Claims(task[t], r) => Claims(q, r)
  PROVE  HomeInv'
<1>1. /\ task'[t] = q
      /\ \A u \in Tasks : u # t => task'[u] = task[u]
  BY DEF GoesTo, IInv, TasksOK
<1>2. \A u \in Tasks : Purposeful(task'[u]) /\ Traced(task'[u])
  BY <1>1 DEF HomeInv
<1>3. \A c \in Conns : Seated(c, task'[c])
  BY <1>1 DEF HomeInv, Tasks
<1>4. ASSUME NEW r \in RoomIds, listed[r] \in Apps, seats[r] = {}
      PROVE  \E c \in Conns : Claims(task'[c], r)
  <2>1. PICK c \in Conns : Claims(task[c], r)
    BY <1>4 DEF HomeInv, Claimed
  <2> QED
    BY <1>1, <2>1 DEF Tasks
<1>5. Claimed'
  BY <1>4 DEF Claimed
<1>6. \A u \in Tasks : Traced(task[u])'
  BY <1>2 DEF Traced, Filed
<1>7. \A c \in Conns : Seated(c, task[c])'
  BY <1>3 DEF Seated
<1> QED
  BY <1>2, <1>5, <1>6, <1>7 DEF HomeInv

\* A step that moves t to where it is aloof.
LEMMA AloofMove ==
  ASSUME IInv, HomeInv, NEW t \in Tasks, NEW q, GoesTo(t, q),
         UNCHANGED <<listed, seats, sess>>,
         Purposeful(q), Aloof(q),
         \A r \in RoomIds : ~Claims(task[t], r)
  PROVE  HomeInv'
<1>1. Traced(q)
  BY DEF Traced, Aloof
<1>2. t \in Conns => Seated(t, q)
  BY DEF Seated, Aloof, HomeInv
<1> QED
  BY <1>1, <1>2, HomeMove

\* A task that is neither in a room nor cleaning up claims none.
LEMMA ClaimsNone ==
  ASSUME HomeInv, NEW t \in Tasks, task[t].at \notin InRoom \cup {"opening", "removing"}
  PROVE  \A r \in RoomIds : ~Claims(task[t], r)
BY DEF HomeInv, Purposeful, Claims

\* Where a load leads.
LEMMA DrawingLeads ==
  ASSUME NEW t \in Tasks, NEW p \in Place, NEW s, Drawing(t, Loaded(p, s)),
         p.use \in (IF p.reg # 0 THEN {"create"} ELSE {"find", "create", "list"})
  PROVE  \E q : GoesTo(t, q) /\ Purposeful(q) /\ Aloof(q)
<1>1. CASE p.reg # 0
  <2>1. Loaded(p, s) = [p EXCEPT !.at = "creating", !.settings = s]
    BY <1>1 DEF Loaded
  <2>2. PICK r \in RoomIds : GoesTo(t, [Loaded(p, s) EXCEPT !.room = r])
    BY <2>1 DEF Drawing, Place
  <2> DEFINE q == [Loaded(p, s) EXCEPT !.room = r]
  <2>3. q.at = "creating" /\ q.use = "create"
    BY <1>1, <2>1 DEF Place
  <2>4. Purposeful(q) /\ Aloof(q)
    BY <2>3 DEF Purposeful, Aloof, InRoom, Loading
  <2> QED
    BY <2>2, <2>4
<1>2. CASE p.reg = 0 /\ p.use = "list"
  <2> DEFINE q == [p EXCEPT !.at = "opening", !.settings = Unset]
  <2>1. Loaded(p, s) = q
    BY <1>2 DEF Loaded
  <2>2. q.at = "opening" /\ q.use = "list"
    BY <1>2 DEF Place
  <2>3. Purposeful(q) /\ Aloof(q)
    BY <2>2 DEF Purposeful, Aloof, InRoom, Loading
  <2> QED
    BY <2>1, <2>2, <2>3 DEF Drawing
<1>3. CASE p.reg = 0 /\ p.use # "list"
  <2> DEFINE q == [p EXCEPT !.at = "registering", !.settings = Unset]
  <2>1. Loaded(p, s) = q
    BY <1>3 DEF Loaded
  <2>2. q.at = "registering" /\ q.use \in {"find", "create"}
    BY <1>3 DEF Place
  <2>3. Purposeful(q) /\ Aloof(q)
    BY <2>2 DEF Purposeful, Aloof, InRoom, Loading
  <2> QED
    BY <2>1, <2>2, <2>3 DEF Drawing
<1> QED
  BY <1>1, <1>2, <1>3

LEMMA CheckedLeads ==
  ASSUME NEW t \in Tasks, NEW p \in Place, Checked(t, p),
         p.use \in (IF p.reg # 0 THEN {"create"} ELSE {"find", "create", "list"})
  PROVE  \E q : GoesTo(t, q) /\ Purposeful(q) /\ Aloof(q)
<1>1. CASE cache[p.app] # Unset
  BY <1>1, DrawingLeads DEF Checked
<1>2. CASE cache[p.app] = Unset
  <2> DEFINE q == [p EXCEPT !.at = "loading"]
  <2>1. q.at = "loading" /\ q.use = p.use /\ q.reg = p.reg
    BY DEF Place
  <2>2. Purposeful(q) /\ Aloof(q)
    BY <2>1 DEF Purposeful, Aloof, InRoom, Loading
  <2> QED
    BY <1>2, <2>2 DEF Checked
<1> QED
  BY <1>1, <1>2

LEMMA LoadStepKeepsHome ==
  ASSUME IInv, HomeInv, NEW t \in Tasks, LoadStep(t)
  PROVE  HomeInv'
<1> DEFINE p == task[t]
<1>1. /\ p \in Place /\ p.at \in Loading
      /\ p.use \in (IF p.reg # 0 THEN {"create"} ELSE {"find", "create", "list"})
      /\ UNCHANGED <<listed, seats, sess>>
  BY DEF LoadStep, CheckDefaults, Load, Keep, IInv, TasksOK, HomeInv, Purposeful, Loading,
         RoomsUnchanged
<1>2. \A r \in RoomIds : ~Claims(p, r)
  BY <1>1, ClaimsNone DEF Loading, InRoom
<1>3. \E q : GoesTo(t, q) /\ Purposeful(q) /\ Aloof(q)
  <2>1. CASE CheckDefaults(t)
    BY <1>1, <2>1, CheckedLeads DEF CheckDefaults
  <2>2. CASE Keep(t)
    BY <1>1, <2>2, DrawingLeads DEF Keep
  <2>3. CASE Load(t)
    <3> DEFINE q == [p EXCEPT !.at = "keeping", !.settings = Found(p.app)]
    <3>1. q.at = "keeping" /\ q.use = p.use /\ q.reg = p.reg
      BY <1>1 DEF Place
    <3>2. Purposeful(q) /\ Aloof(q)
      BY <1>1, <3>1 DEF Purposeful, Aloof, InRoom, Loading
    <3>3. \/ GoesTo(t, q) \/ GoesTo(t, Rest)
          \/ Drawing(t, Loaded(p, app_fallback(p.app)))
      BY <2>3 DEF Load
    <3> HIDE DEF q
    <3> QED
      BY <1>1, <3>2, <3>3, RestIsAloof, DrawingLeads
  <2> QED
    BY <2>1, <2>2, <2>3 DEF LoadStep
<1> QED
  BY <1>1, <1>2, <1>3, AloofMove

\* What was filed stays filed when a room joins a pool or is removed from it.
LEMMA FiledStays ==
  ASSUME IInv, HomeInv, NEW t \in Tasks, Create(t) \/ Remove(t)
  PROVE  \A r \in RoomIds, a \in Apps : Filed(r, a) => Filed(r, a)'
<1> DEFINE p == task[t]
<1>1. p.room \in RoomIds /\ listed \in [RoomIds -> Apps \cup {Nothing, Removed}]
  BY DEF Create, Remove, IInv, TasksOK, RoomsOK, Good, WellPlaced, Looking
<1>2. CASE Create(t)
  BY <1>1, <1>2 DEF Create, Filed
<1>3. CASE Remove(t)
  BY <1>1, <1>3 DEF Remove, Removable, Filed
<1> QED
  BY <1>2, <1>3

\* Then what other tasks have found is still where they found it.
LEMMA OthersTraced ==
  ASSUME IInv, HomeInv, NEW u \in Tasks, task'[u] = task[u],
         \A r \in RoomIds, a \in Apps : Filed(r, a) => Filed(r, a)'
  PROVE  Traced(task[u])'
<1>0. PICK p \in Place : p = task[u]
  BY DEF IInv, TasksOK
<1>1. Good(u, p) /\ Purposeful(p) /\ Traced(p)
  BY <1>0 DEF IInv, TasksOK, HomeInv
<1>2. p.at \in InRoom \/ p.use = "clean" => p.room \in RoomIds /\ p.app \in Apps
  BY <1>1 DEF Good, WellPlaced, Purposeful, InRoom
<1>3. p.at \in {"reaching", "counting"} => {p.room} \cup p.left \subseteq RoomIds /\ p.app \in Apps
  BY <1>1 DEF Good, WellPlaced, Place
<1>4. p.at \in InRoom \/ p.use = "clean" => Filed(p.room, p.app)'
  BY <1>1, <1>2 DEF Traced
<1>5. p.at \in {"reaching", "counting"} =>
        \A r \in {p.room} \cup p.left : Filed(r, p.app)' /\ ShardOf[r] = p.shard
  BY <1>1, <1>3 DEF Traced
<1> QED
  BY <1>0, <1>4, <1>5 DEF Traced

LEMMA OpenKeepsHome ==
  ASSUME IInv, HomeInv, NEW t \in Tasks, Open(t)
  PROVE  HomeInv'
<1> DEFINE p == task[t]
           open == [p EXCEPT !.reg = RegShardOf[p.app]]
<1>1. /\ p \in Place /\ p.at = "opening" /\ p.app \in Apps
      /\ Purposeful(p) /\ Traced(p) /\ (t \in Conns => Seated(t, p))
      /\ UNCHANGED <<listed, seats, sess>>
  BY DEF Open, IInv, TasksOK, Good, WellPlaced, HomeInv, RoomsUnchanged
<1>2. p.use # "clean" => \A r \in RoomIds : ~Claims(p, r)
  BY <1>1 DEF Claims, InRoom
<1>3. CASE p.use \in {"find", "act", "leave"}
  <2> DEFINE q == [open EXCEPT !.at = "finding"]
  <2>1. q.at = "finding" /\ q.use = p.use /\ q.room = p.room
    BY <1>1 DEF Place
  <2>2. Purposeful(q) /\ Traced(q) /\ (t \in Conns => Seated(t, q))
    BY <1>1, <1>3, <2>1 DEF Purposeful, Traced, Seated, InRoom, Loading
  <2>3. GoesTo(t, q)
    BY <1>3 DEF Open
  <2> QED
    BY <1>1, <1>2, <1>3, <2>2, <2>3, HomeMove
<1>4. CASE p.use = "create"
  <2> DEFINE q == [open EXCEPT !.at = "checking"]
  <2>1. q.at = "checking" /\ q.use = "create" /\ q.reg # 0
    BY <1>1, <1>4 DEF Place
  <2>2. Purposeful(q) /\ Aloof(q)
    BY <2>1 DEF Purposeful, Aloof, InRoom, Loading
  <2>3. GoesTo(t, q)
    BY <1>4 DEF Open
  <2> QED
    BY <1>1, <1>2, <1>4, <2>2, <2>3, AloofMove
<1>5. CASE p.use = "clean"
  <2> DEFINE q == [open EXCEPT !.at = "removing"]
  <2>1. q.at = "removing" /\ q.use = "clean" /\ q.room = p.room /\ q.app = p.app
    BY <1>1, <1>5 DEF Place
  <2>2. Purposeful(q) /\ Traced(q) /\ (t \in Conns => Seated(t, q))
    BY <1>1, <1>5, <2>1 DEF Purposeful, Traced, Seated, InRoom, Loading
  <2>3. \A r \in RoomIds : Claims(p, r) => Claims(q, r)
    BY <2>1 DEF Claims
  <2>4. GoesTo(t, q)
    BY <1>5 DEF Open
  <2> QED
    BY <1>1, <2>2, <2>3, <2>4, HomeMove
<1>6. CASE p.use = "list"
  <2> DEFINE q == [open EXCEPT !.at = "scanning", !.next = 1]
  <2>1. q.at = "scanning" /\ q.use = "list"
    BY <1>1, <1>6 DEF Place
  <2>2. Purposeful(q) /\ Aloof(q)
    BY <2>1 DEF Purposeful, Aloof, InRoom, Loading
  <2>3. GoesTo(t, q) \/ GoesTo(t, Rest)
    BY <1>6 DEF Open
  <2> QED
    BY <1>1, <1>2, <1>6, <2>2, <2>3, RestIsAloof, AloofMove
<1>7. p.use \in {"find", "create", "list", "act", "leave", "clean"}
  BY <1>1 DEF IInv, TasksOK, Good, Place, WellUsed, Scanning, Uses
<1> QED
  BY <1>3, <1>4, <1>5, <1>6, <1>7

\* A room is found in the pool, or it is not.
LEMMA FindKeepsHome ==
  ASSUME IInv, HomeInv, NEW t \in Tasks, Find(t)
  PROVE  HomeInv'
<1> DEFINE p == task[t]
           q == Holding(p)
<1>1. /\ p \in Place /\ p.at = "finding" /\ Purposeful(p) /\ (t \in Conns => Seated(t, p))
      /\ UNCHANGED <<listed, seats, sess>>
  BY DEF Find, IInv, TasksOK, HomeInv, RoomsUnchanged
<1>2. \A r \in RoomIds : ~Claims(p, r)
  BY <1>1, ClaimsNone DEF InRoom
<1>3. CASE listed[p.room] = p.app
  <2>1. q.at = "entering" /\ q.use = p.use /\ q.room = p.room /\ q.app = p.app
    BY <1>1 DEF Holding, Place
  <2>2. Purposeful(q) /\ Traced(q) /\ (t \in Conns => Seated(t, q))
    BY <1>1, <1>3, <2>1 DEF Purposeful, Traced, Filed, Seated, InRoom, Loading
  <2>3. GoesTo(t, q)
    BY <1>3 DEF Find
  <2> HIDE DEF q
  <2> QED
    BY <1>1, <1>2, <2>2, <2>3, HomeMove
<1>4. CASE listed[p.room] # p.app
  BY <1>1, <1>2, <1>4, RestIsAloof, AloofMove DEF Find
<1> QED
  BY <1>3, <1>4

\* A new room is empty, and the hands it is on are those of its creator.
LEMMA CreateKeepsHome ==
  ASSUME IInv, HomeInv, NEW t \in Tasks, Create(t)
  PROVE  HomeInv'
<1> DEFINE p == task[t]
           q == Holding(p)
<1>1. /\ p \in Place /\ p.at = "creating" /\ p.use = "create"
      /\ p.room \in RoomIds /\ p.app \in Apps /\ t \in Conns
  <2>1. Good(t, p) /\ p.at = "creating" /\ p.use = "create"
    BY DEF Create, IInv, TasksOK, HomeInv, Purposeful
  <2> QED
    BY <2>1 DEF Good, WellPlaced, WellUsed, Looking, Tasks
<1>2. q.at = "entering" /\ q.use = "create" /\ q.room = p.room /\ q.app = p.app
  BY <1>1 DEF Holding, Place
<1>3. /\ task'[t] = q
      /\ \A u \in Tasks : u # t => task'[u] = task[u]
      /\ listed' = [listed EXCEPT ![p.room] = p.app]
      /\ UNCHANGED <<seats, sess>>
  BY DEF Create, GoesTo, IInv, TasksOK
<1> HIDE DEF q
<1>4. ASSUME NEW u \in Tasks PROVE Purposeful(task'[u]) /\ Traced(task[u])'
  <2>1. CASE u = t
    <3>1. listed'[p.room] = p.app
      BY <1>1, <1>3 DEF IInv, RoomsOK
    <3> QED
      BY <1>2, <1>3, <2>1, <3>1 DEF Purposeful, Traced, Filed, InRoom, Loading
  <2>2. CASE u # t
    BY <1>3, <2>2, FiledStays, OthersTraced DEF HomeInv
  <2> QED
    BY <2>1, <2>2
<1>5. ASSUME NEW c \in Conns PROVE Seated(c, task[c])'
  <2>1. Seated(c, task[c])
    BY DEF HomeInv
  <2> QED
    BY <1>1, <1>2, <1>3, <2>1 DEF Seated, Tasks
<1>6. Claimed'
  <2> SUFFICES ASSUME NEW r \in RoomIds, listed'[r] \in Apps, seats[r] = {}
               PROVE  \E c \in Conns : Claims(task'[c], r)
    BY <1>3 DEF Claimed
  <2>1. CASE r = p.room
    BY <1>1, <1>2, <1>3, <2>1 DEF Claims, InRoom
  <2>2. CASE r # p.room
    <3>1. listed[r] \in Apps
      BY <1>1, <1>3, <2>2 DEF IInv, RoomsOK
    <3>2. PICK c \in Conns : Claims(task[c], r)
      BY <3>1 DEF HomeInv, Claimed
    <3>3. c # t
      BY <1>1, <3>2 DEF Claims, InRoom
    <3> QED
      BY <1>3, <3>2, <3>3 DEF Tasks
  <2> QED
    BY <2>1, <2>2
<1> QED
  BY <1>4, <1>5, <1>6 DEF HomeInv

LEMMA CollideKeepsHome ==
  ASSUME IInv, HomeInv, NEW t \in Tasks, Collide(t)
  PROVE  HomeInv'
<1> DEFINE p == task[t]
<1>1. /\ p \in Place /\ p.at = "creating" /\ p.use = "create"
      /\ UNCHANGED <<listed, seats, sess>>
  BY DEF Collide, IInv, TasksOK, HomeInv, Purposeful, RoomsUnchanged
<1>2. \A r \in RoomIds : ~Claims(p, r)
  BY <1>1, ClaimsNone DEF InRoom
<1>3. ASSUME NEW r \in RoomIds
      PROVE  Purposeful([p EXCEPT !.room = r]) /\ Aloof([p EXCEPT !.room = r])
  BY <1>1 DEF Purposeful, Aloof, InRoom, Loading, Place
<1>4. GoesTo(t, Rest) \/ \E r \in RoomIds : GoesTo(t, [p EXCEPT !.room = r])
  BY DEF Collide
<1> QED
  BY <1>1, <1>2, <1>3, <1>4, RestIsAloof, AloofMove

\* Steps of t that keep what it is there for.
LEMMA WalkKeepsHome ==
  ASSUME IInv, HomeInv, NEW t \in Tasks, Register(t) \/ Enter(t) \/ Act(t)
  PROVE  HomeInv'
<1> DEFINE p == task[t]
<1>1. /\ p \in Place /\ Purposeful(p) /\ Traced(p) /\ (t \in Conns => Seated(t, p))
      /\ UNCHANGED <<listed, seats, sess>>
  BY DEF Register, Enter, Act, IInv, TasksOK, HomeInv, RoomsUnchanged
<1>2. CASE Register(t)
  <2> DEFINE q == [p EXCEPT !.at = "opening"]
  <2>1. p.at = "registering" /\ GoesTo(t, q)
    BY <1>2 DEF Register
  <2>2. q.at = "opening" /\ q.use = p.use /\ p.use \in {"find", "create", "list"}
    BY <1>1, <2>1 DEF Purposeful, Place
  <2>3. Purposeful(q) /\ Aloof(q)
    BY <2>2 DEF Purposeful, Aloof, InRoom, Loading
  <2> QED
    BY <1>1, <2>1, <2>3, AloofMove, ClaimsNone DEF InRoom
<1>3. CASE Enter(t)
  <2> DEFINE q == [p EXCEPT !.at = "inside", !.locked = TRUE]
  <2>1. p.at = "entering" /\ GoesTo(t, q)
    BY <1>3 DEF Enter
  <2>2. q.at = "inside" /\ q.use = p.use /\ q.room = p.room /\ q.app = p.app
    BY <1>1 DEF Place
  <2>3. Purposeful(q) /\ Traced(q) /\ (t \in Conns => Seated(t, q))
    BY <1>1, <2>1, <2>2 DEF Purposeful, Traced, Seated, InRoom, Loading
  <2>4. \A r \in RoomIds : Claims(p, r) => Claims(q, r)
    BY <2>2 DEF Claims, InRoom
  <2> QED
    BY <1>1, <2>1, <2>3, <2>4, HomeMove
<1>4. CASE Act(t)
  <2>1. \A r \in RoomIds : ~Claims(p, r)
    BY <1>4 DEF Act, Claims
  <2> QED
    BY <1>1, <1>4, <2>1, RestIsAloof, AloofMove DEF Act
<1> QED
  BY <1>2, <1>3, <1>4

\* A joiner gives up its claim and makes the room no longer empty.
LEMMA SitKeepsHome ==
  ASSUME IInv, HomeInv, NEW t \in Tasks, Sit(t)
  PROVE  HomeInv'
<1> DEFINE p == task[t]
<1>1. p.at = "inside" /\ p.use \in {"find", "create"} /\ p.room \in RoomIds /\ t \in Conns
  BY DEF Sit, IInv, TasksOK, Good, WellPlaced, WellUsed, InRoom, Tasks
<1>2. /\ task'[t] = Rest
      /\ \A u \in Tasks : u # t => task'[u] = task[u]
      /\ seats' = [seats EXCEPT ![p.room] = @ \cup {t}]
      /\ sess' = [sess EXCEPT ![t] = [app |-> p.app, room |-> p.room]]
      /\ listed' = listed
  BY DEF Sit, GoesTo, IInv, TasksOK
<1>3. /\ \A r \in RoomIds : seats[r] \subseteq seats'[r]
      /\ t \in seats'[p.room]
      /\ \A r \in RoomIds : r # p.room => seats'[r] = seats[r]
      /\ sess'[t].room = p.room
      /\ \A c \in Conns : c # t => sess'[c] = sess[c]
  BY <1>1, <1>2 DEF IInv, RoomsOK
<1>4. ASSUME NEW u \in Tasks PROVE Purposeful(task'[u]) /\ Traced(task[u])'
  <2>1. CASE u = t
    BY <1>2, <2>1 DEF Rest, Purposeful, Traced, InRoom, Loading
  <2>2. CASE u # t
    BY <1>2, <2>2 DEF HomeInv, Traced, Filed
  <2> QED
    BY <2>1, <2>2
<1>5. ASSUME NEW c \in Conns PROVE Seated(c, task[c])'
  <2>1. CASE c = t
    BY <1>2, <1>3, <2>1 DEF Rest, Seated
  <2>2. CASE c # t
    <3>1. task'[c] = task[c] /\ sess'[c] = sess[c]
      BY <1>2, <1>3, <2>2 DEF Tasks
    <3>2. sess[c] # Nothing => sess[c].room \in RoomIds
      BY DEF IInv, RoomsOK
    <3>3. task[c].use = "act" /\ task[c].at # "rest" => task[c].room \in RoomIds
      BY DEF IInv, TasksOK, Good, WellPlaced, Tasks
    <3>4. Seated(c, task[c])
      BY DEF HomeInv
    <3> QED
      BY <1>3, <3>1, <3>2, <3>3, <3>4 DEF Seated
  <2> QED
    BY <2>1, <2>2
<1>6. Claimed'
  <2> SUFFICES ASSUME NEW r \in RoomIds, listed[r] \in Apps, seats'[r] = {}
               PROVE  \E c \in Conns : Claims(task'[c], r)
    BY <1>2 DEF Claimed
  <2>1. r # p.room /\ seats[r] = {}
    BY <1>3
  <2>2. PICK c \in Conns : Claims(task[c], r)
    BY <2>1 DEF HomeInv, Claimed
  <2>3. c # t
    BY <2>1, <2>2 DEF Claims
  <2> QED
    BY <1>2, <2>2, <2>3 DEF Tasks
<1> QED
  BY <1>4, <1>5, <1>6 DEF HomeInv

\* The last to leave a room keeps it on its hands.
LEMMA VacateKeepsHome ==
  ASSUME IInv, HomeInv, NEW t \in Tasks, Vacate(t)
  PROVE  HomeInv'
<1> DEFINE p == task[t]
           q == [p EXCEPT !.at = "opening", !.use = "clean", !.locked = FALSE]
           last == seats'[p.room] = {}
<1>1. /\ p \in Place /\ p.at = "inside" /\ p.use = "leave" /\ p.room \in RoomIds /\ t \in Conns
      /\ Traced(p) /\ sess[t] = Nothing
  <2>1. Good(t, p) /\ p.at = "inside" /\ p.use = "leave" /\ Traced(p)
    BY DEF Vacate, IInv, TasksOK, HomeInv
  <2>2. t \in Conns /\ p.room \in RoomIds
    BY <2>1 DEF Good, WellPlaced, WellUsed, InRoom, Tasks
  <2> QED
    BY <2>1, <2>2 DEF Good, HomeInv, Seated
<1>2. /\ task'[t] = (IF last THEN q ELSE Rest)
      /\ \A u \in Tasks : u # t => task'[u] = task[u]
      /\ seats' = [seats EXCEPT ![p.room] = @ \ {t}]
      /\ UNCHANGED <<listed, sess>>
  BY DEF Vacate, GoesTo, IInv, TasksOK
<1>3. /\ \A r \in RoomIds : seats[r] \ {t} \subseteq seats'[r]
      /\ \A r \in RoomIds : r # p.room => seats'[r] = seats[r]
  BY <1>1, <1>2 DEF IInv, RoomsOK
<1>4. q.at = "opening" /\ q.use = "clean" /\ q.room = p.room /\ q.app = p.app
  BY <1>1 DEF Place
<1> HIDE DEF q
<1>5. ASSUME NEW u \in Tasks PROVE Purposeful(task'[u]) /\ Traced(task[u])'
  <2>1. CASE u = t /\ last
    <3>1. Filed(p.room, p.app)
      BY <1>1 DEF Traced, InRoom
    <3> QED
      BY <1>2, <1>4, <2>1, <3>1 DEF Purposeful, Traced, Filed, InRoom, Loading
  <2>2. CASE u = t /\ ~last
    BY <1>2, <2>2 DEF Rest, Purposeful, Traced, InRoom, Loading
  <2>3. CASE u # t
    BY <1>2, <2>3 DEF HomeInv, Traced, Filed
  <2> QED
    BY <2>1, <2>2, <2>3
<1>6. ASSUME NEW c \in Conns PROVE Seated(c, task[c])'
  <2>1. CASE c = t
    <3>1. task'[t].use \in {"clean", "act"} /\ (task'[t].use = "act" => task'[t].at = "rest")
      BY <1>2, <1>4 DEF Rest
    <3> QED
      BY <1>1, <1>2, <2>1, <3>1 DEF Seated
  <2>2. CASE c # t
    <3>1. task'[c] = task[c] /\ sess'[c] = sess[c]
      BY <1>2, <2>2 DEF Tasks
    <3>2. sess[c] # Nothing => sess[c].room \in RoomIds
      BY DEF IInv, RoomsOK
    <3>3. task[c].use = "act" /\ task[c].at # "rest" => task[c].room \in RoomIds
      BY DEF IInv, TasksOK, Good, WellPlaced, Tasks
    <3>4. Seated(c, task[c])
      BY DEF HomeInv
    <3> QED
      BY <1>3, <2>2, <3>1, <3>2, <3>3, <3>4 DEF Seated
  <2> QED
    BY <2>1, <2>2
<1>7. Claimed'
  <2> SUFFICES ASSUME NEW r \in RoomIds, listed[r] \in Apps, seats'[r] = {}
               PROVE  \E c \in Conns : Claims(task'[c], r)
    BY <1>2 DEF Claimed
  <2>1. CASE r = p.room
    BY <1>1, <1>2, <1>4, <2>1 DEF Claims
  <2>2. CASE r # p.room
    <3>1. PICK c \in Conns : Claims(task[c], r)
      BY <1>3, <2>2 DEF HomeInv, Claimed
    <3>2. c # t
      BY <2>2, <3>1 DEF Claims
    <3> QED
      BY <1>2, <3>1, <3>2 DEF Tasks
  <2> QED
    BY <2>1, <2>2
<1> QED
  BY <1>5, <1>6, <1>7 DEF HomeInv

\* Whoever has locked a listed, empty room when t comes to remove it has a claim to it: a
\* scan would still hold the guard of the shard.
LEMMA LockerClaims ==
  ASSUME IInv, HomeInv, NEW t \in Tasks, Remove(t), NEW s \in Tasks, task[s].locked,
         task[s].room = task[t].room, listed[task[t].room] = task[t].app, seats[task[t].room] = {}
  PROVE  s \in Conns /\ s # t /\ Claims(task[s], task[t].room)
<1> DEFINE p == task[t]
           o == task[s]
<1>1. /\ p.at = "removing" /\ Granted(t) /\ p.app \in Apps /\ p.room \in RoomIds
      /\ o \in Place /\ Good(s, o) /\ Purposeful(o) /\ Traced(o)
  BY DEF Remove, IInv, TasksOK, Good, WellPlaced, Looking, HomeInv
<1>2. o.at \in {"inside", "counting"} /\ s # t
  BY <1>1 DEF Good, WellPlaced, IInv, TasksOK
<1>3. o.at # "counting"
  <2> SUFFICES ASSUME o.at = "counting" PROVE FALSE
    OBVIOUS
  <2>1. Filed(p.room, o.app) /\ o.shard = ShardOf[p.room]
    BY <1>1 DEF Traced
  <2>2. o.app = p.app /\ o.shard # 0
    BY <1>1, <2>1 DEF Filed
  <2>3. Guard(PoolLock(p.app, ShardOf[p.room]), FALSE) \in Holds(s)
    BY <2>1, <2>2 DEF Holds
  <2>4. Wants(t) = Guard(PoolLock(p.app, ShardOf[p.room]), TRUE)
    BY <1>1 DEF Wants
  <2>5. Excludes(Guard(PoolLock(p.app, ShardOf[p.room]), FALSE), Wants(t))
    BY <2>4 DEF Excludes, Guard
  <2> QED
    BY <1>1, <2>3, <2>5 DEF Granted
<1>4. o.at = "inside" /\ o.use \in {"find", "create", "act", "leave"}
  BY <1>1, <1>2, <1>3 DEF Purposeful, InRoom
<1>5. s \in Conns
  BY <1>1, <1>4 DEF Good, WellUsed, Tasks
<1>6. o.use # "act"
  BY <1>4, <1>5 DEF HomeInv, Seated
<1> QED
  BY <1>2, <1>4, <1>5, <1>6 DEF Claims, InRoom

LEMMA RemoveKeepsHome ==
  ASSUME IInv, HomeInv, NEW t \in Tasks, Remove(t)
  PROVE  HomeInv'
<1> DEFINE p == task[t]
<1>1. /\ p.at = "removing" /\ p.use = "clean" /\ p.app \in Apps /\ p.room \in RoomIds
      /\ Filed(p.room, p.app)
  BY DEF Remove, IInv, TasksOK, Good, WellPlaced, Looking, HomeInv, Purposeful, Traced
<1>2. /\ task'[t] = Rest
      /\ \A u \in Tasks : u # t => task'[u] = task[u]
      /\ listed' = IF Removable(p) THEN [listed EXCEPT ![p.room] = Removed] ELSE listed
      /\ UNCHANGED <<seats, sess>>
  BY DEF Remove, GoesTo, IInv, TasksOK
<1>3. ASSUME NEW u \in Tasks PROVE Purposeful(task'[u]) /\ Traced(task[u])'
  <2>1. CASE u = t
    BY <1>2, <2>1 DEF Rest, Purposeful, Traced, InRoom, Loading
  <2>2. CASE u # t
    BY <1>2, <2>2, FiledStays, OthersTraced DEF HomeInv
  <2> QED
    BY <2>1, <2>2
<1>4. ASSUME NEW c \in Conns PROVE Seated(c, task[c])'
  <2>1. Seated(c, task[c])
    BY DEF HomeInv
  <2> QED
    BY <1>2, <2>1 DEF Seated, Rest, Tasks
<1>5. Claimed'
  <2> SUFFICES ASSUME NEW r \in RoomIds, listed'[r] \in Apps, seats[r] = {}
               PROVE  \E c \in Conns : Claims(task'[c], r)
    BY <1>2 DEF Claimed
  <2>1. listed[r] \in Apps /\ listed'[r] = listed[r]
    BY <1>1, <1>2 DEF IInv, RoomsOK
  <2>2. CASE r # p.room
    <3>1. PICK c \in Conns : Claims(task[c], r)
      BY <2>1 DEF HomeInv, Claimed
    <3>2. c # t
      BY <2>2, <3>1 DEF Claims
    <3> QED
      BY <1>2, <3>1, <3>2 DEF Tasks
  <2>3. CASE r = p.room
    <3>1. listed[r] = p.app
      BY <1>1, <2>1, <2>3 DEF Filed
    <3>2. ~Removable(p)
      BY <1>1, <1>2, <2>1, <2>3 DEF IInv, RoomsOK
    <3>3. PICK s \in Tasks : task[s].locked /\ task[s].room = p.room
      BY <2>3, <3>1, <3>2 DEF Removable
    <3>4. s \in Conns /\ s # t /\ Claims(task[s], r)
      BY <2>3, <3>1, <3>3, LockerClaims
    <3> QED
      BY <1>2, <3>4
  <2> QED
    BY <2>2, <2>3
<1> QED
  BY <1>3, <1>4, <1>5 DEF HomeInv

-----------------------------------------------------------------------------

\* A scan that goes on has found the rooms it visits, and claims none.
LEMMA VisitingIsTraced ==
  ASSUME NEW p \in Place, p.use \in {"list", "stats"}, NEW left \in SUBSET RoomIds,
         \A r \in left : Filed(r, p.app) /\ ShardOf[r] = p.shard,
         NEW q \in Visiting(p, left)
  PROVE  /\ Purposeful(q) /\ Traced(q)
         /\ q.use \notin {"clean", "leave"} /\ (q.use = "act" => q.at = "rest")
<1>1. CASE left # {}
  <2>1. PICK r \in left : q = [p EXCEPT !.at = "reaching", !.room = r, !.left = left \ {r}]
    BY <1>1 DEF Visiting
  <2>2. /\ q.at = "reaching" /\ q.use = p.use /\ q.app = p.app /\ q.shard = p.shard
        /\ {q.room} \cup q.left \subseteq left
    BY <2>1 DEF Place
  <2> QED
    BY <2>2 DEF Purposeful, Traced, InRoom, Loading
<1>2. CASE left = {}
  <2>1. q = Rest \/ (q.at \in {"scanning", "measuring"} /\ q.use = p.use)
    BY <1>2 DEF Visiting, Place
  <2> QED
    BY <2>1, RestIsAloof DEF Aloof, Purposeful, Traced, InRoom, Loading
<1> QED
  BY <1>1, <1>2

LEMMA NextAppIsAloof ==
  ASSUME NEW p \in Place, p.use \in {"list", "stats"}, NEW apps, NEW q \in NextApp(p, apps)
  PROVE  Purposeful(q) /\ Aloof(q)
<1>1. CASE apps # {}
  <2>1. PICK a \in apps : q = [p EXCEPT !.at = "scanning", !.app = a, !.next = 1,
                                        !.apps = apps \ {a}]
    BY <1>1 DEF NextApp
  <2>2. q.at = "scanning" /\ q.use = p.use
    BY <2>1 DEF Place
  <2> QED
    BY <2>2 DEF Purposeful, Aloof, InRoom, Loading
<1>2. CASE apps = {}
  <2>1. q = Rest \/ (q.at = "turning" /\ q.use = p.use)
    BY <1>2 DEF NextApp, Place
  <2> QED
    BY <2>1, RestIsAloof DEF Purposeful, Aloof, InRoom, Loading
<1> QED
  BY <1>1, <1>2

LEMMA ScanStepKeepsHome ==
  ASSUME IInv, HomeInv, NEW t \in Tasks, ScanStep(t)
  PROVE  HomeInv'
<1> DEFINE p == task[t]
<1>1. /\ p \in Place /\ Good(t, p) /\ Traced(p) /\ p.use \in {"list", "stats"}
      /\ p.at \in {"scanning", "reaching", "counting", "measuring", "turning"}
      /\ UNCHANGED <<listed, seats, sess>>
  BY DEF ScanStep, TurnPage, Reach, Count, Measure, Turn, IInv, TasksOK, Good, WellPlaced,
         Scanning, HomeInv, RoomsUnchanged
<1>2. \A r \in RoomIds : ~Claims(p, r)
  BY <1>1, ClaimsNone DEF InRoom
<1>3. ASSUME NEW q, GoesTo(t, q), Purposeful(q), Traced(q),
             q.use \notin {"clean", "leave"}, q.use = "act" => q.at = "rest"
      PROVE  HomeInv'
  <2>1. t \in Conns => Seated(t, q)
    BY <1>3 DEF HomeInv, Seated
  <2> QED
    BY <1>1, <1>2, <1>3, <2>1, HomeMove
<1>4. CASE TurnPage(t)
  <2> DEFINE next == [p EXCEPT !.shard = p.next, !.next = p.next + 1]
             left == RoomsIn(p.app, p.next)
  <2>1. PICK q \in Visiting(next, left) : GoesTo(t, q)
    BY <1>4 DEF TurnPage
  <2>2. p.next \in 0 .. PoolShards /\ p.next + 1 \in 0 .. PoolShards + 1
    BY <1>1, <1>4 DEF TurnPage, Good, WellPlaced
  <2>3. next \in Place /\ next.use = p.use /\ next.app = p.app /\ next.shard = p.next
    BY <1>1, <2>2 DEF Place
  <2>4. left \in SUBSET RoomIds /\ \A r \in left : Filed(r, p.app) /\ ShardOf[r] = p.next
    BY DEF RoomsIn, Filed
  <2> HIDE DEF next, left
  <2> QED
    BY <1>1, <1>3, <2>1, <2>3, <2>4, VisitingIsTraced
<1>5. CASE Reach(t)
  <2> DEFINE q == [p EXCEPT !.at = "counting", !.locked = TRUE]
  <2>1. GoesTo(t, q) /\ p.at = "reaching"
    BY <1>5 DEF Reach
  <2>2. /\ q.at = "counting" /\ q.use = p.use /\ q.app = p.app /\ q.shard = p.shard
        /\ q.room = p.room /\ q.left = p.left
    BY <1>1 DEF Place
  <2>3. Purposeful(q) /\ Traced(q)
    BY <1>1, <2>1, <2>2 DEF Purposeful, Traced, InRoom, Loading
  <2> HIDE DEF q
  <2> QED
    BY <1>1, <1>3, <2>1, <2>2, <2>3
<1>6. CASE Count(t)
  <2> DEFINE free == [p EXCEPT !.locked = FALSE]
  <2>1. PICK q \in Visiting(free, p.left) : GoesTo(t, q)
    BY <1>6 DEF Count
  <2>2. /\ free \in Place /\ free.use = p.use /\ free.app = p.app /\ free.shard = p.shard
        /\ p.left \in SUBSET RoomIds
    BY <1>1 DEF Place
  <2>3. \A r \in p.left : Filed(r, p.app) /\ ShardOf[r] = p.shard
    BY <1>1, <1>6 DEF Count, Traced
  <2> HIDE DEF free
  <2> QED
    BY <1>1, <1>3, <2>1, <2>2, <2>3, VisitingIsTraced
<1>7. CASE Measure(t) /\ p.next < PoolShards
  <2> DEFINE q == [p EXCEPT !.next = p.next + 1]
  <2>1. GoesTo(t, q) /\ p.at = "measuring"
    BY <1>7 DEF Measure
  <2>2. q.at = "measuring" /\ q.use = p.use
    BY <1>1, <2>1 DEF Place
  <2>3. Purposeful(q) /\ Aloof(q)
    BY <1>1, <2>2 DEF Purposeful, Aloof, InRoom, Loading
  <2> QED
    BY <1>1, <1>2, <2>1, <2>3, AloofMove
<1>8. CASE Measure(t) /\ ~(p.next < PoolShards)
  <2>1. PICK q \in NextApp(p, p.apps) : GoesTo(t, q)
    BY <1>8 DEF Measure
  <2> QED
    BY <1>1, <1>2, <2>1, NextAppIsAloof, AloofMove
<1>9. CASE Turn(t)
  <2> DEFINE next == [p EXCEPT !.reg = p.reg + 1]
  <2>1. PICK q \in NextApp(next, {a \in pools : RegShardOf[a] = p.reg + 1}) : GoesTo(t, q)
    BY <1>9 DEF Turn
  <2>2. p.reg + 1 \in 0 .. RegShards
    BY <1>1, <1>9 DEF Turn, Good, WellPlaced, Place
  <2>3. next \in Place /\ next.use = p.use
    BY <1>1, <2>2 DEF Place
  <2> HIDE DEF next
  <2>4. Purposeful(q) /\ Aloof(q)
    BY <1>1, <2>1, <2>3, NextAppIsAloof
  <2> QED
    BY <1>1, <1>2, <2>1, <2>4, AloofMove
<1> QED
  BY <1>4, <1>5, <1>6, <1>7, <1>8, <1>9 DEF ScanStep

LEMMA BeginKeepsHome ==
  ASSUME IInv, HomeInv, Begin
  PROVE  HomeInv'
<1>1. ASSUME NEW c \in Conns, BeginNamed(c) PROVE HomeInv'
  <2>1. PICK a \in Apps : \E p \in Named(a) : Checked(c, p)
    BY <1>1 DEF BeginNamed
  <2>2. PICK p \in Named(a) : Checked(c, p)
    BY <2>1
  <2>3. p \in Place /\ p.reg = 0 /\ p.use \in {"find", "create", "list"}
    BY NamedIsGood DEF Named, Rest
  <2>4. PICK q : GoesTo(c, q) /\ Purposeful(q) /\ Aloof(q)
    BY <2>2, <2>3, CheckedLeads DEF Tasks
  <2>5. UNCHANGED <<listed, seats, sess>> /\ \A r \in RoomIds : ~Claims(task[c], r)
    BY <1>1, ClaimsNone DEF BeginNamed, RoomsUnchanged, InRoom, Tasks
  <2> QED
    BY <2>4, <2>5, AloofMove DEF Tasks
<1>2. ASSUME NEW c \in Conns, BeginSeated(c) PROVE HomeInv'
  <2>1. PICK use \in {"act", "leave"} :
          /\ GoesTo(c, [Rest EXCEPT !.at = "opening", !.use = use,
                                    !.app = sess[c].app, !.room = sess[c].room])
          /\ sess' = IF use = "leave" THEN [sess EXCEPT ![c] = Nothing] ELSE sess
    BY <1>2 DEF BeginSeated
  <2> DEFINE q == [Rest EXCEPT !.at = "opening", !.use = use,
                               !.app = sess[c].app, !.room = sess[c].room]
  <2>2. q.at = "opening" /\ q.use = use /\ q.room = sess[c].room
    BY DEF Rest
  <2>3. /\ task'[c] = q
        /\ \A u \in Tasks : u # c => task'[u] = task[u]
        /\ UNCHANGED <<listed, seats>>
        /\ \A d \in Conns : d # c => sess'[d] = sess[d]
        /\ sess'[c] = IF use = "leave" THEN Nothing ELSE sess[c]
    BY <1>2, <2>1 DEF BeginSeated, GoesTo, IInv, TasksOK, RoomsOK, Tasks
  <2> HIDE DEF q
  <2>4. c \in seats[sess[c].room]
    BY <1>2 DEF BeginSeated, HomeInv, Seated
  <2>5. ASSUME NEW u \in Tasks PROVE Purposeful(task'[u]) /\ Traced(task[u])'
    <3>1. CASE u = c
      BY <2>2, <2>3, <3>1 DEF Purposeful, Traced, InRoom, Loading
    <3>2. CASE u # c
      BY <2>3, <3>2 DEF HomeInv, Traced, Filed
    <3> QED
      BY <3>1, <3>2
  <2>6. ASSUME NEW d \in Conns PROVE Seated(d, task[d])'
    <3>1. Seated(d, task[d])
      BY DEF HomeInv
    <3>2. CASE d = c
      BY <2>2, <2>3, <2>4, <3>1, <3>2 DEF Seated
    <3>3. CASE d # c
      BY <2>3, <3>1, <3>3 DEF Seated, Tasks
    <3> QED
      BY <3>2, <3>3
  <2>7. Claimed'
    <3> SUFFICES ASSUME NEW r \in RoomIds, listed[r] \in Apps, seats[r] = {}
                 PROVE  \E d \in Conns : Claims(task'[d], r)
      BY <2>3 DEF Claimed
    <3>1. PICK d \in Conns : Claims(task[d], r)
      BY DEF HomeInv, Claimed
    <3>2. d # c
      BY <1>2, <3>1, ClaimsNone DEF BeginSeated, InRoom, Tasks
    <3> QED
      BY <2>3, <3>1, <3>2 DEF Tasks
  <2> QED
    BY <2>5, <2>6, <2>7 DEF HomeInv
<1>3. ASSUME NEW t \in Watchers, BeginStats(t) PROVE HomeInv'
  <2> DEFINE q == [Rest EXCEPT !.at = "turning", !.use = "stats"]
  <2>1. Purposeful(q) /\ Aloof(q)
    BY DEF Rest, Purposeful, Aloof, InRoom, Loading
  <2>2. \A r \in RoomIds : ~Claims(task[t], r)
    BY <1>3, ClaimsNone DEF BeginStats, InRoom, Tasks
  <2> QED
    BY <1>3, <2>1, <2>2, AloofMove DEF BeginStats, RoomsUnchanged, Tasks
<1> QED
  BY <1>1, <1>2, <1>3 DEF Begin

LEMMA NextKeepsHome == IInv /\ HomeInv /\ [Next]_vars => HomeInv'
<1> SUFFICES ASSUME IInv, HomeInv, [Next]_vars PROVE HomeInv'
  OBVIOUS
<1>1. ASSUME NEW t \in Tasks, RoomStep(t) PROVE HomeInv'
  BY <1>1, WalkKeepsHome, OpenKeepsHome, FindKeepsHome, CreateKeepsHome, CollideKeepsHome,
     SitKeepsHome, VacateKeepsHome, RemoveKeepsHome DEF RoomStep
<1>2. CASE UNCHANGED <<listed, seats, sess, task>>
  BY <1>2 DEF HomeInv, Traced, Filed, Seated, Claimed
<1>3. UNCHANGED vars \/ Edit \/ Terminated => UNCHANGED <<listed, seats, sess, task>>
  BY DEF vars, Edit, RoomsUnchanged, Terminated
<1> QED
  BY <1>1, <1>2, <1>3, LoadStepKeepsHome, ScanStepKeepsHome, BeginKeepsHome DEF Next, Work

LEMMA InitIsHome == Init => HomeInv
<1> SUFFICES ASSUME Init PROVE HomeInv
  OBVIOUS
<1>1. \A t \in Tasks : Purposeful(task[t]) /\ Traced(task[t])
  BY RestIsAloof DEF Init, Traced, Aloof
<1>2. \A c \in Conns : Seated(c, task[c])
  BY RestIsAloof DEF Init, Seated, Aloof, Tasks
<1>3. Claimed
  BY DEF Init, Claimed
<1> QED
  BY <1>1, <1>2, <1>3 DEF HomeInv

\* An empty room of a pool is always on the hands of somebody who is about to sit in it
\* or to clean it up, for any number of scans: the try_lock of pool.rs:95-104 only fails
\* against a mutex whose owner has a claim to the room, because a scan (pool.rs:109-133)
\* keeps the guard of the shard in which it locks rooms.
THEOREM EmptyRoomsAreClaimed == Spec => []EmptyRoomClaimed
<1> USE InitHasInvariant, NextKeepsInvariant, InitIsHome, NextKeepsHome
<1>1. IInv /\ HomeInv => EmptyRoomClaimed
  BY DEF HomeInv, Claimed, Claims, EmptyRoomClaimed, InRoom
<1> QED
  BY <1>1, PTL DEF Spec

=============================================================================
