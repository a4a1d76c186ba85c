------------------------ MODULE RoomRegistry_proofs ------------------------
(***************************************************************************)
(* Type correctness, SeatOwned, OneSeat and NoRoomLost of RoomRegistry,    *)
(* that it implements Lobby, and what is said of hosts, sizes, sides, the  *)
(* identity of peers and empty rooms, for every number of connections,     *)
(* rooms, codes and peer ids, every choice of requests, dropped tasks and  *)
(* recycled codes.                                                         *)
(*                                                                         *)
(* Each action lets one connection go on and changes at most one room.     *)
(* Lemma Frame says what must be shown of such a step; the lemmas after it *)
(* show it action by action.                                               *)
(***************************************************************************)
EXTENDS RoomRegistry, RoomState_proofs

\* The shapes of a task are told apart by where it is.
LEMMA TaskShape ==
  ASSUME NEW t \in Task
  PROVE  /\ t.at = "joining" => \E r \in RoomIds : t = Joining(r)
         /\ t.at = "acting" => \E r \in RoomIds : t = Acting(r)
         /\ t.at = "leaving" =>
              \E r \in RoomIds, p \in PeerIds, then \in Afterwards : t = Leaving(r, p, then)
         /\ t.at = "cleaning" =>
              \E code \in Codes, then \in Afterwards : t = Cleaning(code, then)
         /\ t.at = "idle" => t = Idle
         /\ t.at = "aborted" => t = Aborted
BY DEF Task, Joining, Acting, Leaving, Cleaning, Idle, Entering, Down, Aborted

\* The tasks that actions build are tasks.
LEMMA TaskTypes ==
  /\ Idle \in Task /\ Entering \in Task /\ Down \in Task /\ Aborted \in Task
  /\ \A then \in Afterwards : then \in Task /\ then.at \notin {"joining", "acting", "leaving"}
  /\ \A r \in RoomIds : Joining(r) \in Task /\ Acting(r) \in Task
  /\ \A r \in RoomIds, p \in PeerIds, then \in Afterwards : Leaving(r, p, then) \in Task
  /\ \A code \in Codes, then \in Afterwards : Cleaning(code, then) \in Task
BY DEF Task, Afterwards, Joining, Acting, Leaving, Cleaning, Idle, Entering, Down, Aborted

\* What a step of connection c, which goes on at t with the rooms as rs, has to
\* satisfy for the invariant to hold after it.
LEMMA Frame ==
  ASSUME RegistryInv,
         NEW c \in Conns, NEW t \in Task, NEW rs \in [RoomIds -> Room],
         GoesOn(c, t, rs),
         pool' \in [Codes -> RoomIds \cup {NoRoom}],
         sess' \in [Conns -> Session \cup {NoSession}],
         issued' \subseteq Codes,
         \A d \in Conns \ {c} : sess'[d] = sess[d],
         sess'[c] # NoSession => t.at \in {"idle", "acting"},
         \A code \in Codes : pool'[code] # NoRoom => rs[pool'[code]].code = code,
         \A r \in RoomIds :
           HoldsRoom(t, r) \/ (\E d \in Conns \ {c} : HoldsRoom(task[d], r)) => rs[r].code \in Codes,
         \A r \in RoomIds, p \in PeerIds, d \in Conns \ {c} :
           Registered(r)' /\ Sits(rs[r], p, d) =>
             Registered(r) /\ Sits(rooms[r], p, d) /\ rs[r].code = rooms[r].code,
         \A r \in RoomIds, p \in PeerIds :
           Registered(r)' /\ Sits(rs[r], p, c) =>
             \/ t = Aborted
             \/ sess'[c] = [code |-> rs[r].code, peer |-> p]
             \/ t.at = "leaving" /\ t.room = r /\ t.peer = p
  PROVE  RegistryInv'
<1>1. task' = [task EXCEPT ![c] = t] /\ task' \in [Conns -> Task]
  BY DEF GoesOn, RegistryInv, TypeOK
<1>2. task'[c] = t /\ \A d \in Conns \ {c} : task'[d] = task[d]
  BY <1>1 DEF RegistryInv, TypeOK
<1>3. \A r \in RoomIds :
        Registered(r)' \/ (\E d \in Conns : HoldsRoom(task'[d], r)) => rooms'[r] = rs[r]
  BY DEF GoesOn, Collected, Registered
<1>4. NoSuchRoom \in Room
  BY NewRoomIsEmpty, SettingsAssumption DEF NoSuchRoom
<1>5. TypeOK'
  BY <1>1, <1>4 DEF TypeOK, GoesOn, Collected
<1>6. PoolNamesRooms'
  BY <1>3 DEF PoolNamesRooms, Registered
<1>7. HeldRoomsExist'
  BY <1>2, <1>3 DEF HeldRoomsExist
<1>8. SessionAtRest'
  BY <1>2 DEF SessionAtRest, RegistryInv
<1>9. SeatOwned'
  <2> SUFFICES ASSUME NEW r \in RoomIds, NEW p \in PeerIds, NEW d \in Conns,
                      Registered(r)', Sits(rs[r], p, d)
               PROVE  OwnsSeat(d, r, p)'
    BY <1>3 DEF SeatOwned
  <2>1. rooms'[r] = rs[r]
    BY <1>3
  <2>2. CASE d = c
    BY <1>2, <2>1, <2>2 DEF OwnsSeat
  <2>3. CASE d # c
    <3>1. OwnsSeat(d, r, p) /\ rs[r].code = rooms[r].code
      BY <2>3 DEF RegistryInv, SeatOwned
    <3> QED
      BY <1>2, <2>1, <2>3, <3>1 DEF OwnsSeat
  <2> QED
    BY <2>2, <2>3
<1> QED
  BY <1>5, <1>6, <1>7, <1>8, <1>9 DEF RegistryInv

-----------------------------------------------------------------------------
(* Two facts about the seats of the connection that takes the step.        *)

\* A connection that is entering, joining, cleaning up or closed sits nowhere.
LEMMA SeatlessBetween ==
  ASSUME RegistryInv, NEW c \in Conns,
         task[c].at \notin {"idle", "acting", "leaving", "aborted"},
         NEW r \in RoomIds, NEW p \in PeerIds, Registered(r), Sits(rooms[r], p, c)
  PROVE  FALSE
<1>1. OwnsSeat(c, r, p) /\ rooms[r].code \in Codes
  BY NoRoomAssumption DEF RegistryInv, SeatOwned, PoolNamesRooms, Registered
<1>2. sess[c] = NoSession
  BY DEF RegistryInv, SessionAtRest
<1>3. [code |-> rooms[r].code, peer |-> p] \in Session
  BY <1>1 DEF Session
<1> QED
  BY <1>1, <1>2, <1>3, NoSessionAssumption DEF OwnsSeat, Aborted

\* The session of a connection at rest names its seat, and the pool the room.
LEMMA SeatByName ==
  ASSUME RegistryInv, NEW c \in Conns, task[c].at \in {"idle", "acting"},
         NEW r \in RoomIds, NEW p \in PeerIds, Registered(r), Sits(rooms[r], p, c)
  PROVE  /\ sess[c] = [code |-> rooms[r].code, peer |-> p]
         /\ sess[c] # NoSession
         /\ pool[sess[c].code] = r
         /\ sess[c].peer = p
<1>1. sess[c] = [code |-> rooms[r].code, peer |-> p]
  BY DEF RegistryInv, SeatOwned, OwnsSeat, Aborted
<1>2. PICK code \in Codes : pool[code] = r /\ rooms[r].code = code
  BY NoRoomAssumption DEF RegistryInv, PoolNamesRooms, Registered
<1>3. sess[c] \in Session
  BY <1>1, <1>2 DEF Session
<1> QED
  BY <1>1, <1>2, <1>3, NoSessionAssumption

-----------------------------------------------------------------------------
(* The steps that change no room.                                          *)

\* A step of c that leaves the pool, its session and all rooms as they are, and
\* does not begin or end a leave.
LEMMA QuietStep ==
  ASSUME RegistryInv, NEW c \in Conns, NEW t \in Task,
         GoesOn(c, t, rooms), UNCHANGED <<pool, sess, issued>>,
         sess[c] # NoSession => t.at \in {"idle", "acting"},
         task[c].at \notin {"leaving", "aborted"},
         \A r \in RoomIds : HoldsRoom(t, r) => rooms[r].code \in Codes
  PROVE  RegistryInv'
<1>1. rooms \in [RoomIds -> Room] /\ issued \subseteq Codes
      /\ pool \in [Codes -> RoomIds \cup {NoRoom}] /\ sess \in [Conns -> Session \cup {NoSession}]
  BY DEF RegistryInv, TypeOK
<1>2. ASSUME NEW r \in RoomIds, NEW p \in PeerIds, Registered(r), Sits(rooms[r], p, c)
      PROVE  sess[c] = [code |-> rooms[r].code, peer |-> p]
  <2>1. CASE task[c].at \in {"idle", "acting"}
    BY <1>2, <2>1, SeatByName
  <2>2. CASE task[c].at \notin {"idle", "acting"}
    BY <1>2, <2>2, SeatlessBetween
  <2> QED
    BY <2>1, <2>2
<1>3. \A r \in RoomIds : Registered(r)' <=> Registered(r)
  BY DEF Registered
<1>4. \A code \in Codes : pool'[code] # NoRoom => rooms[pool'[code]].code = code
  BY DEF RegistryInv, PoolNamesRooms
<1>5. \A r \in RoomIds :
        HoldsRoom(t, r) \/ (\E d \in Conns \ {c} : HoldsRoom(task[d], r))
          => rooms[r].code \in Codes
  BY DEF RegistryInv, HeldRoomsExist
<1> QED
  BY <1>1, <1>2, <1>3, <1>4, <1>5, Frame

\* Taking the session and looking its room up: from the step on, the seat is
\* answered for by the leave (mod.rs:368-370, dispatch.rs:40-42 and 300-306).
LEMMA LeaveBegins ==
  ASSUME RegistryInv, NEW c \in Conns, NEW then \in Afterwards, NEW t,
         task[c] = Idle,
         t = IF sess[c] = NoSession THEN then ELSE StartsLeaving(c, then),
         GoesOn(c, t, rooms), UNCHANGED <<pool, issued>>,
         sess' = [sess EXCEPT ![c] = NoSession]
  PROVE  RegistryInv'
<1>1. /\ rooms \in [RoomIds -> Room] /\ issued \subseteq Codes
      /\ pool \in [Codes -> RoomIds \cup {NoRoom}]
      /\ sess \in [Conns -> Session \cup {NoSession}]
      /\ sess' \in [Conns -> Session \cup {NoSession}]
      /\ sess'[c] = NoSession
      /\ \A d \in Conns \ {c} : sess'[d] = sess[d]
  BY DEF RegistryInv, TypeOK
<1>2. \/ t = then
      \/ /\ sess[c] \in Session
         /\ pool[sess[c].code] \in RoomIds
         /\ t = Leaving(pool[sess[c].code], sess[c].peer, then)
  BY <1>1 DEF StartsLeaving, Session
<1>3. t \in Task
  BY <1>2, TaskTypes DEF Session
<1>4. ASSUME NEW r \in RoomIds, HoldsRoom(t, r)
      PROVE  rooms[r].code \in Codes
  <2>1. sess[c] \in Session /\ pool[sess[c].code] = r
    BY <1>2, <1>4, TaskTypes DEF HoldsRoom, Leaving
  <2> QED
    BY <2>1, NoRoomAssumption DEF RegistryInv, PoolNamesRooms, Session
<1>5. ASSUME NEW r \in RoomIds, NEW p \in PeerIds, Registered(r), Sits(rooms[r], p, c)
      PROVE  t.at = "leaving" /\ t.room = r /\ t.peer = p
  <2>1. sess[c] # NoSession /\ pool[sess[c].code] = r /\ sess[c].peer = p
    <3>1. task[c].at \in {"idle", "acting"}
      BY DEF Idle
    <3> QED
      BY <1>5, <3>1, SeatByName
  <2>2. t = Leaving(r, p, then)
    BY <1>5, <2>1, NoRoomAssumption DEF StartsLeaving
  <2> QED
    BY <2>2 DEF Leaving
<1>6. \A r \in RoomIds : Registered(r)' <=> Registered(r)
  BY DEF Registered
<1>7. \A code \in Codes : pool'[code] # NoRoom => rooms[pool'[code]].code = code
  BY DEF RegistryInv, PoolNamesRooms
<1>8. \A r \in RoomIds :
        HoldsRoom(t, r) \/ (\E d \in Conns \ {c} : HoldsRoom(task[d], r))
          => rooms[r].code \in Codes
  BY <1>4 DEF RegistryInv, HeldRoomsExist
<1> QED
  BY <1>1, <1>3, <1>5, <1>6, <1>7, <1>8, Frame

\* A task at rest begins a Hello, a leave, another request or its end.
LEMMA BeginStepInv ==
  ASSUME RegistryInv, NEW c \in Conns, BeginStep(c)
  PROVE  RegistryInv'
<1>1. Entering \in Afterwards /\ Idle \in Afterwards /\ Down \in Afterwards
  BY DEF Afterwards
<1>2. CASE BeginHello(c)
  BY <1>1, <1>2, LeaveBegins DEF BeginHello
<1>3. CASE BeginLeave(c)
  BY <1>1, <1>3, LeaveBegins DEF BeginLeave
<1>4. CASE Disconnect(c)
  BY <1>1, <1>4, LeaveBegins DEF Disconnect
<1>5. CASE BeginAct(c)
  <2> DEFINE t == Acting(pool[sess[c].code])
  <2>1. sess[c] \in Session /\ pool[sess[c].code] \in RoomIds
    BY <1>5 DEF BeginAct, RegistryInv, TypeOK, Session
  <2>2. t \in Task /\ t.at = "acting" /\ task[c].at = "idle"
    BY <1>5, <2>1, TaskTypes DEF Acting, BeginAct, Idle
  <2>3. \A r \in RoomIds : HoldsRoom(t, r) => rooms[r].code \in Codes
    BY <1>5, <2>1 DEF HoldsRoom, Acting, BeginAct, RegistryInv, PoolNamesRooms, Session
  <2>4. GoesOn(c, t, rooms) /\ UNCHANGED <<pool, sess, issued>>
    BY <1>5 DEF BeginAct
  <2> QED
    BY <2>2, <2>3, <2>4, QuietStep
<1> QED
  BY <1>2, <1>3, <1>4, <1>5 DEF BeginStep

\* A dropped task leaves its seats behind.
LEMMA AbortInv ==
  ASSUME RegistryInv, NEW c \in Conns, Abort(c)
  PROVE  RegistryInv'
<1>1. /\ rooms \in [RoomIds -> Room] /\ issued \subseteq Codes
      /\ pool \in [Codes -> RoomIds \cup {NoRoom}]
      /\ sess' \in [Conns -> Session \cup {NoSession}]
      /\ sess'[c] = NoSession
      /\ \A d \in Conns \ {c} : sess'[d] = sess[d]
  BY DEF RegistryInv, TypeOK, Abort
<1>2. GoesOn(c, Aborted, rooms) /\ UNCHANGED <<pool, issued>>
  BY DEF Abort
<1>3. \A r \in RoomIds : (Registered(r)' <=> Registered(r)) /\ ~HoldsRoom(Aborted, r)
  BY <1>2 DEF Registered, HoldsRoom, Aborted
<1>4. \A code \in Codes : pool'[code] # NoRoom => rooms[pool'[code]].code = code
  BY <1>2 DEF RegistryInv, PoolNamesRooms
<1>5. \A r \in RoomIds :
        HoldsRoom(Aborted, r) \/ (\E d \in Conns \ {c} : HoldsRoom(task[d], r))
          => rooms[r].code \in Codes
  BY <1>3 DEF RegistryInv, HeldRoomsExist
<1> QED
  BY <1>1, <1>2, <1>3, <1>4, <1>5, TaskTypes, Frame

-----------------------------------------------------------------------------
(* Finding, creating and entering a room.                                  *)

\* A rejected Hello ends outside every room.
LEMMA RejectHelloInv ==
  ASSUME RegistryInv, NEW c \in Conns, RejectHello(c)
  PROVE  RegistryInv'
<1>1. task[c].at = "entering" /\ GoesOn(c, Idle, rooms) /\ UNCHANGED <<pool, sess, issued>>
  BY DEF RejectHello, Entering
<1>2. Idle.at = "idle" /\ \A r \in RoomIds : ~HoldsRoom(Idle, r)
  BY DEF Idle, HoldsRoom
<1> QED
  BY <1>1, <1>2, TaskTypes, QuietStep

\* A joiner is handed a room that the pool names (get_room, pool.rs:37-41).
LEMMA FindRoomInv ==
  ASSUME RegistryInv, NEW c \in Conns, NEW code \in Codes, FindRoom(c, code)
  PROVE  RegistryInv'
<1> DEFINE t == Joining(pool[code])
<1>1. /\ task[c].at = "entering" /\ GoesOn(c, t, rooms)
      /\ UNCHANGED <<pool, sess, issued>>
  BY DEF FindRoom, Entering
<1>2. pool[code] \in RoomIds /\ rooms[pool[code]].code \in Codes
  BY DEF FindRoom, RegistryInv, TypeOK, PoolNamesRooms
<1>3. t \in Task /\ \A r \in RoomIds : HoldsRoom(t, r) => rooms[r].code \in Codes
  BY <1>2, TaskTypes DEF HoldsRoom, Joining
<1>4. sess[c] = NoSession
  BY <1>1 DEF RegistryInv, SessionAtRest
<1> QED
  BY <1>1, <1>3, <1>4, QuietStep

\* A room object is given a code when neither the pool nor a task has it.
LEMMA CreateRoomInv ==
  ASSUME RegistryInv, NEW c \in Conns, NEW code \in Codes, NEW r \in RoomIds,
         CreateRoom(c, code, r)
  PROVE  RegistryInv'
<1> DEFINE t == Joining(r)
           fresh == NewRoom(code, DefaultSettings)
           rs == [rooms EXCEPT ![r] = fresh]
<1>1. /\ task[c].at = "entering" /\ GoesOn(c, t, rs) /\ sess' = sess
      /\ pool' = [pool EXCEPT ![code] = r]
  BY DEF CreateRoom, Entering
<1>2. fresh \in Room /\ fresh.code = code /\ \A p, d : ~Sits(fresh, p, d)
  BY NewRoomIsEmpty, SettingsAssumption
<1>3. /\ rs \in [RoomIds -> Room] /\ rs[r] = fresh
      /\ \A q \in RoomIds \ {r} : rs[q] = rooms[q]
  BY <1>2 DEF RegistryInv, TypeOK
<1>4. pool' \in [Codes -> RoomIds \cup {NoRoom}] /\ issued' \subseteq Codes
      /\ sess' \in [Conns -> Session \cup {NoSession}]
  BY <1>1 DEF CreateRoom, RegistryInv, TypeOK
<1>5. t \in Task /\ sess[c] = NoSession
  BY <1>1, TaskTypes DEF RegistryInv, SessionAtRest
<1>6. ~Registered(r) /\ \A d \in Conns : ~HoldsRoom(task[d], r)
  BY DEF CreateRoom, IsFree
<1>7. ASSUME NEW k \in Codes, pool'[k] # NoRoom
      PROVE  rs[pool'[k]].code = k
  <2>1. CASE k = code
    BY <1>1, <1>2, <1>3, <2>1 DEF RegistryInv, TypeOK
  <2>2. CASE k # code
    <3>1. pool'[k] = pool[k] /\ pool[k] \in RoomIds /\ pool[k] # r
      BY <1>1, <1>6, <1>7, <2>2 DEF RegistryInv, TypeOK, Registered
    <3> QED
      BY <1>3, <1>7, <3>1 DEF RegistryInv, PoolNamesRooms
  <2> QED
    BY <2>1, <2>2
<1>8. \A q \in RoomIds :
        HoldsRoom(t, q) \/ (\E d \in Conns \ {c} : HoldsRoom(task[d], q)) => rs[q].code \in Codes
  BY <1>2, <1>3 DEF RegistryInv, HeldRoomsExist, HoldsRoom, Joining
<1>9. ASSUME NEW q \in RoomIds, NEW p \in PeerIds, NEW d \in Conns,
             Registered(q)', Sits(rs[q], p, d)
      PROVE  Registered(q) /\ Sits(rooms[q], p, d) /\ rs[q].code = rooms[q].code
  <2>1. q # r
    BY <1>2, <1>3, <1>9
  <2>2. Registered(q)
    BY <1>1, <1>9, <2>1 DEF Registered, RegistryInv, TypeOK
  <2> QED
    BY <1>3, <1>9, <2>1, <2>2
<1>10. \A q \in RoomIds, p \in PeerIds : ~(Registered(q)' /\ Sits(rs[q], p, c))
  BY <1>1, <1>9, SeatlessBetween
<1>11. sess'[c] = NoSession /\ \A d \in Conns \ {c} : sess'[d] = sess[d]
  BY <1>1, <1>5
<1> HIDE DEF t, rs, fresh
<1> QED
  BY <1>1, <1>3, <1>4, <1>5, <1>7, <1>8, <1>9, <1>10, <1>11, Frame

\* The joiner's session names the seat it was just given; it had no other.
LEMMA JoinInv ==
  ASSUME RegistryInv, NEW c \in Conns, NEW hash \in Hashes, Join(c, hash)
  PROVE  RegistryInv'
<1> DEFINE r == task[c].room
           room == rooms[r]
           peer == NextPeerId(room)
           seat == [conn |-> c, hash |-> hash, side |-> NextAvailableSide(room)]
           new == TakeSeat(AdvancePeerId(room), peer, seat)
           rs == [rooms EXCEPT ![r] = new]
<1>1. /\ task[c].at = "joining" /\ r \in RoomIds /\ room \in Room /\ HoldsRoom(task[c], r)
      /\ rooms \in [RoomIds -> Room] /\ FreePeerIds(room) # {}
  <2>1. task[c] \in Task /\ task[c].at = "joining" /\ FreePeerIds(room) # {}
    BY DEF Join, RegistryInv, TypeOK
  <2>2. r \in RoomIds
    BY <2>1, TaskShape DEF Joining
  <2> QED
    BY <2>1, <2>2 DEF RegistryInv, TypeOK, HoldsRoom
<1>2. /\ GoesOn(c, Idle, rs) /\ pool' = pool /\ issued' = issued
      /\ sess' = [sess EXCEPT ![c] = [code |-> room.code, peer |-> peer]]
  BY DEF Join
<1>3. peer \in PeerIds /\ seat \in Seat /\ room.code \in Codes
  <2>1. peer \in PeerIds
    BY <1>1, NextPeerIdIsFree DEF FreePeerIds
  <2>2. seat \in Seat
    BY <1>1, NextAvailableSideIsFree DEF Seat
  <2> QED
    BY <1>1, <2>1, <2>2 DEF RegistryInv, HeldRoomsExist
<1>4. /\ new \in Room /\ new.code = room.code
      /\ \A p \in PeerIds, d \in Conns :
           Sits(new, p, d) => Sits(room, p, d) \/ (p = peer /\ d = c)
  <2> DEFINE adv == AdvancePeerId(room)
  <2>1. adv \in Room /\ adv = [room EXCEPT !.next = adv.next]
    BY <1>1, AdvanceKeepsSeats
  <2>2. adv.clients = room.clients /\ adv.pending = room.pending /\ adv.code = room.code
    BY <1>1, <2>1 DEF Room
  <2>3. \A p \in PeerIds, d \in Conns : Sits(adv, p, d) => Sits(room, p, d)
    BY <2>2 DEF Sits
  <2>4. seat.conn = c
    OBVIOUS
  <2>5. /\ TakeSeat(adv, peer, seat) \in Room
        /\ TakeSeat(adv, peer, seat).code = adv.code
        /\ \A p \in PeerIds, d \in Conns :
             Sits(TakeSeat(adv, peer, seat), p, d) => Sits(adv, p, d) \/ (p = peer /\ d = c)
    <3> HIDE DEF adv, seat, peer
    <3> QED
      BY <1>3, <2>1, <2>4, TakeSeatAddsOne
  <2> QED
    BY <2>2, <2>3, <2>5
<1>5. /\ rs \in [RoomIds -> Room] /\ rs[r] = new
      /\ \A q \in RoomIds \ {r} : rs[q] = rooms[q]
      /\ \A q \in RoomIds : rs[q].code = rooms[q].code
  BY <1>1, <1>4
<1>6. /\ sess' \in [Conns -> Session \cup {NoSession}]
      /\ sess'[c] = [code |-> room.code, peer |-> peer]
      /\ \A d \in Conns \ {c} : sess'[d] = sess[d]
  BY <1>2, <1>3 DEF RegistryInv, TypeOK, Session
<1>7. pool' \in [Codes -> RoomIds \cup {NoRoom}] /\ issued' \subseteq Codes
      /\ \A q \in RoomIds : Registered(q)' <=> Registered(q)
  BY <1>2 DEF RegistryInv, TypeOK, Registered
<1>8. \A code \in Codes : pool'[code] # NoRoom => rs[pool'[code]].code = code
  BY <1>2, <1>5 DEF RegistryInv, TypeOK, PoolNamesRooms
<1>9. /\ Idle \in Task /\ Idle.at = "idle"
      /\ \A q \in RoomIds :
           HoldsRoom(Idle, q) \/ (\E d \in Conns \ {c} : HoldsRoom(task[d], q))
             => rs[q].code \in Codes
  BY <1>5, TaskTypes DEF RegistryInv, HeldRoomsExist, HoldsRoom, Idle
<1>10. ASSUME NEW q \in RoomIds, NEW p \in PeerIds, NEW d \in Conns \ {c}, Sits(rs[q], p, d)
       PROVE  Sits(rooms[q], p, d)
  BY <1>4, <1>5, <1>10
<1>11. ASSUME NEW q \in RoomIds, NEW p \in PeerIds, Registered(q), Sits(rs[q], p, c)
       PROVE  sess'[c] = [code |-> rs[q].code, peer |-> p]
  <2>1. ~Sits(rooms[q], p, c)
    BY <1>1, <1>11, SeatlessBetween
  <2>2. q = r /\ p = peer
    BY <1>4, <1>5, <1>11, <2>1
  <2> QED
    BY <1>5, <1>6, <2>2
<1> HIDE DEF rs, new, room, r, peer
<1> QED
  BY <1>2, <1>5, <1>6, <1>7, <1>8, <1>9, <1>10, <1>11, Frame

\* A refused joiner changes at most the room's counter.
LEMMA JoinRefusedInv ==
  ASSUME RegistryInv, NEW c \in Conns, NEW hash \in Hashes, JoinRefused(c, hash)
  PROVE  RegistryInv'
<1>1. task[c].at = "joining" /\ GoesOn(c, Idle, rooms) /\ UNCHANGED <<pool, sess, issued>>
  BY DEF JoinRefused
<1>2. Idle.at = "idle" /\ \A r \in RoomIds : ~HoldsRoom(Idle, r)
  BY DEF Idle, HoldsRoom
<1> QED
  BY <1>1, <1>2, TaskTypes, QuietStep

-----------------------------------------------------------------------------
(* The steps that change a room without seating anybody.                   *)

\* Where a room is replaced by one within it, nobody sits who did not sit there.
LEMMA SatBefore ==
  ASSUME TypeOK, NEW r \in RoomIds, NEW new, SeatsWithin(new, rooms[r]),
         NEW q \in RoomIds, NEW p \in PeerIds, NEW c \in Conns,
         Sits([rooms EXCEPT ![r] = new][q], p, c)
  PROVE  Sits(rooms[q], p, c)
<1>1. [rooms EXCEPT ![r] = new][q] = IF q = r THEN new ELSE rooms[q]
  BY DEF TypeOK
<1> QED
  BY <1>1, WithinSits

\* c turns the room r that it holds into new, whose seats r had, and goes on at t;
\* pool and sessions stay.
LEMMA RoomStep ==
  ASSUME RegistryInv, NEW c \in Conns, NEW t \in Task, NEW r \in RoomIds, NEW new,
         SeatsWithin(new, rooms[r]),
         GoesOn(c, t, [rooms EXCEPT ![r] = new]),
         UNCHANGED <<pool, sess, issued>>,
         sess[c] # NoSession => t.at \in {"idle", "acting"},
         \A q \in RoomIds : ~HoldsRoom(t, q),
         \A q \in RoomIds, p \in PeerIds :
           Registered(q) /\ Sits([rooms EXCEPT ![r] = new][q], p, c)
             => sess[c] = [code |-> rooms[q].code, peer |-> p]
  PROVE  RegistryInv'
<1> DEFINE rs == [rooms EXCEPT ![r] = new]
<1>1. /\ rs \in [RoomIds -> Room]
      /\ \A q \in RoomIds : rs[q].code = rooms[q].code
      /\ \A q \in RoomIds, p \in PeerIds, d \in Conns : Sits(rs[q], p, d) => Sits(rooms[q], p, d)
  BY SatBefore DEF SeatsWithin, RegistryInv, TypeOK
<1>2. issued' \subseteq Codes
      /\ pool' \in [Codes -> RoomIds \cup {NoRoom}] /\ sess' \in [Conns -> Session \cup {NoSession}]
  BY DEF RegistryInv, TypeOK
<1>3. \A q \in RoomIds : Registered(q)' <=> Registered(q)
  BY DEF Registered
<1>4. \A code \in Codes : pool'[code] # NoRoom => rs[pool'[code]].code = code
  BY <1>1 DEF RegistryInv, TypeOK, PoolNamesRooms
<1>5. \A q \in RoomIds :
        HoldsRoom(t, q) \/ (\E d \in Conns \ {c} : HoldsRoom(task[d], q)) => rs[q].code \in Codes
  BY <1>1 DEF RegistryInv, HeldRoomsExist
<1>6. \A q \in RoomIds, p \in PeerIds :
        Registered(q)' /\ Sits(rs[q], p, c) => sess'[c] = [code |-> rs[q].code, peer |-> p]
  BY <1>1, <1>3
<1> HIDE DEF rs
<1>7. GoesOn(c, t, rs) /\ sess' = sess
  BY DEF rs
<1> QED
  BY <1>1, <1>2, <1>3, <1>4, <1>5, <1>6, <1>7, Frame

\* A joiner for whom no peer id is free leaves no seat (dispatch.rs:156-164).
LEMMA JoinWithoutIdInv ==
  ASSUME RegistryInv, NEW c \in Conns, NEW hash \in Hashes, JoinWithoutId(c, hash)
  PROVE  RegistryInv'
<1> DEFINE r == task[c].room
           new == AdvancePeerId(rooms[r])
<1>1. /\ task[c].at = "joining" /\ UNCHANGED <<pool, sess, issued>>
      /\ GoesOn(c, Idle, [rooms EXCEPT ![r] = new])
  BY DEF JoinWithoutId
<1>2. r \in RoomIds /\ rooms[r] \in Room /\ rooms \in [RoomIds -> Room]
  <2>1. task[c] \in Task
    BY DEF RegistryInv, TypeOK
  <2>2. r \in RoomIds
    BY <1>1, <2>1, TaskShape DEF Joining
  <2> QED
    BY <2>2 DEF RegistryInv, TypeOK
<1>3. SeatsWithin(new, rooms[r])
  <2>1. new \in Room /\ new = [rooms[r] EXCEPT !.next = new.next]
    BY <1>2, AdvanceKeepsSeats
  <2>2. new.clients = rooms[r].clients /\ new.pending = rooms[r].pending
        /\ new.code = rooms[r].code
    BY <1>2, <2>1 DEF Room
  <2> QED
    BY <2>1, <2>2, SameSeatsWithin
<1> HIDE DEF new, r
<1>4. \A q \in RoomIds, p \in PeerIds :
        Registered(q) => ~Sits([rooms EXCEPT ![r] = new][q], p, c)
  BY <1>1, <1>2, <1>3, SatBefore, SeatlessBetween DEF RegistryInv
<1>5. Idle.at = "idle" /\ \A q \in RoomIds : ~HoldsRoom(Idle, q)
  BY DEF Idle, HoldsRoom
<1> QED
  BY <1>1, <1>2, <1>3, <1>4, <1>5, TaskTypes, RoomStep

\* The leaver's seat, the only one it had, is gone.
LEMMA VacateInv ==
  ASSUME RegistryInv, NEW c \in Conns, Vacate(c)
  PROVE  RegistryInv'
<1>1. task[c] \in Task /\ task[c].at = "leaving"
  BY DEF Vacate, RegistryInv, TypeOK
<1>2. PICK r \in RoomIds, peer \in PeerIds, then \in Afterwards : task[c] = Leaving(r, peer, then)
  BY <1>1, TaskShape
<1>3. task[c].room = r /\ task[c].peer = peer /\ task[c].then = then
  BY <1>2 DEF Leaving
<1>4. PICK left \in Left(rooms[r], peer, Closed) :
        GoesOn(c, IF Empty(left) THEN Cleaning(rooms[r].code, then) ELSE then,
               [rooms EXCEPT ![r] = left])
  BY <1>3 DEF Vacate
<1> DEFINE t == IF Empty(left) THEN Cleaning(rooms[r].code, then) ELSE then
<1>5. rooms[r] \in Room /\ rooms[r].code \in Codes /\ rooms \in [RoomIds -> Room]
  BY <1>1, <1>3 DEF RegistryInv, TypeOK, HeldRoomsExist, HoldsRoom
<1>6. SeatsWithin(left, rooms[r]) /\ \A d \in Conns : ~Sits(left, peer, d)
  BY <1>4, <1>5, LeftWithin
<1>7. t \in Task /\ t.at \notin {"joining", "acting", "leaving"}
  BY <1>5, TaskTypes DEF Cleaning
<1>8. sess[c] = NoSession
  BY <1>1 DEF RegistryInv, SessionAtRest
<1>9. ASSUME NEW q \in RoomIds, NEW p \in PeerIds,
             Registered(q), Sits([rooms EXCEPT ![r] = left][q], p, c)
      PROVE  FALSE
  <2>1. Sits(rooms[q], p, c)
    BY <1>6, <1>9, SatBefore DEF RegistryInv
  <2>2. OwnsSeat(c, q, p) /\ rooms[q].code \in Codes
    BY <1>9, <2>1, NoRoomAssumption
    DEF RegistryInv, SeatOwned, PoolNamesRooms, Registered
  <2>3. [code |-> rooms[q].code, peer |-> p] # sess[c]
    BY <1>8, <2>2, NoSessionAssumption DEF Session
  <2>4. q = r /\ p = peer
    BY <1>1, <1>3, <2>2, <2>3 DEF OwnsSeat, Aborted
  <2> QED
    BY <1>5, <1>6, <1>9, <2>4
<1>10. \A q \in RoomIds : ~HoldsRoom(t, q)
  BY <1>7 DEF HoldsRoom
<1>11. GoesOn(c, t, [rooms EXCEPT ![r] = left]) /\ UNCHANGED <<pool, sess, issued>>
  BY <1>4 DEF Vacate
<1> HIDE DEF t
<1> QED
  BY <1>6, <1>7, <1>8, <1>9, <1>10, <1>11, RoomStep

\* Cleaning up forgets at most one room, and changes none.
LEMMA CleanInv ==
  ASSUME RegistryInv, NEW c \in Conns, Clean(c)
  PROVE  RegistryInv'
<1>1. task[c] \in Task /\ task[c].at = "cleaning"
  BY DEF Clean, RegistryInv, TypeOK
<1>2. PICK code \in Codes, t \in Afterwards : task[c] = Cleaning(code, t)
  BY <1>1, TaskShape
<1>3. task[c].code = code /\ task[c].then = t
  BY <1>2 DEF Cleaning
<1>4. /\ GoesOn(c, t, rooms)
      /\ pool' = pool \/ pool' = [pool EXCEPT ![code] = NoRoom]
      /\ UNCHANGED <<sess, issued>>
  BY <1>3 DEF Clean
<1>5. /\ rooms \in [RoomIds -> Room] /\ issued' \subseteq Codes
      /\ pool' \in [Codes -> RoomIds \cup {NoRoom}]
      /\ sess' \in [Conns -> Session \cup {NoSession}] /\ sess' = sess
      /\ \A k \in Codes : pool'[k] = pool[k] \/ pool'[k] = NoRoom
  BY <1>4 DEF RegistryInv, TypeOK
<1>6. t \in Task /\ \A q \in RoomIds : ~HoldsRoom(t, q)
  BY TaskTypes DEF HoldsRoom
<1>7. sess'[c] = NoSession
  BY <1>1, <1>5 DEF RegistryInv, SessionAtRest
<1>8. \A q \in RoomIds : Registered(q)' => Registered(q)
  BY <1>5, NoRoomAssumption DEF Registered
<1>9. \A q \in RoomIds, p \in PeerIds : ~(Registered(q)' /\ Sits(rooms[q], p, c))
  BY <1>1, <1>8, SeatlessBetween
<1>10. \A k \in Codes : pool'[k] # NoRoom => rooms[pool'[k]].code = k
  BY <1>5 DEF RegistryInv, PoolNamesRooms
<1>11. \A q \in RoomIds :
         HoldsRoom(t, q) \/ (\E d \in Conns \ {c} : HoldsRoom(task[d], q)) => rooms[q].code \in Codes
  BY <1>6 DEF RegistryInv, HeldRoomsExist
<1> QED
  BY <1>4, <1>5, <1>6, <1>7, <1>8, <1>9, <1>10, <1>11, Frame

-----------------------------------------------------------------------------
(* Requests from inside a room.                                            *)

\* A change followed by a broadcast seats nobody if the change does not.
LEMMA ThenBroadcast ==
  ASSUME NEW room \in Room, NEW mid, SeatsWithin(mid, room), NEW closed,
         NEW new \in Broadcast(mid, closed) \cup BroadcastState(mid, closed)
  PROVE  SeatsWithin(new, room)
<1>1. mid \in Room
  BY DEF SeatsWithin
<1>2. SeatsWithin(new, mid)
  BY <1>1, BroadcastWithin
<1> QED
  BY <1>2, WithinTransitive

\* Whatever the host changes of a room, it seats nobody anew.
LEMMA FieldsWithin ==
  ASSUME NEW room \in Room
  PROVE  /\ SeatsWithin(room, room)
         /\ \A c \in Conns : SeatsWithin([room EXCEPT !.state = c], room)
         /\ \A s \in Settings : SeatsWithin([room EXCEPT !.settings = s], room)
         /\ \A b \in BOOLEAN : SeatsWithin([room EXCEPT !.settings.public = b], room)
         /\ \A p \in PeerIds : SeatsWithin([room EXCEPT !.host = p], room)
<1>1. \A p \in PeerIds : p \in 0 .. MaxPeerId
  BY MaxPeerIdAssumption DEF PeerIds
<1>2. \A b \in BOOLEAN : [room.settings EXCEPT !.public = b] \in Settings
  BY DEF Room, Settings
<1>3. \A s \in Settings : SeatsWithin([room EXCEPT !.settings = s], room)
  BY DEF SeatsWithin, Room, Sits
<1>4. ASSUME NEW b \in BOOLEAN
      PROVE  [room EXCEPT !.settings.public = b]
               = [room EXCEPT !.settings = [room.settings EXCEPT !.public = b]]
  BY DEF Room
<1> QED
  BY <1>1, <1>2, <1>3, <1>4 DEF SeatsWithin, Room, Sits

\* An accepted peer keeps its id and its connection.
LEMMA AcceptedWithin ==
  ASSUME NEW room \in Room, NEW peer \in Peers(room.pending)
  PROVE  SeatsWithin(Accepted(room, peer), room)
<1> DEFINE seat == room.pending[peer]
           new == Accepted(room, peer)
<1>1. /\ peer \in PeerIds /\ seat \in Seat
      /\ room.clients \in SeatMap /\ room.pending \in SeatMap
  BY RoomFields DEF Peers, SeatMap
<1>2. /\ With(room.clients, peer, seat) \in SeatMap
      /\ Without(room.pending, {peer}) \in SeatMap
  BY <1>1, WithAddsOne, WithoutKeepsOthers
<1>3. /\ new \in Room /\ new.code = room.code
      /\ new.clients = With(room.clients, peer, seat)
      /\ new.pending = Without(room.pending, {peer})
  BY <1>2 DEF Accepted, Room
<1>4. ASSUME NEW p \in PeerIds
      PROVE  /\ new.pending[p] \in {NoSeat, room.pending[p]}
             /\ \/ new.clients[p] \in {NoSeat, room.clients[p]}
                \/ new.clients[p] = room.pending[p] /\ new.pending[p] = NoSeat
  BY <1>1, <1>3 DEF With, Without, SeatMap
<1> QED
  BY <1>3, <1>4 DEF SeatsWithin

\* Kick and Ban take a seat away and give none.
LEMMA BannedWithin ==
  ASSUME NEW room \in Room, NEW peer \in PeerIds
  PROVE  SeatsWithin(Kicked(room, peer), room) /\ SeatsWithin(Banned(room, peer), room)
<1>1. SeatsWithin(Kicked(room, peer), room)
  BY DropWithin DEF Kicked
<1>2. CASE peer \in Peers(room.clients)
  <2> DEFINE hash == room.clients[peer].hash
             kicked == Kicked(room, peer)
  <2>1. hash \in Hashes
    BY <1>2, RoomFields DEF Peers, SeatMap, Seat
  <2>2. kicked \in Room
    BY <1>1 DEF SeatsWithin
  <2>3. Banned(room, peer) = [kicked EXCEPT !.banned = @ \cup {hash}]
    BY <1>2 DEF Banned
  <2> HIDE DEF hash, kicked
  <2>4. SeatsWithin([kicked EXCEPT !.banned = @ \cup {hash}], kicked)
    BY <2>1, <2>2 DEF SeatsWithin, Room, Sits
  <2> QED
    BY <1>1, <2>3, <2>4, WithinTransitive DEF kicked
<1>3. CASE peer \notin Peers(room.clients)
  BY <1>1, <1>3, FieldsWithin DEF Banned
<1> QED
  BY <1>2, <1>3

\* A request that seats nobody anew preserves the invariant, whoever sent it.
LEMMA ActsInv ==
  ASSUME RegistryInv, NEW c \in Conns, NEW outcomes, Acts(c, outcomes),
         \A new \in outcomes : SeatsWithin(new, rooms[task[c].room])
  PROVE  RegistryInv'
<1> DEFINE r == task[c].room
<1>1. task[c].at = "acting" /\ r \in RoomIds
  <2>1. task[c] \in Task /\ task[c].at = "acting"
    BY DEF Acts, RegistryInv, TypeOK
  <2> QED
    BY <2>1, TaskShape DEF Acting
<1>2. PICK new \in outcomes : GoesOn(c, Idle, [rooms EXCEPT ![r] = new])
  BY DEF Acts
<1>3. SeatsWithin(new, rooms[r]) /\ UNCHANGED <<pool, sess, issued>>
  BY <1>2 DEF Acts
<1>4. ASSUME NEW q \in RoomIds, NEW p \in PeerIds,
             Registered(q), Sits([rooms EXCEPT ![r] = new][q], p, c)
      PROVE  sess[c] = [code |-> rooms[q].code, peer |-> p]
  <2>1. Sits(rooms[q], p, c)
    BY <1>1, <1>3, <1>4, SatBefore DEF RegistryInv
  <2> QED
    BY <1>1, <1>4, <2>1, SeatByName
<1>5. Idle.at = "idle" /\ \A q \in RoomIds : ~HoldsRoom(Idle, q)
  BY DEF Idle, HoldsRoom
<1> QED
  BY <1>1, <1>2, <1>3, <1>4, <1>5, TaskTypes, RoomStep

\* Nobody is sent away by a host: peers are not denied, kicked or banned.
Gentle == Requests \cap {"DenyPeer", "Kick", "Ban"} = {}

\* The room new bans nobody that room does not, and has everybody in it who is there.
Spares(new, room) ==
  /\ new.banned = room.banned
  /\ Apart(room) =>
       \A p \in PeerIds, d \in Conns : Sits(room, p, d) /\ d \notin Closed => Sits(new, p, d)

\* A room is locked only by settings that lock it.
LockedBySettings(new, room) ==
  new.settings.locked => room.settings.locked \/ \E s \in SettingsChoices : s.locked

\* What a request of c from inside a room may make of it: its seats are seats it had,
\* no id is given out, and unless c is the host it is left as it was.  It loses its
\* host only if the host it names has lost its seat, and peers who are there only if
\* the host may send them away.
Outcome(c, new, room) ==
  /\ SeatsWithin(new, room)
  /\ new.next = room.next
  /\ new.state \in {room.state, c}
  /\ HostKept(new, room) \/ new.host = room.host
  /\ new # room => IsHost(c)
  /\ Gentle => Spares(new, room)
  /\ LockedBySettings(new, room)

\* Acceptance spares everybody.
LEMMA AcceptedSpares ==
  ASSUME NEW room \in Room, NEW peer \in Peers(room.pending)
  PROVE  /\ Spares(Accepted(room, peer), room)
         /\ LockedBySettings(Accepted(room, peer), room)
<1> DEFINE seat == room.pending[peer]
           new == Accepted(room, peer)
<1>1. /\ peer \in PeerIds /\ seat \in Seat
      /\ room.clients \in SeatMap /\ room.pending \in SeatMap
  BY RoomFields DEF Peers, SeatMap
<1>2. /\ new.clients = With(room.clients, peer, seat)
      /\ new.pending = Without(room.pending, {peer})
      /\ new.banned = room.banned /\ new.settings = room.settings
  BY DEF Accepted, Room
<1>3. \A p \in PeerIds : /\ new.clients[p] = IF p = peer THEN seat ELSE room.clients[p]
                         /\ new.pending[p] = IF p = peer THEN NoSeat ELSE room.pending[p]
  BY <1>1, <1>2 DEF With, Without, SeatMap
<1> HIDE DEF new
<1>4. ASSUME Apart(room), NEW p \in PeerIds, NEW d \in Conns, Sits(room, p, d)
      PROVE  Sits(new, p, d)
  BY <1>1, <1>3, <1>4 DEF Sits, Peers, Apart
<1> QED
  BY <1>2, <1>4 DEF Spares, LockedBySettings, new

\* A change of the host's, alone or followed by a broadcast.
LEMMA OutcomeOf ==
  ASSUME NEW c \in Conns, NEW room \in Room, NEW mid, SeatsWithin(mid, room),
         mid.next = room.next, mid.state \in {room.state, c},
         mid # room => IsHost(c),
         Gentle => Spares(mid, room), LockedBySettings(mid, room),
         NEW new,
         \/ new = mid /\ mid.host = room.host
         \/ /\ IsHost(c)
            /\ new \in Broadcast(mid, Closed)
            /\ Hosted(mid) \/ mid.host = room.host
         \/ /\ IsHost(c)
            /\ new \in BroadcastState(mid, Closed)
            /\ mid.host = room.host /\ mid.clients = room.clients
  PROVE  Outcome(c, new, room)
<1>1. mid \in Room
  BY DEF SeatsWithin
<1>2. CASE new = mid /\ mid.host = room.host
  BY <1>2 DEF Outcome
<1>3. CASE /\ IsHost(c)
           /\ new \in Broadcast(mid, Closed)
           /\ Hosted(mid) \/ mid.host = room.host
  <2>1. SeatsWithin(new, room)
    BY <1>3, ThenBroadcast
  <2>2. SameButSeats(new, mid) /\ HostKept(new, mid) /\ (~Hosted(mid) => new.host = mid.host)
    BY <1>1, <1>3, BroadcastEffects
  <2>3. \A p \in PeerIds, d \in Conns : Sits(mid, p, d) /\ d \notin Closed => Sits(new, p, d)
    BY <1>1, <1>3, BroadcastEffects DEF Sits
  <2>4. (Gentle => Spares(new, room)) /\ LockedBySettings(new, room)
    BY <2>2, <2>3 DEF Spares, LockedBySettings, SameButSeats
  <2> QED
    BY <1>3, <2>1, <2>2, <2>4 DEF Outcome, SameButSeats, HostKept
<1>4. CASE /\ IsHost(c)
           /\ new \in BroadcastState(mid, Closed)
           /\ mid.host = room.host /\ mid.clients = room.clients
  <2>1. SeatsWithin(new, room)
    BY <1>4, ThenBroadcast
  <2>2. SameButSeats(new, mid) /\ HostKept(new, mid)
    BY <1>1, <1>4, BroadcastStateEffects
  <2>3. Apart(room) =>
          \A p \in PeerIds, d \in Conns : Sits(mid, p, d) /\ d \notin Closed => Sits(new, p, d)
    BY <1>1, <1>4, WithinApart, BroadcastStateEffects
  <2>4. (Gentle => Spares(new, room)) /\ LockedBySettings(new, room)
    BY <2>2, <2>3 DEF Spares, LockedBySettings, SameButSeats
  <2> QED
    BY <1>4, <2>1, <2>2, <2>4 DEF Outcome, SameButSeats, HostKept, Hosted
<1> QED
  BY <1>2, <1>3, <1>4

\* Every request from inside a room has such an outcome.
LEMMA ActStepOutcome ==
  ASSUME RegistryInv, NEW c \in Conns, ActStep(c)
  PROVE  \E outcomes : /\ Acts(c, outcomes)
                       /\ \A new \in outcomes : Outcome(c, new, rooms[task[c].room])
<1> DEFINE room == rooms[task[c].room]
           Goal == \E outcomes : /\ Acts(c, outcomes)
                                 /\ \A new \in outcomes : Outcome(c, new, room)
<1>1. room \in Room
  <2>1. task[c] \in Task /\ task[c].at = "acting"
    BY DEF ActStep, Observe, Move, UpdateSettings, SetPublic, AcceptPeer, DenyPeer, Kick, Ban,
           TransferHost, RegistryInv, TypeOK
  <2> QED
    BY <2>1, TaskShape DEF Acting, RegistryInv, TypeOK
<1>2. ASSUME NEW mid, SeatsWithin(mid, room),
             mid.next = room.next, mid.state \in {room.state, c}, mid # room => IsHost(c),
             Gentle => Spares(mid, room), LockedBySettings(mid, room),
             \/ Acts(c, {mid}) /\ mid.host = room.host
             \/ IsHost(c) /\ Acts(c, Broadcast(mid, Closed)) /\ (Hosted(mid) \/ mid.host = room.host)
             \/ /\ IsHost(c) /\ Acts(c, BroadcastState(mid, Closed))
                /\ mid.host = room.host /\ mid.clients = room.clients
      PROVE  Goal
  <2> HIDE DEF room
  <2>1. CASE Acts(c, {mid}) /\ mid.host = room.host
    <3>1. Outcome(c, mid, room)
      BY <1>2, <2>1 DEF Outcome
    <3> QED
      BY <2>1, <3>1
  <2>2. CASE IsHost(c) /\ Acts(c, Broadcast(mid, Closed)) /\ (Hosted(mid) \/ mid.host = room.host)
    <3>1. \A new \in Broadcast(mid, Closed) : Outcome(c, new, room)
      BY <1>1, <1>2, <2>2, OutcomeOf
    <3> QED
      BY <2>2, <3>1
  <2>3. CASE /\ IsHost(c) /\ Acts(c, BroadcastState(mid, Closed))
             /\ mid.host = room.host /\ mid.clients = room.clients
    <3>1. \A new \in BroadcastState(mid, Closed) : Outcome(c, new, room)
      BY <1>1, <1>2, <2>3, OutcomeOf
    <3> QED
      BY <2>3, <3>1
  <2> QED
    BY <1>2, <2>1, <2>2, <2>3
<1> HIDE DEF Goal
<1>3. ASSUME Observe(c)
      PROVE  Goal
  BY <1>1, <1>2, <1>3, FieldsWithin DEF Observe, Spares, LockedBySettings
<1>4. ASSUME Move(c)
      PROVE  Goal
  <2> DEFINE moved == [room EXCEPT !.state = c]
  <2>1. /\ SeatsWithin(moved, room) /\ moved.next = room.next /\ moved.state = c
        /\ moved.host = room.host /\ moved.clients = room.clients
        /\ Spares(moved, room) /\ LockedBySettings(moved, room)
    BY <1>1, FieldsWithin DEF Room, Spares, LockedBySettings, Sits
  <2>2. IsHost(c) /\ Acts(c, BroadcastState(moved, Closed))
    BY <1>4 DEF Move
  <2> HIDE DEF moved
  <2> QED
    BY <1>2, <2>1, <2>2
<1>5. ASSUME NEW settings \in SettingsChoices, UpdateSettings(c, settings)
      PROVE  Goal
  <2> DEFINE set == [room EXCEPT !.settings = settings]
  <2>1. /\ SeatsWithin(set, room) /\ set.next = room.next /\ set.state = room.state
        /\ set.host = room.host /\ Spares(set, room) /\ LockedBySettings(set, room)
    BY <1>1, <1>5, FieldsWithin, SettingsAssumption DEF Room, Spares, LockedBySettings, Sits
  <2>2. IsHost(c) /\ Acts(c, Broadcast(set, Closed))
    BY <1>5 DEF UpdateSettings
  <2> HIDE DEF set
  <2> QED
    BY <1>2, <2>1, <2>2
<1>6. ASSUME NEW public \in BOOLEAN, SetPublic(c, public)
      PROVE  Goal
  <2> DEFINE published == [room EXCEPT !.settings.public = public]
  <2>1. /\ SeatsWithin(published, room) /\ published.next = room.next
        /\ published.state = room.state /\ published.host = room.host
        /\ Spares(published, room) /\ LockedBySettings(published, room)
    BY <1>1, FieldsWithin DEF Room, Settings, Spares, LockedBySettings, Sits
  <2>2. IsHost(c) /\ Acts(c, {published})
    BY <1>6 DEF SetPublic
  <2> HIDE DEF published
  <2> QED
    BY <1>2, <2>1, <2>2
<1>7. ASSUME NEW peer \in PeerIds, AcceptPeer(c, peer)
      PROVE  Goal
  <2> DEFINE accepted == Accepted(room, peer)
  <2>1. /\ SeatsWithin(accepted, room) /\ accepted.next = room.next
        /\ accepted.state = room.state /\ accepted.host = room.host
        /\ Spares(accepted, room) /\ LockedBySettings(accepted, room)
    BY <1>1, <1>7, AcceptedWithin, AcceptedSpares DEF AcceptPeer, Accepted, Room
  <2>2. IsHost(c) /\ Acts(c, Broadcast(accepted, Closed))
    BY <1>7 DEF AcceptPeer
  <2> HIDE DEF accepted
  <2> QED
    BY <1>2, <2>1, <2>2
<1>8. ASSUME NEW peer \in PeerIds, DenyPeer(c, peer)
      PROVE  Goal
  <2> DEFINE denied == [room EXCEPT !.pending = Without(@, {peer})]
  <2>1. /\ SeatsWithin(denied, room) /\ denied.next = room.next
        /\ denied.state = room.state /\ denied.host = room.host
        /\ ~Gentle /\ LockedBySettings(denied, room)
    BY <1>1, <1>8, DropWithin DEF Room, DenyPeer, Gentle, LockedBySettings
  <2>2. IsHost(c) /\ Acts(c, {denied})
    BY <1>8 DEF DenyPeer
  <2> HIDE DEF denied
  <2> QED
    BY <1>2, <2>1, <2>2
<1>9. ASSUME NEW peer \in PeerIds, NEW mid \in {Kicked(room, peer), Banned(room, peer)},
             ~Gentle, IsHost(c), Acts(c, Broadcast(mid, Closed))
      PROVE  Goal
  <2>1. SeatsWithin(mid, room)
    BY <1>1, BannedWithin
  <2>2. /\ Kicked(room, peer).next = room.next /\ Kicked(room, peer).state = room.state
        /\ Kicked(room, peer).host = room.host /\ Kicked(room, peer).settings = room.settings
    BY <1>1 DEF Kicked, Room
  <2>3. /\ Banned(room, peer).next = room.next /\ Banned(room, peer).state = room.state
        /\ Banned(room, peer).host = room.host /\ Banned(room, peer).settings = room.settings
    BY <1>1, <2>2 DEF Banned, Kicked, Room
  <2>4. /\ mid.next = room.next /\ mid.state = room.state
        /\ mid.host = room.host /\ mid.settings = room.settings
    BY <2>2, <2>3
  <2> QED
    BY <1>2, <1>9, <2>1, <2>4 DEF LockedBySettings
<1>10. ASSUME NEW peer \in PeerIds, TransferHost(c, peer)
       PROVE  Goal
  <2> DEFINE handed == [room EXCEPT !.host = peer]
  <2>1. /\ SeatsWithin(handed, room) /\ handed.next = room.next
        /\ handed.state = room.state /\ Hosted(handed)
    BY <1>1, <1>10, FieldsWithin DEF Room, Hosted, TransferHost
  <2>2. Spares(handed, room) /\ LockedBySettings(handed, room)
    BY <1>1 DEF Room, Spares, LockedBySettings, Sits
  <2>3. IsHost(c) /\ Acts(c, Broadcast(handed, Closed))
    BY <1>10 DEF TransferHost
  <2> HIDE DEF handed
  <2> QED
    BY <1>2, <2>1, <2>2, <2>3
<1>11. Goal
  BY <1>3, <1>4, <1>5, <1>6, <1>7, <1>8, <1>9, <1>10 DEF ActStep, Kick, Ban, Gentle
<1> QED
  BY <1>11 DEF Goal

\* Every request from inside a room preserves the invariant.
LEMMA ActStepInv ==
  ASSUME RegistryInv, NEW c \in Conns, ActStep(c)
  PROVE  RegistryInv'
BY ActStepOutcome, ActsInv DEF Outcome

-----------------------------------------------------------------------------
(* The theorems.                                                           *)

\* Nobody is connected to a room when the server starts.
LEMMA InitInv == Init => RegistryInv
<1> SUFFICES ASSUME Init PROVE RegistryInv
  OBVIOUS
<1>1. NoSuchRoom \in Room
  BY NewRoomIsEmpty, SettingsAssumption DEF NoSuchRoom
<1>2. \A r \in RoomIds : ~Registered(r)
  BY NoRoomAssumption DEF Init, Registered
<1> QED
  BY <1>1, <1>2, TaskTypes
  DEF Init, RegistryInv, TypeOK, PoolNamesRooms, HeldRoomsExist, SessionAtRest, SeatOwned,
      HoldsRoom, Idle

\* A step that changes nothing keeps the invariant.
LEMMA StutterInv ==
  ASSUME RegistryInv, UNCHANGED vars
  PROVE  RegistryInv'
BY DEF vars, RegistryInv, TypeOK, PoolNamesRooms, HeldRoomsExist, SessionAtRest, SeatOwned,
       HoldsRoom, Registered, OwnsSeat

\* Every step of every connection preserves the invariant.
LEMMA NextInv == RegistryInv /\ [Next]_vars => RegistryInv'
<1> SUFFICES ASSUME RegistryInv, [Next]_vars PROVE RegistryInv'
  OBVIOUS
<1>1. CASE UNCHANGED vars \/ Terminated
  BY <1>1, StutterInv DEF Terminated
<1>2. ASSUME NEW c \in Conns, BeginStep(c) \/ Abort(c) \/ ActStep(c)
      PROVE  RegistryInv'
  BY <1>2, BeginStepInv, AbortInv, ActStepInv
<1>3. ASSUME NEW c \in Conns, HelloStep(c)
      PROVE  RegistryInv'
  BY <1>3, RejectHelloInv, FindRoomInv, CreateRoomInv, JoinInv, JoinRefusedInv,
     JoinWithoutIdInv DEF HelloStep
<1>4. ASSUME NEW c \in Conns, LeaveStep(c)
      PROVE  RegistryInv'
  BY <1>4, VacateInv, CleanInv DEF LeaveStep
<1> QED
  BY <1>1, <1>2, <1>3, <1>4 DEF Next

\* The inductive invariant of the registry holds in every reachable state.
THEOREM RegistryInvariance == Spec => []RegistryInv
  BY InitInv, NextInv, PTL DEF Spec

\* Every variable keeps its type, peer ids and sides their range.
THEOREM TypeCorrectness == Spec => []TypeOK
  BY RegistryInvariance, PTL DEF RegistryInv

\* However Hellos, leaves, kicks and clean-ups are interleaved, a seat that a lookup
\* can reach is answered for by its connection, and a connection that has closed has
\* left none behind (dispatch.rs:40-42, mod.rs:292-295, 368-371 and 377-410).
THEOREM SeatsAreOwned == Spec => []SeatOwned
  BY RegistryInvariance, PTL DEF RegistryInv

\* A connection never sits twice in the rooms of an app (dispatch.rs:40-42: a Hello
\* leaves the old room first).
THEOREM OneSeatEach == Spec => []OneSeat
<1>1. RegistryInv => OneSeat
  <2> SUFFICES ASSUME RegistryInv, NEW c \in Conns, NEW r \in RoomIds, NEW s \in RoomIds,
                      NEW p \in PeerIds, NEW q \in PeerIds,
                      task[c] # Aborted,
                      Registered(r), Sits(rooms[r], p, c),
                      Registered(s), Sits(rooms[s], q, c)
               PROVE  r = s /\ p = q
    BY DEF OneSeat
  <2>1. task[c].at \in {"idle", "acting", "leaving"}
    <3>1. task[c] \in Task
      BY DEF RegistryInv, TypeOK
    <3>2. task[c].at # "aborted"
      BY <3>1, TaskShape
    <3> QED
      BY <3>2, SeatlessBetween
  <2>2. CASE task[c].at \in {"idle", "acting"}
    <3>1. pool[sess[c].code] = r /\ sess[c].peer = p
      BY <2>2, SeatByName
    <3>2. pool[sess[c].code] = s /\ sess[c].peer = q
      BY <2>2, SeatByName
    <3> QED
      BY <3>1, <3>2
  <2>3. CASE task[c].at = "leaving"
    <3>1. OwnsSeat(c, r, p) /\ OwnsSeat(c, s, q) /\ rooms[r].code \in Codes /\ rooms[s].code \in Codes
      BY NoRoomAssumption DEF RegistryInv, SeatOwned, PoolNamesRooms, Registered
    <3>2. sess[c] = NoSession
      BY <2>3 DEF RegistryInv, SessionAtRest
    <3> QED
      BY <2>3, <3>1, <3>2, NoSessionAssumption DEF OwnsSeat, Session
  <2> QED
    BY <2>1, <2>2, <2>3
<1> QED
  BY <1>1, RegistryInvariance, PTL

\* A step takes no room from the pool in which somebody sits.
LEMMA PoolKept ==
  ASSUME RegistryInv, [Next]_vars,
         NEW code \in Codes, pool[code] # NoRoom, ~Empty(rooms[pool[code]])
  PROVE  pool'[code] = pool[code]
<1>1. CASE UNCHANGED vars \/ Terminated
  BY <1>1 DEF Terminated, vars
<1>2. ASSUME NEW c \in Conns, BeginStep(c) \/ Abort(c)
      PROVE  pool' = pool
  BY <1>2 DEF BeginStep, BeginHello, BeginLeave, Disconnect, BeginAct, Abort
<1>3. ASSUME NEW c \in Conns, ActStep(c)
      PROVE  pool' = pool
  BY <1>3 DEF ActStep, Observe, Move, UpdateSettings, SetPublic, AcceptPeer, DenyPeer, Kick,
              Ban, TransferHost, Acts
<1>4. ASSUME NEW c \in Conns, HelloStep(c)
      PROVE  pool'[code] = pool[code]
  <2>1. ASSUME NEW other \in Codes, NEW r \in RoomIds, CreateRoom(c, other, r)
        PROVE  pool'[code] = pool[code]
    BY <2>1 DEF CreateRoom, RegistryInv, TypeOK
  <2>2. CASE RejectHello(c)
    BY <2>2 DEF RejectHello
  <2>3. ASSUME NEW other \in Codes, FindRoom(c, other)
        PROVE  pool'[code] = pool[code]
    BY <2>3 DEF FindRoom
  <2>4. ASSUME NEW hash \in Hashes, Join(c, hash) \/ JoinRefused(c, hash) \/ JoinWithoutId(c, hash)
        PROVE  pool'[code] = pool[code]
    BY <2>4 DEF Join, JoinRefused, JoinWithoutId
  <2> QED
    BY <1>4, <2>1, <2>2, <2>3, <2>4 DEF HelloStep
<1>5. ASSUME NEW c \in Conns, LeaveStep(c)
      PROVE  pool'[code] = pool[code]
  <2>1. CASE Vacate(c)
    BY <2>1 DEF Vacate
  <2>2. CASE Clean(c)
    <3>1. pool' = pool \/ pool' = [pool EXCEPT ![task[c].code] = NoRoom]
      BY <2>2 DEF Clean
    <3>2. pool' # pool => Empty(rooms[pool[task[c].code]])
      BY <2>2 DEF Clean
    <3> QED
      BY <3>1, <3>2 DEF RegistryInv, TypeOK
  <2> QED
    BY <1>5, <2>1, <2>2 DEF LeaveStep
<1> QED
  BY <1>1, <1>2, <1>3, <1>4, <1>5 DEF Next

\* A clean-up that goes by code, meets another room than the one left, or comes second
\* never takes a room from the pool in which somebody sits (pool.rs:92-104); nothing
\* else takes rooms from the pool.
THEOREM RoomsAreNotLost == Spec => NoRoomLost
<1>1. RegistryInv /\ [Next]_vars =>
        [\A code \in Codes :
           pool[code] # NoRoom /\ ~Empty(rooms[pool[code]]) => pool'[code] = pool[code]]_vars
  BY PoolKept
<1> QED
  BY <1>1, RegistryInvariance, PTL DEF Spec, NoRoomLost

-----------------------------------------------------------------------------
(* RoomRegistry implements Lobby, for every number of connections, rooms,  *)
(* codes and peer ids.  A room of the lobby is what a code leads to, so a  *)
(* step is invisible unless it changes the pool or the seats of a room     *)
(* that the pool names.                                                    *)

\* What it takes to be a guest.
LEMMA GuestsAre ==
  ASSUME NEW g
  PROVE  g \in Guests <=> /\ g \in [conn : Conns, code : Codes, peer : PeerIds]
                          /\ pool[g.code] # NoRoom
                          /\ Sits(rooms[pool[g.code]], g.peer, g.conn)
BY DEF Guests, OpenCodes

\* The same of the next state.
LEMMA GuestsWillBe ==
  ASSUME NEW g
  PROVE  g \in Guests' <=> /\ g \in [conn : Conns, code : Codes, peer : PeerIds]
                           /\ pool'[g.code] # NoRoom
                           /\ Sits(rooms'[pool'[g.code]], g.peer, g.conn)
BY DEF Guests, OpenCodes

\* A room that the pool names is not collected.
LEMMA NamedRoomsStay ==
  ASSUME NEW c, NEW t, NEW rs, GoesOn(c, t, rs),
         NEW code \in Codes, pool'[code] \in RoomIds
  PROVE  rooms'[pool'[code]] = rs[pool'[code]]
BY DEF GoesOn, Collected

\* A step that only moves a task is not seen in the lobby.
LEMMA QuietIsUnseen ==
  ASSUME RegistryInv, NEW c, NEW t, GoesOn(c, t, rooms), pool' = pool
  PROVE  UNCHANGED AsLobby!lobby
<1>1. \A code \in Codes : pool[code] # NoRoom => rooms'[pool[code]] = rooms[pool[code]]
  BY NamedRoomsStay DEF RegistryInv, TypeOK
<1>2. ASSUME NEW g PROVE g \in Guests' <=> g \in Guests
  BY <1>1, GuestsAre, GuestsWillBe
<1>3. OpenCodes' = OpenCodes
  BY DEF OpenCodes
<1>4. Guests' = Guests
  <2>1. Guests' \subseteq Guests
    BY <1>2
  <2>2. Guests \subseteq Guests'
    BY <1>2
  <2> QED
    BY <2>1, <2>2
<1> QED
  BY <1>3, <1>4 DEF AsLobby!lobby

\* A step that seats nobody anew is a departure from one room.
LEMMA SeatsGo ==
  ASSUME RegistryInv, NEW c, NEW t, NEW r \in RoomIds, NEW new,
         GoesOn(c, t, [rooms EXCEPT ![r] = new]), SeatsWithin(new, rooms[r]), pool' = pool
  PROVE  [AsLobby!Next]_AsLobby!lobby
<1> DEFINE rs == [rooms EXCEPT ![r] = new]
           gone == Guests \ Guests'
<1>1. rooms \in [RoomIds -> Room] /\ rs[r] = new /\ \A q \in RoomIds \ {r} : rs[q] = rooms[q]
  BY DEF RegistryInv, TypeOK
<1>2. ASSUME NEW code \in Codes, pool[code] # NoRoom
      PROVE  /\ pool[code] \in RoomIds
             /\ rooms[pool[code]].code = code
             /\ rooms'[pool[code]] = rs[pool[code]]
  <2>1. pool[code] \in RoomIds /\ rooms[pool[code]].code = code
    BY <1>2 DEF RegistryInv, TypeOK, PoolNamesRooms
  <2>2. GoesOn(c, t, rs) /\ pool' = pool
    OBVIOUS
  <2> HIDE DEF rs
  <2>3. rooms'[pool'[code]] = rs[pool'[code]]
    BY <2>1, <2>2, NamedRoomsStay
  <2> QED
    BY <2>1, <2>2, <2>3
<1> HIDE DEF rs
<1>3. OpenCodes' = OpenCodes
  BY DEF OpenCodes
<1>4. Guests' \subseteq Guests
  <2> SUFFICES ASSUME NEW g \in Guests' PROVE g \in Guests
    OBVIOUS
  <2>1. /\ g \in [conn : Conns, code : Codes, peer : PeerIds]
        /\ pool[g.code] # NoRoom
        /\ Sits(rs[pool[g.code]], g.peer, g.conn)
    BY <1>2, GuestsWillBe
  <2>2. Sits(rooms[pool[g.code]], g.peer, g.conn)
    BY <1>1, <1>2, <2>1, WithinSits
  <2> QED
    BY <2>1, <2>2, GuestsAre
<1>5. \A g \in gone : pool[g.code] = r /\ g.code = rooms[r].code /\ g.code \in Codes
  <2> SUFFICES ASSUME NEW g \in gone
               PROVE  pool[g.code] = r /\ g.code = rooms[r].code /\ g.code \in Codes
    OBVIOUS
  <2>1. /\ g \in [conn : Conns, code : Codes, peer : PeerIds]
        /\ pool[g.code] # NoRoom
        /\ Sits(rooms[pool[g.code]], g.peer, g.conn)
        /\ ~Sits(rooms'[pool[g.code]], g.peer, g.conn)
    BY GuestsAre, GuestsWillBe
  <2> QED
    BY <1>1, <1>2, <2>1
<1>6. Guests' = Guests \ gone
  BY <1>4
<1>7. CASE gone = {}
  BY <1>3, <1>6, <1>7 DEF AsLobby!lobby
<1>8. CASE gone # {}
  <2>1. rooms[r].code \in Codes
    BY <1>5, <1>8
  <2>2. gone \in SUBSET AsLobby!Inside(rooms[r].code)
    BY <1>5 DEF AsLobby!Inside
  <2>3. AsLobby!Depart(gone)
    BY <1>3, <1>6 DEF AsLobby!Depart
  <2> HIDE DEF gone
  <2> QED
    BY <2>1, <2>2, <2>3 DEF AsLobby!Next
<1> QED
  BY <1>7, <1>8

\* A request from inside a room seats nobody anew (see FieldsWithin and after).
LEMMA ActsUnseated ==
  ASSUME RegistryInv, NEW c \in Conns, NEW outcomes, Acts(c, outcomes),
         \A new \in outcomes : SeatsWithin(new, rooms[task[c].room])
  PROVE  [AsLobby!Next]_AsLobby!lobby
<1>1. task[c].room \in RoomIds
  <2>1. task[c] \in Task /\ task[c].at = "acting"
    BY DEF Acts, RegistryInv, TypeOK
  <2> QED
    BY <2>1, TaskShape DEF Acting
<1>2. PICK new \in outcomes : GoesOn(c, Idle, [rooms EXCEPT ![task[c].room] = new])
  BY DEF Acts
<1>3. SeatsWithin(new, rooms[task[c].room]) /\ pool' = pool
  BY <1>2 DEF Acts
<1> QED
  BY <1>1, <1>2, <1>3, SeatsGo

\* Vacating a seat is a departure, of the leaver and of those found to be gone.
LEMMA VacateDeparts ==
  ASSUME RegistryInv, NEW c \in Conns, Vacate(c)
  PROVE  [AsLobby!Next]_AsLobby!lobby
<1>1. task[c] \in Task /\ task[c].at = "leaving"
  BY DEF Vacate, RegistryInv, TypeOK
<1>2. PICK r \in RoomIds, p \in PeerIds, then \in Afterwards : task[c] = Leaving(r, p, then)
  BY <1>1, TaskShape
<1>3. task[c].room = r /\ task[c].peer = p
  BY <1>2 DEF Leaving
<1>4. PICK left \in Left(rooms[r], p, Closed) :
        \E t : GoesOn(c, t, [rooms EXCEPT ![r] = left])
  BY <1>3 DEF Vacate
<1>5. SeatsWithin(left, rooms[r])
  BY <1>4, LeftWithin DEF RegistryInv, TypeOK
<1>6. pool' = pool
  BY DEF Vacate
<1> QED
  BY <1>4, <1>5, <1>6, SeatsGo

-----------------------------------------------------------------------------
(* Rooms open and close.                                                   *)

\* Registering a room opens it, with nobody inside.
LEMMA CreateOpens ==
  ASSUME RegistryInv, NEW c \in Conns, NEW code \in Codes, NEW r \in RoomIds,
         CreateRoom(c, code, r)
  PROVE  AsLobby!Open(code)
<1> DEFINE fresh == NewRoom(code, DefaultSettings)
           rs == [rooms EXCEPT ![r] = fresh]
<1>1. /\ pool[code] = NoRoom
      /\ pool' = [pool EXCEPT ![code] = r]
      /\ GoesOn(c, Joining(r), rs)
      /\ \A k \in Codes : pool[k] # r
  BY DEF CreateRoom, IsFree, Registered
<1>2. /\ pool'[code] = r
      /\ \A k \in Codes \ {code} : pool'[k] = pool[k]
      /\ \A k \in Codes : pool[k] # NoRoom => pool[k] \in RoomIds
      /\ rs[r] = fresh
      /\ \A q \in RoomIds \ {r} : rs[q] = rooms[q]
  BY <1>1 DEF RegistryInv, TypeOK
<1>3. \A p, d : ~Sits(fresh, p, d)
  BY NewRoomIsEmpty, SettingsAssumption
<1> HIDE DEF rs, fresh
<1>4. \A k \in Codes : pool'[k] \in RoomIds => rooms'[pool'[k]] = rs[pool'[k]]
  BY <1>1, NamedRoomsStay
<1>5. ASSUME NEW g PROVE g \in Guests' <=> g \in Guests
  <2>1. CASE g \notin [conn : Conns, code : Codes, peer : PeerIds]
    BY <2>1, GuestsAre, GuestsWillBe
  <2>2. CASE g \in [conn : Conns, code : Codes, peer : PeerIds] /\ g.code = code
    <3>1. rooms'[pool'[code]] = fresh
      BY <1>2, <1>4
    <3> QED
      BY <1>1, <1>3, <2>2, <3>1, GuestsAre, GuestsWillBe
  <2>3. CASE g \in [conn : Conns, code : Codes, peer : PeerIds] /\ g.code # code
    <3>1. g.code \in Codes /\ pool'[g.code] = pool[g.code]
      BY <1>2, <2>3
    <3>2. pool[g.code] # NoRoom => rooms'[pool[g.code]] = rooms[pool[g.code]]
      BY <1>1, <1>2, <1>4, <3>1
    <3> QED
      BY <3>1, <3>2, GuestsAre, GuestsWillBe
  <2> QED
    BY <2>1, <2>2, <2>3
<1>6. Guests' = Guests
  <2>1. Guests' \subseteq Guests /\ Guests \subseteq Guests'
    BY <1>5
  <2> QED
    BY <2>1
<1>7. OpenCodes' = OpenCodes \cup {code} /\ code \notin OpenCodes
  BY <1>1, <1>2, NoRoomAssumption DEF OpenCodes
<1> QED
  BY <1>6, <1>7 DEF AsLobby!Open

\* remove_if_empty closes a room in which nobody sits, or does nothing.
LEMMA CleanCloses ==
  ASSUME RegistryInv, NEW c \in Conns, Clean(c)
  PROVE  [AsLobby!Next]_AsLobby!lobby
<1> DEFINE code == task[c].code
           r == pool[code]
<1>1. GoesOn(c, task[c].then, rooms)
  BY DEF Clean
<1>2. CASE pool' = pool
  BY <1>1, <1>2, QuietIsUnseen
<1>3. CASE pool' # pool
  <2>1. r # NoRoom /\ Empty(rooms[r]) /\ pool' = [pool EXCEPT ![code] = NoRoom]
    BY <1>3 DEF Clean
  <2>2. code \in Codes
    BY <1>3, <2>1 DEF RegistryInv, TypeOK
  <2>3. /\ pool'[code] = NoRoom
        /\ \A k \in Codes \ {code} : pool'[k] = pool[k]
        /\ \A k \in Codes : pool[k] # NoRoom => pool[k] \in RoomIds
    BY <2>1, <2>2 DEF RegistryInv, TypeOK
  <2>4. \A p, d : ~Sits(rooms[r], p, d)
    BY <2>1 DEF Empty, Sits
  <2>5. \A k \in Codes : pool'[k] \in RoomIds => rooms'[pool'[k]] = rooms[pool'[k]]
    BY <1>1, NamedRoomsStay
  <2> HIDE DEF code
  <2>6. ASSUME NEW g PROVE g \in Guests' <=> g \in Guests
    <3>1. CASE g \notin [conn : Conns, code : Codes, peer : PeerIds]
      BY <3>1, GuestsAre, GuestsWillBe
    <3>2. CASE g \in [conn : Conns, code : Codes, peer : PeerIds] /\ g.code = code
      BY <2>3, <2>4, <3>2, GuestsAre, GuestsWillBe
    <3>3. CASE g \in [conn : Conns, code : Codes, peer : PeerIds] /\ g.code # code
      <4>1. g.code \in Codes /\ pool'[g.code] = pool[g.code]
        BY <2>3, <3>3
      <4>2. pool[g.code] # NoRoom => rooms'[pool[g.code]] = rooms[pool[g.code]]
        BY <2>3, <2>5, <4>1
      <4> QED
        BY <4>1, <4>2, GuestsAre, GuestsWillBe
    <3> QED
      BY <3>1, <3>2, <3>3
  <2>7. Guests' = Guests
    <3>1. Guests' \subseteq Guests /\ Guests \subseteq Guests'
      BY <2>6
    <3> QED
      BY <3>1
  <2>8. OpenCodes' = OpenCodes \ {code} /\ code \in OpenCodes
    BY <2>1, <2>2, <2>3 DEF OpenCodes
  <2>9. AsLobby!Inside(code) = {}
    <3> SUFFICES ASSUME NEW g \in Guests, g.code = code PROVE FALSE
      BY DEF AsLobby!Inside
    <3> QED
      BY <2>4, GuestsAre
  <2>10. AsLobby!Close(code)
    BY <2>7, <2>8, <2>9 DEF AsLobby!Close
  <2> QED
    BY <2>2, <2>10 DEF AsLobby!Next
<1> QED
  BY <1>2, <1>3

-----------------------------------------------------------------------------
(* A joiner enters.                                                        *)

\* A join enters the room the code leads to, or one that nothing leads to any more.
LEMMA JoinEnters ==
  ASSUME RegistryInv, NEW c \in Conns, NEW hash \in Hashes, Join(c, hash)
  PROVE  [AsLobby!Next]_AsLobby!lobby
<1> DEFINE r == task[c].room
           room == rooms[r]
           adv == AdvancePeerId(room)
           peer == NextPeerId(room)
           seat == [conn |-> c, hash |-> hash, side |-> NextAvailableSide(room)]
           new == TakeSeat(adv, peer, seat)
           rs == [rooms EXCEPT ![r] = new]
<1>1. /\ task[c].at = "joining" /\ r \in RoomIds /\ room \in Room
      /\ rooms \in [RoomIds -> Room] /\ FreePeerIds(room) # {}
  <2>1. task[c] \in Task /\ task[c].at = "joining" /\ FreePeerIds(room) # {}
    BY DEF Join, RegistryInv, TypeOK
  <2>2. r \in RoomIds
    BY <2>1, TaskShape DEF Joining
  <2> QED
    BY <2>1, <2>2 DEF RegistryInv, TypeOK
<1>2. GoesOn(c, Idle, rs) /\ pool' = pool
  BY DEF Join
<1>3. peer \in FreePeerIds(room) /\ peer \in PeerIds
  BY <1>1, NextPeerIdIsFree DEF FreePeerIds
<1>4. seat \in Seat /\ seat.conn = c
  BY <1>1, NextAvailableSideIsFree DEF Seat
<1>5. /\ adv \in Room /\ FreePeerIds(adv) = FreePeerIds(room)
      /\ \A p, d : Sits(adv, p, d) <=> Sits(room, p, d)
  <2>1. adv \in Room /\ adv = [room EXCEPT !.next = adv.next]
    BY <1>1, AdvanceKeepsSeats
  <2>2. adv.clients = room.clients /\ adv.pending = room.pending
    BY <1>1, <2>1 DEF Room
  <2> QED
    BY <2>1, <2>2 DEF Sits, FreePeerIds, Occupied
<1>6. \A p \in PeerIds, d \in Conns : Sits(new, p, d) <=> Sits(room, p, d) \/ (p = peer /\ d = c)
  <2> HIDE DEF adv, seat, peer, room
  <2> QED
    BY <1>3, <1>4, <1>5, TakeSeatKeepsOthers
<1>7. rs[r] = new /\ \A q \in RoomIds \ {r} : rs[q] = rooms[q]
  BY <1>1
<1> HIDE DEF rs, new, adv, seat, peer, room, r
<1>8. ASSUME NEW code \in Codes, pool[code] # NoRoom
      PROVE  /\ pool[code] \in RoomIds
             /\ rooms[pool[code]].code = code
             /\ rooms'[pool[code]] = rs[pool[code]]
  <2>1. pool[code] \in RoomIds /\ rooms[pool[code]].code = code
    BY <1>8 DEF RegistryInv, TypeOK, PoolNamesRooms
  <2> QED
    BY <1>2, <2>1, NamedRoomsStay
<1>9. OpenCodes' = OpenCodes
  BY <1>2 DEF OpenCodes
<1>10. CASE \A code \in Codes : pool[code] # r
  <2>1. ASSUME NEW g PROVE g \in Guests' <=> g \in Guests
    BY <1>2, <1>7, <1>8, <1>10, GuestsAre, GuestsWillBe
  <2>2. Guests' \subseteq Guests /\ Guests \subseteq Guests'
    BY <2>1
  <2> QED
    BY <1>9, <2>2 DEF AsLobby!lobby
<1>11. ASSUME NEW code \in Codes, pool[code] = r
       PROVE  [AsLobby!Next]_AsLobby!lobby
  <2> DEFINE joiner == [conn |-> c, code |-> code, peer |-> peer]
  <2>1. pool[code] # NoRoom /\ code \in OpenCodes
    BY <1>1, <1>11, NoRoomAssumption DEF OpenCodes
  <2>2. \A g \in Guests : g.conn # c
    <3> SUFFICES ASSUME NEW g \in Guests, g.conn = c PROVE FALSE
      OBVIOUS
    <3>1. /\ g.code \in Codes /\ g.peer \in PeerIds /\ pool[g.code] # NoRoom
          /\ Sits(rooms[pool[g.code]], g.peer, c)
      BY GuestsAre
    <3>2. pool[g.code] \in RoomIds /\ Registered(pool[g.code])
      BY <1>8, <3>1 DEF Registered
    <3> QED
      BY <1>1, <3>1, <3>2, SeatlessBetween
  <2>3. \A g \in AsLobby!Inside(code) : g.peer # peer
    <3> SUFFICES ASSUME NEW g \in Guests, g.code = code, g.peer = peer PROVE FALSE
      BY DEF AsLobby!Inside
    <3>1. Sits(room, peer, g.conn)
      BY <1>11, GuestsAre DEF room
    <3> QED
      BY <1>3, <3>1 DEF Sits, FreePeerIds, Occupied
  <2>4. ASSUME NEW g PROVE g \in Guests' <=> g \in Guests \cup {joiner}
    <3>1. CASE g \notin [conn : Conns, code : Codes, peer : PeerIds]
      BY <1>3, <3>1, GuestsAre, GuestsWillBe
    <3>2. CASE g \in [conn : Conns, code : Codes, peer : PeerIds] /\ pool[g.code] # r
      BY <1>2, <1>7, <1>8, <1>11, <3>2, GuestsAre, GuestsWillBe
    <3>3. CASE g \in [conn : Conns, code : Codes, peer : PeerIds] /\ pool[g.code] = r
      <4>1. g.code = code
        BY <1>8, <1>11, <2>1, <3>3
      <4>2. rooms'[r] = new
        BY <1>7, <1>8, <1>11, <2>1
      <4>3. g \in Guests' <=> Sits(new, g.peer, g.conn)
        BY <1>2, <2>1, <3>3, <4>1, <4>2, GuestsWillBe
      <4>4. g \in Guests <=> Sits(room, g.peer, g.conn)
        BY <2>1, <3>3, <4>1, GuestsAre DEF room
      <4>5. g = joiner <=> g.peer = peer /\ g.conn = c
        BY <3>3, <4>1
      <4> QED
        BY <1>6, <3>3, <4>3, <4>4, <4>5
    <3> QED
      BY <3>1, <3>2, <3>3
  <2>5. Guests' = Guests \cup {joiner}
    <3> HIDE DEF joiner
    <3>1. Guests' \subseteq Guests \cup {joiner} /\ Guests \cup {joiner} \subseteq Guests'
      BY <2>4
    <3> QED
      BY <3>1
  <2>6. AsLobby!Enter(c, code, peer)
    BY <1>9, <2>2, <2>3, <2>5 DEF AsLobby!Enter
  <2> QED
    BY <1>3, <2>1, <2>6 DEF AsLobby!Next
<1> QED
  BY <1>10, <1>11

\* A joiner that gets no id moves the counter of the room and nobody in it.
LEMMA JoinWithoutIdUnseen ==
  ASSUME RegistryInv, NEW c \in Conns, NEW hash \in Hashes, JoinWithoutId(c, hash)
  PROVE  [AsLobby!Next]_AsLobby!lobby
<1> DEFINE r == task[c].room
           adv == AdvancePeerId(rooms[r])
<1>1. r \in RoomIds /\ rooms[r] \in Room
  <2>1. task[c] \in Task /\ task[c].at = "joining"
    BY DEF JoinWithoutId, RegistryInv, TypeOK
  <2> QED
    BY <2>1, TaskShape DEF Joining, RegistryInv, TypeOK
<1>2. adv \in Room /\ adv = [rooms[r] EXCEPT !.next = adv.next]
  BY <1>1, AdvanceKeepsSeats
<1>3. SeatsWithin(adv, rooms[r])
  <2>1. adv.clients = rooms[r].clients /\ adv.pending = rooms[r].pending /\ adv.code = rooms[r].code
    BY <1>1, <1>2 DEF Room
  <2> QED
    BY <1>2, <2>1, SameSeatsWithin
<1>4. GoesOn(c, Idle, [rooms EXCEPT ![r] = adv]) /\ pool' = pool
  BY DEF JoinWithoutId
<1> HIDE DEF adv, r
<1> QED
  BY <1>1, <1>3, <1>4, SeatsGo

-----------------------------------------------------------------------------
(* The theorems.                                                           *)

\* Every step of the registry is a step of the lobby, or unseen there.
LEMMA StepImplements == RegistryInv /\ [Next]_vars => [AsLobby!Next]_AsLobby!lobby
<1> SUFFICES ASSUME RegistryInv, [Next]_vars PROVE [AsLobby!Next]_AsLobby!lobby
  OBVIOUS
<1>1. CASE UNCHANGED vars \/ Terminated
  BY <1>1 DEF Terminated, vars, AsLobby!lobby, OpenCodes, Guests
<1>2. ASSUME NEW c \in Conns, BeginStep(c) \/ Abort(c)
      PROVE  UNCHANGED AsLobby!lobby
  <2>1. pool' = pool /\ \E t : GoesOn(c, t, rooms)
    BY <1>2 DEF BeginStep, BeginHello, BeginLeave, Disconnect, BeginAct, Abort
  <2> QED
    BY <2>1, QuietIsUnseen
<1>3. ASSUME NEW c \in Conns, HelloStep(c)
      PROVE  [AsLobby!Next]_AsLobby!lobby
  <2>1. ASSUME RejectHello(c) \/ \E code \in Codes : FindRoom(c, code)
        PROVE  UNCHANGED AsLobby!lobby
    <3>1. pool' = pool /\ \E t : GoesOn(c, t, rooms)
      BY <2>1 DEF RejectHello, FindRoom
    <3> QED
      BY <3>1, QuietIsUnseen
  <2>2. ASSUME NEW code \in Codes, NEW r \in RoomIds, CreateRoom(c, code, r)
        PROVE  AsLobby!Next
    BY <2>2, CreateOpens DEF AsLobby!Next
  <2>3. ASSUME NEW hash \in Hashes, JoinRefused(c, hash)
        PROVE  UNCHANGED AsLobby!lobby
    <3>1. pool' = pool /\ \E t : GoesOn(c, t, rooms)
      BY <2>3 DEF JoinRefused
    <3> QED
      BY <3>1, QuietIsUnseen
  <2> QED
    BY <1>3, <2>1, <2>2, <2>3, JoinEnters, JoinWithoutIdUnseen DEF HelloStep
<1>4. ASSUME NEW c \in Conns, LeaveStep(c)
      PROVE  [AsLobby!Next]_AsLobby!lobby
  BY <1>4, VacateDeparts, CleanCloses DEF LeaveStep
<1>5. ASSUME NEW c \in Conns, ActStep(c)
      PROVE  [AsLobby!Next]_AsLobby!lobby
  BY <1>5, ActStepOutcome, ActsUnseated DEF Outcome
<1> QED
  BY <1>1, <1>2, <1>3, <1>4, <1>5 DEF Next

\* With lookups, mutexes and clean-ups interleaved in any order, ids and codes reused
\* and tasks dropped, the rooms that codes lead to are a lobby (dispatch.rs:40-42 and
\* 94-182, pool.rs:95-104, mod.rs:388-410).
THEOREM RegistryImplementsLobby == Spec => Implements
<1>1. Init => AsLobby!Init
  <2> SUFFICES ASSUME Init PROVE AsLobby!Init
    OBVIOUS
  <2>1. \A code \in Codes : pool[code] = NoRoom
    BY DEF Init
  <2> QED
    BY <2>1 DEF AsLobby!Init, OpenCodes, Guests
<1>2. RegistryInv /\ [Next]_vars => [AsLobby!Next]_AsLobby!lobby
  BY StepImplements
<1> QED
  BY <1>1, <1>2, RegistryInvariance, PTL DEF Spec, Implements, AsLobby!Spec

\* In a lobby rooms are entered and left one step at a time, so their order is kept (of
\* dispatch.rs:40-42 and 94-182, pool.rs:95-104 and mod.rs:388-410, as seen through
\* Implements in RoomRegistry).
THEOREM LobbyIsOrderly == AsLobby!Spec => []AsLobby!Orderly
<1>1. AsLobby!Init => AsLobby!Orderly
  BY DEF AsLobby!Init, AsLobby!Orderly, AsLobby!TypeOK
<1>2. AsLobby!Orderly /\ [AsLobby!Next]_AsLobby!lobby => AsLobby!Orderly'
  <2> SUFFICES ASSUME AsLobby!Orderly, [AsLobby!Next]_AsLobby!lobby PROVE AsLobby!Orderly'
    OBVIOUS
  <2> USE DEF AsLobby!Orderly, AsLobby!TypeOK
  <2>1. ASSUME NEW code \in Codes, AsLobby!Open(code) \/ AsLobby!Close(code)
        PROVE  AsLobby!Orderly'
    BY <2>1 DEF AsLobby!Open, AsLobby!Close, AsLobby!Inside
  <2>2. ASSUME NEW c \in Conns, NEW code \in OpenCodes, NEW id \in PeerIds,
               AsLobby!Enter(c, code, id)
        PROVE  AsLobby!Orderly'
    BY <2>2 DEF AsLobby!Enter, AsLobby!Inside, AsLobby!Guest
  <2>3. ASSUME NEW code \in Codes, NEW gone \in SUBSET AsLobby!Inside(code),
               AsLobby!Depart(gone)
        PROVE  AsLobby!Orderly'
    BY <2>3 DEF AsLobby!Depart, AsLobby!Inside
  <2>4. CASE UNCHANGED AsLobby!lobby
    BY <2>4 DEF AsLobby!lobby
  <2> QED
    BY <2>1, <2>2, <2>3, <2>4 DEF AsLobby!Next
<1> QED
  BY <1>1, <1>2, PTL DEF AsLobby!Spec

\* What the lobby promises holds of the rooms: nobody, not even a dropped task, sits
\* twice in rooms that codes lead to, and no two guests of a room share an id, accepted
\* or pending (dispatch.rs:160-182).
THEOREM GuestsAreOrderly == Spec => []AsLobby!Orderly
BY LobbyIsOrderly, RegistryImplementsLobby, PTL DEF Implements

-----------------------------------------------------------------------------
(* Hosts, sizes, sides and the identity of peers, and who attends to empty *)
(* rooms.  A step changes the rooms in one of three ways: a room is        *)
(* created, a joiner takes a seat, or a task turns the room it holds into  *)
(* one with seats it had.  StepKinds shows this once; the theorems use it. *)

\* c goes on without touching a room.  A leave that it begins is from the room of its
\* session, and a request that it begins is to that room.
StepsOutside(c) ==
  \E t \in Task :
    /\ GoesOn(c, t, rooms)
    /\ issued' = issued
    /\ pool' # pool => Clean(c)
    /\ sess' \in {sess, [sess EXCEPT ![c] = NoSession]}
    /\ t.at = "leaving" => /\ sess[c] # NoSession
                           /\ t.room = pool[sess[c].code]
                           /\ t.peer = sess[c].peer
    /\ t.at = "acting" => /\ sess[c] # NoSession /\ sess' = sess
                          /\ t.room = pool[sess[c].code]
    /\ t.at = "joining" => \E code \in Codes : FindRoom(c, code) /\ t = Joining(pool[code])
    /\ t = Idle => task[c].at # "acting"
    /\ sess' # sess => t.at # "acting"
    /\ task[c].at # "leaving"
    /\ task[c].at = "joining" => \E hash \in Hashes : JoinRefused(c, hash)
    /\ task[c].at = "cleaning" => Clean(c)

\* c turns the room r, which it holds, into new.
StepsInside(c, r, new) ==
  /\ HoldsRoom(task[c], r)
  /\ \E t \in Task : /\ GoesOn(c, t, [rooms EXCEPT ![r] = new])
                     /\ t.at \notin {"joining", "leaving", "acting"}
                     /\ task[c].at = "leaving" /\ Empty(new) =>
                          \E then \in Afterwards : t = Cleaning(rooms[r].code, then)
  /\ UNCHANGED <<pool, sess, issued>>
  /\ SeatsWithin(new, rooms[r])
  /\ new.next # rooms[r].next => task[c] = Joining(r) /\ FreePeerIds(rooms[r]) = {}
  /\ new.state # rooms[r].state => task[c] = Acting(r) /\ IsHost(c) /\ new.state = c
  /\ \/ HostKept(new, rooms[r])
     \/ task[c] = Acting(r) /\ IsHost(c) /\ new.host = rooms[r].host
  /\ \A p \in PeerIds, d \in Conns :
       Sits(rooms[r], p, d) /\ ~Sits(new, p, d) =>
         \/ d \in Closed
         \/ task[c].at = "leaving" /\ task[c].peer = p
         \/ task[c] = Acting(r) /\ IsHost(c)
  /\ task[c].at = "joining" => /\ FreePeerIds(rooms[r]) = {}
                               /\ new.clients = rooms[r].clients
                               /\ new.pending = rooms[r].pending
  /\ Gentle => new.banned = rooms[r].banned
  /\ Gentle /\ task[c].at = "acting" => Spares(new, rooms[r])
  /\ LockedBySettings(new, rooms[r])

\* A request from inside a room.
LEMMA ActStepsInside ==
  ASSUME RegistryInv, NEW c \in Conns, ActStep(c)
  PROVE  \E r \in RoomIds, new \in Room : StepsInside(c, r, new)
<1> DEFINE r == task[c].room
<1>1. PICK outcomes : Acts(c, outcomes) /\ \A new \in outcomes : Outcome(c, new, rooms[r])
  BY ActStepOutcome
<1>2. PICK new \in outcomes : GoesOn(c, Idle, [rooms EXCEPT ![r] = new])
  BY <1>1 DEF Acts
<1>3. task[c] = Acting(r) /\ r \in RoomIds /\ task[c].at = "acting"
  <2>1. task[c] \in Task /\ task[c].at = "acting"
    BY <1>1 DEF Acts, RegistryInv, TypeOK
  <2> QED
    BY <2>1, TaskShape DEF Acting
<1>4. Outcome(c, new, rooms[r]) /\ UNCHANGED <<pool, sess, issued>>
  BY <1>1, <1>2 DEF Acts
<1>6. /\ HoldsRoom(task[c], r) /\ Idle \in Task
      /\ Idle.at \notin {"joining", "leaving", "acting"}
  BY <1>3, TaskTypes DEF HoldsRoom, Idle
<1> HIDE DEF r
<1>7. new.next = rooms[r].next /\ SeatsWithin(new, rooms[r])
  BY <1>4 DEF Outcome
<1>8. new # rooms[r] => IsHost(c)
  BY <1>4 DEF Outcome
<1>9. HostKept(new, rooms[r]) \/ (IsHost(c) /\ new.host = rooms[r].host)
  BY <1>4, <1>8 DEF Outcome, HostKept
<1>10. new.state # rooms[r].state => IsHost(c) /\ new.state = c
  BY <1>4, <1>8 DEF Outcome
<1>11. /\ Gentle => new.banned = rooms[r].banned
       /\ Gentle => Spares(new, rooms[r])
       /\ LockedBySettings(new, rooms[r])
  BY <1>4 DEF Outcome, Spares
<1>12. StepsInside(c, r, new)
  BY <1>2, <1>3, <1>4, <1>6, <1>7, <1>8, <1>9, <1>10, <1>11 DEF StepsInside
<1> QED
  BY <1>3, <1>7, <1>12 DEF SeatsWithin

\* A leaver vacates its seat.
LEMMA VacateStepsInside ==
  ASSUME RegistryInv, NEW c \in Conns, Vacate(c)
  PROVE  \E r \in RoomIds, new \in Room : StepsInside(c, r, new)
<1>1. task[c] \in Task /\ task[c].at = "leaving"
  BY DEF Vacate, RegistryInv, TypeOK
<1>2. PICK r \in RoomIds, peer \in PeerIds, then \in Afterwards : task[c] = Leaving(r, peer, then)
  BY <1>1, TaskShape
<1>3. task[c].room = r /\ task[c].peer = peer /\ task[c].then = then
  BY <1>2 DEF Leaving
<1>4. PICK left \in Left(rooms[r], peer, Closed) :
        GoesOn(c, IF Empty(left) THEN Cleaning(rooms[r].code, then) ELSE then,
               [rooms EXCEPT ![r] = left])
  BY <1>3 DEF Vacate
<1> DEFINE t == IF Empty(left) THEN Cleaning(rooms[r].code, then) ELSE then
<1>5. rooms[r] \in Room /\ rooms[r].code \in Codes
  BY <1>1, <1>3 DEF RegistryInv, TypeOK, HeldRoomsExist, HoldsRoom
<1>6. /\ t \in Task /\ t.at \notin {"joining", "acting", "leaving"}
      /\ Empty(left) => t = Cleaning(rooms[r].code, then)
  BY <1>5, TaskTypes DEF Cleaning
<1>7. SeatsWithin(left, rooms[r])
  BY <1>4, <1>5, LeftWithin
<1>8. /\ SameButSeats(left, rooms[r]) /\ HostKept(left, rooms[r])
      /\ \A p \in PeerIds \ {peer} :
           \A d : Sits(rooms[r], p, d) /\ d \notin Closed => Sits(left, p, d)
  BY <1>4, <1>5, LeftEffects
<1>9. GoesOn(c, t, [rooms EXCEPT ![r] = left]) /\ UNCHANGED <<pool, sess, issued>>
  BY <1>4 DEF Vacate
<1>10. HoldsRoom(task[c], r)
  BY <1>1, <1>3 DEF HoldsRoom
<1> HIDE DEF t
<1>11. StepsInside(c, r, left)
  BY <1>1, <1>2, <1>3, <1>5, <1>6, <1>7, <1>8, <1>9, <1>10
  DEF StepsInside, SameButSeats, LockedBySettings
<1> QED
  BY <1>7, <1>11 DEF SeatsWithin

\* A joiner for whom no id is left moves the counter of the room.
LEMMA JoinWithoutIdStepsInside ==
  ASSUME RegistryInv, NEW c \in Conns, NEW hash \in Hashes, JoinWithoutId(c, hash)
  PROVE  \E r \in RoomIds, new \in Room : StepsInside(c, r, new)
<1> DEFINE r == task[c].room
           room == rooms[r]
           new == AdvancePeerId(room)
<1>1. /\ task[c].at = "joining" /\ r \in RoomIds /\ room \in Room
      /\ FreePeerIds(room) = {}
  <2>1. task[c] \in Task /\ task[c].at = "joining" /\ FreePeerIds(room) = {}
    BY DEF JoinWithoutId, RegistryInv, TypeOK
  <2> QED
    BY <2>1, TaskShape DEF Joining, RegistryInv, TypeOK
<1>2. task[c] = Joining(r)
  BY <1>1, TaskShape DEF Joining, RegistryInv, TypeOK
<1>3. new \in Room /\ new = [room EXCEPT !.next = SaturatingSucc(room.next)]
  BY <1>1, AdvanceKeepsSeats DEF AdvancePeerId
<1>5. /\ new.clients = room.clients /\ new.pending = room.pending /\ new.code = room.code
      /\ new.host = room.host /\ new.state = room.state
      /\ new.banned = room.banned /\ new.settings = room.settings
  BY <1>1, <1>3 DEF Room
<1>6. GoesOn(c, Idle, [rooms EXCEPT ![r] = new]) /\ UNCHANGED <<pool, sess, issued>>
  BY DEF JoinWithoutId
<1>7. /\ HoldsRoom(task[c], r) /\ Idle \in Task
      /\ Idle.at \notin {"joining", "leaving", "acting"}
  BY <1>1, TaskTypes DEF HoldsRoom, Idle
<1>8. new \in Room
  BY <1>3
<1> HIDE DEF new
<1>9. SeatsWithin(new, room)
  BY <1>5, <1>8, SameSeatsWithin
<1>10. HostKept(new, room) /\ \A p \in PeerIds, d \in Conns : Sits(room, p, d) => Sits(new, p, d)
  BY <1>5 DEF HostKept, Hosted, Sits
<1> HIDE DEF r
<1>11. StepsInside(c, r, new)
  BY <1>1, <1>2, <1>5, <1>6, <1>7, <1>9, <1>10 DEF StepsInside, LockedBySettings
<1> QED
  BY <1>1, <1>8, <1>11

\* A task at rest begins a Hello, a leave, another request or its end, or is dropped.
LEMMA BeginStepsOutside ==
  ASSUME RegistryInv, NEW c \in Conns, BeginStep(c) \/ Abort(c)
  PROVE  StepsOutside(c)
<1> DEFINE taken == [sess EXCEPT ![c] = NoSession]
<1>1. task[c] = Idle /\ task[c].at = "idle" /\ pool' = pool /\ issued' = issued
  BY DEF BeginStep, BeginHello, BeginLeave, Disconnect, BeginAct, Abort, Idle
<1>2. ASSUME NEW then \in Afterwards,
             \/ sess[c] = NoSession /\ GoesOn(c, then, rooms)
             \/ sess[c] # NoSession /\ GoesOn(c, StartsLeaving(c, then), rooms),
             sess' = taken
      PROVE  StepsOutside(c)
  <2>1. /\ then \in Task /\ then.at \notin {"joining", "acting", "leaving"}
    BY TaskTypes
  <2>2. CASE GoesOn(c, then, rooms)
    BY <1>1, <1>2, <2>1, <2>2 DEF StepsOutside
  <2>3. CASE ~GoesOn(c, then, rooms)
    <3> DEFINE t == Leaving(pool[sess[c].code], sess[c].peer, then)
    <3>1. sess[c] # NoSession /\ pool[sess[c].code] # NoRoom /\ GoesOn(c, t, rooms)
      BY <1>2, <2>3 DEF StartsLeaving
    <3>2. t \in Task
      BY <3>1, TaskTypes DEF RegistryInv, TypeOK, Session
    <3>3. /\ t.at = "leaving" /\ t.room = pool[sess[c].code] /\ t.peer = sess[c].peer
          /\ t # Idle
      BY DEF Leaving, Idle
    <3> HIDE DEF t
    <3> QED
      BY <1>1, <1>2, <3>1, <3>2, <3>3 DEF StepsOutside
  <2> QED
    BY <2>2, <2>3
<1>3. Idle \in Afterwards /\ Entering \in Afterwards /\ Down \in Afterwards
  BY DEF Afterwards
<1>4. CASE BeginHello(c)
  BY <1>2, <1>3, <1>4 DEF BeginHello
<1>5. CASE BeginLeave(c)
  BY <1>2, <1>3, <1>5 DEF BeginLeave
<1>6. CASE Disconnect(c)
  BY <1>2, <1>3, <1>6 DEF Disconnect
<1>7. CASE Abort(c)
  <2>1. GoesOn(c, Aborted, rooms) /\ sess' = taken /\ Aborted \in Task /\ Aborted.at = "aborted"
    BY <1>7, TaskTypes DEF Abort, Aborted
  <2> QED
    BY <1>1, <2>1 DEF StepsOutside
<1>8. CASE BeginAct(c)
  <2> DEFINE t == Acting(pool[sess[c].code])
  <2>1. /\ sess[c] # NoSession /\ pool[sess[c].code] # NoRoom
        /\ GoesOn(c, t, rooms) /\ sess' = sess
    BY <1>8 DEF BeginAct
  <2>2. t \in Task
    BY <2>1, TaskTypes DEF RegistryInv, TypeOK, Session
  <2>3. t.at = "acting" /\ t.room = pool[sess[c].code]
    BY DEF Acting
  <2> HIDE DEF t
  <2> QED
    BY <1>1, <2>1, <2>2, <2>3 DEF StepsOutside
<1> QED
  BY <1>4, <1>5, <1>6, <1>7, <1>8 DEF BeginStep

\* A Hello is rejected, finds its room, or is refused there.
LEMMA HelloStepsOutside ==
  ASSUME RegistryInv, NEW c \in Conns,
         \/ RejectHello(c)
         \/ \E code \in Codes : FindRoom(c, code)
         \/ \E hash \in Hashes : JoinRefused(c, hash)
  PROVE  StepsOutside(c)
<1>1. UNCHANGED <<pool, sess, issued>>
  BY DEF RejectHello, FindRoom, JoinRefused
<1>2. ASSUME GoesOn(c, Idle, rooms), task[c].at \notin {"acting", "leaving", "cleaning"},
             task[c].at = "joining" => \E hash \in Hashes : JoinRefused(c, hash)
      PROVE  StepsOutside(c)
  <2>1. Idle \in Task /\ Idle.at = "idle"
    BY TaskTypes DEF Idle
  <2> QED
    BY <1>1, <1>2, <2>1 DEF StepsOutside
<1>3. CASE RejectHello(c)
  BY <1>2, <1>3 DEF RejectHello, Entering
<1>4. CASE \E hash \in Hashes : JoinRefused(c, hash)
  BY <1>2, <1>4 DEF JoinRefused
<1>5. ASSUME NEW code \in Codes, FindRoom(c, code)
      PROVE  StepsOutside(c)
  <2> DEFINE t == Joining(pool[code])
  <2>1. GoesOn(c, t, rooms) /\ pool[code] \in RoomIds
    BY <1>5 DEF FindRoom, RegistryInv, TypeOK
  <2>2. t \in Task /\ t.at = "joining" /\ t # Idle
    BY <2>1, TaskTypes DEF Joining, Idle
  <2>3. task[c].at = "entering"
    BY <1>5 DEF FindRoom, Entering
  <2> QED
    BY <1>1, <1>5, <2>1, <2>2, <2>3 DEF StepsOutside
<1> QED
  BY <1>3, <1>4, <1>5

\* Cleaning up changes no room.
LEMMA CleanStepsOutside ==
  ASSUME RegistryInv, NEW c \in Conns, Clean(c)
  PROVE  StepsOutside(c)
<1>1. task[c] \in Task /\ task[c].at = "cleaning"
  BY DEF Clean, RegistryInv, TypeOK
<1>2. PICK code \in Codes, then \in Afterwards : task[c] = Cleaning(code, then)
  BY <1>1, TaskShape
<1>3. task[c].then = then /\ then \in Task /\ then.at \notin {"joining", "acting", "leaving"}
  BY <1>2, TaskTypes DEF Cleaning
<1>4. GoesOn(c, then, rooms) /\ UNCHANGED <<sess, issued>>
  BY <1>3 DEF Clean
<1> QED
  BY <1>1, <1>3, <1>4 DEF StepsOutside

\* c takes a seat in the room r, which becomes new.
Joins(c, r, new) ==
  LET room == rooms[r]
      peer == NextPeerId(room)
  IN  /\ task[c] = Joining(r)
      /\ GoesOn(c, Idle, [rooms EXCEPT ![r] = new])
      /\ UNCHANGED <<pool, issued>>
      /\ sess' = [sess EXCEPT ![c] = [code |-> room.code, peer |-> peer]]
      /\ peer \in FreePeerIds(room)
      /\ ~IsFull(room)
      /\ \E seat \in Seat : /\ seat.conn = c
                            /\ seat.side = NextAvailableSide(room)
                            /\ new = TakeSeat(AdvancePeerId(room), peer, seat)

\* What becomes of a room in which somebody sits down.
LEMMA JoinsEffects ==
  ASSUME NEW c \in Conns, NEW r, rooms[r] \in Room, NEW new, Joins(c, r, new)
  PROVE  LET room == rooms[r]
             peer == NextPeerId(room)
         IN  /\ new \in Room
             /\ new.code = room.code /\ new.state = room.state
             /\ new.settings = room.settings /\ new.banned = room.banned
             /\ new.next = SaturatingSucc(peer)
             /\ HostKept(new, room)
             /\ Apart(room) => Apart(new) /\ SeatCount(new) = SeatCount(room) + 1
             /\ \A p \in PeerIds, d \in Conns :
                  Sits(new, p, d) <=> Sits(room, p, d) \/ (p = peer /\ d = c)
<1> DEFINE room == rooms[r]
           peer == NextPeerId(room)
           adv == AdvancePeerId(room)
<1>1. peer \in FreePeerIds(room) /\ peer \in PeerIds /\ room \in Room
  BY DEF Joins, FreePeerIds
<1>2. PICK seat \in Seat : seat.conn = c /\ new = TakeSeat(adv, peer, seat)
  BY DEF Joins
<1>3. adv \in Room /\ adv = [room EXCEPT !.next = SaturatingSucc(peer)]
  BY <1>1, AdvanceKeepsSeats DEF AdvancePeerId
<1>4. /\ adv.clients = room.clients /\ adv.pending = room.pending /\ adv.host = room.host
      /\ adv.code = room.code /\ adv.state = room.state /\ adv.settings = room.settings
      /\ adv.banned = room.banned /\ adv.next = SaturatingSucc(peer)
  BY <1>1, <1>3 DEF Room
<1> HIDE DEF adv, peer, room
<1>5. /\ FreePeerIds(adv) = FreePeerIds(room)
      /\ Apart(adv) <=> Apart(room)
      /\ SeatCount(adv) = SeatCount(room)
      /\ \A p, d : Sits(adv, p, d) <=> Sits(room, p, d)
      /\ Hosted(adv) <=> Hosted(room)
  BY <1>4 DEF FreePeerIds, Occupied, Apart, SeatCount, Sits, Hosted
<1>6. new \in Room
  BY <1>1, <1>2, <1>3, TakeSeatAddsOne
<1>7. SameButSeats(new, adv) /\ HostKept(new, adv) /\ (Apart(adv) => Apart(new))
  BY <1>1, <1>2, <1>3, <1>5, TakeSeatEffects
<1>8. Apart(adv) => SeatCount(new) = SeatCount(adv) + 1
  BY <1>1, <1>2, <1>3, <1>5, TakeSeatCount
<1>9. \A p \in PeerIds, d \in Conns : Sits(new, p, d) <=> Sits(adv, p, d) \/ (p = peer /\ d = c)
  BY <1>1, <1>2, <1>3, <1>5, TakeSeatKeepsOthers
<1>10. HostKept(new, room)
  BY <1>5, <1>7 DEF HostKept
<1> QED
  BY <1>4, <1>5, <1>6, <1>7, <1>8, <1>9, <1>10 DEF SameButSeats, room, peer

\* A joiner that is let in takes a seat.
LEMMA JoinJoins ==
  ASSUME RegistryInv, NEW c \in Conns, NEW hash \in Hashes, Join(c, hash)
  PROVE  \E r \in RoomIds, new \in Room : Joins(c, r, new)
<1> DEFINE r == task[c].room
           room == rooms[r]
           peer == NextPeerId(room)
           seat == [conn |-> c, hash |-> hash, side |-> NextAvailableSide(room)]
           new == TakeSeat(AdvancePeerId(room), peer, seat)
<1>1. task[c] = Joining(r) /\ r \in RoomIds /\ room \in Room /\ FreePeerIds(room) # {}
  <2>1. task[c] \in Task /\ task[c].at = "joining" /\ FreePeerIds(room) # {}
    BY DEF Join, RegistryInv, TypeOK
  <2> QED
    BY <2>1, TaskShape DEF Joining, RegistryInv, TypeOK
<1>2. peer \in FreePeerIds(room)
  BY <1>1, NextPeerIdIsFree
<1>3. seat \in Seat /\ seat.conn = c /\ seat.side = NextAvailableSide(room)
  BY <1>1, NextAvailableSideIsFree DEF Seat
<1>4. /\ GoesOn(c, Idle, [rooms EXCEPT ![r] = new])
      /\ UNCHANGED <<pool, issued>>
      /\ sess' = [sess EXCEPT ![c] = [code |-> room.code, peer |-> peer]]
      /\ ~IsFull(room)
  BY DEF Join, Refuses
<1>5. \E s \in Seat : /\ s.conn = c /\ s.side = NextAvailableSide(room)
                      /\ new = TakeSeat(AdvancePeerId(room), peer, s)
  BY <1>3
<1> HIDE DEF new, seat
<1>6. Joins(c, r, new)
  BY <1>1, <1>2, <1>4, <1>5 DEF Joins
<1>7. new \in Room
  BY <1>1, <1>6, JoinsEffects
<1> QED
  BY <1>1, <1>6, <1>7

\* Every step is of one of four kinds, or changes nothing.
LEMMA StepKinds ==
  ASSUME RegistryInv, [Next]_vars
  PROVE  \/ UNCHANGED vars
         \/ \E c \in Conns :
              \/ StepsOutside(c)
              \/ \E r \in RoomIds, new \in Room : StepsInside(c, r, new) \/ Joins(c, r, new)
              \/ \E code \in Codes, r \in RoomIds : CreateRoom(c, code, r)
<1>1. CASE Terminated
  BY <1>1 DEF Terminated
<1>2. ASSUME NEW c \in Conns,
             BeginStep(c) \/ HelloStep(c) \/ LeaveStep(c) \/ ActStep(c) \/ Abort(c)
      PROVE  \/ StepsOutside(c)
             \/ \E r \in RoomIds, new \in Room : StepsInside(c, r, new) \/ Joins(c, r, new)
             \/ \E code \in Codes, r \in RoomIds : CreateRoom(c, code, r)
  BY <1>2, BeginStepsOutside, HelloStepsOutside, CleanStepsOutside, VacateStepsInside,
     JoinWithoutIdStepsInside, JoinJoins, ActStepsInside DEF HelloStep, LeaveStep
<1> QED
  BY <1>1, <1>2 DEF Next

\* What a step makes of each room: it stays, is freed or created, or somebody turns it
\* into another or sits down in it.
LEMMA RoomChanges ==
  ASSUME RegistryInv, [Next]_vars, NEW r \in RoomIds
  PROVE  \/ rooms'[r] = rooms[r]
         \/ rooms'[r] = NoSuchRoom
         \/ \E c \in Conns, code \in Codes :
              /\ CreateRoom(c, code, r)
              /\ rooms'[r] = NewRoom(code, DefaultSettings)
         \/ \E c \in Conns : /\ rooms'[r] \in Room
                             /\ StepsInside(c, r, rooms'[r]) \/ Joins(c, r, rooms'[r])
<1>1. rooms \in [RoomIds -> Room]
  BY DEF RegistryInv, TypeOK
<1>2. ASSUME NEW c, NEW t, NEW rs, GoesOn(c, t, rs), rooms'[r] # NoSuchRoom
      PROVE  rooms'[r] = rs[r]
  BY <1>2 DEF GoesOn, Collected
<1>3. CASE UNCHANGED vars
  BY <1>3 DEF vars
<1>4. ASSUME NEW c \in Conns, StepsOutside(c)
      PROVE  rooms'[r] \in {rooms[r], NoSuchRoom}
  BY <1>2, <1>4 DEF StepsOutside
<1>5. ASSUME NEW c \in Conns, NEW q \in RoomIds, NEW new \in Room,
             StepsInside(c, q, new) \/ Joins(c, q, new), rooms'[r] # NoSuchRoom
      PROVE  rooms'[r] = rooms[r] \/ (r = q /\ rooms'[r] = new)
  <2>1. \E t : GoesOn(c, t, [rooms EXCEPT ![q] = new])
    BY <1>5 DEF StepsInside, Joins
  <2>2. rooms'[r] = [rooms EXCEPT ![q] = new][r]
    BY <1>2, <1>5, <2>1
  <2> QED
    BY <1>1, <2>2
<1>6. ASSUME NEW c \in Conns, NEW code \in Codes, NEW q \in RoomIds, CreateRoom(c, code, q),
             rooms'[r] # NoSuchRoom
      PROVE  rooms'[r] = rooms[r] \/ (r = q /\ rooms'[r] = NewRoom(code, DefaultSettings))
  <2>1. GoesOn(c, Joining(q), [rooms EXCEPT ![q] = NewRoom(code, DefaultSettings)])
    BY <1>6 DEF CreateRoom
  <2>2. rooms'[r] = [rooms EXCEPT ![q] = NewRoom(code, DefaultSettings)][r]
    BY <1>2, <1>6, <2>1
  <2> QED
    BY <1>1, <2>2
<1> QED
  BY <1>3, <1>4, <1>5, <1>6, StepKinds

-----------------------------------------------------------------------------
(* The host, and the size of a room.                                       *)

\* A room that exists only as a slot, or has just been created, is empty.
LEMMA NewRoomsAreBare ==
  ASSUME NEW code \in Codes \cup {NoCode}
  PROVE  LET room == NewRoom(code, DefaultSettings)
         IN  /\ room \in Room /\ Apart(room) /\ SeatCount(room) = 0
             /\ Peers(room.clients) = {} /\ Peers(room.pending) = {}
             /\ room.code = code /\ room.next = 1 /\ room.state = NoConn /\ room.host = 0
<1>1. Peers(NoSeats) = {}
  BY DEF NoSeats, Peers
<1>2. NewRoom(code, DefaultSettings) \in Room
  BY NewRoomIsEmpty, SettingsAssumption
<1> QED
  BY <1>1, <1>2, FS_EmptySet DEF NewRoom, Apart, SeatCount

\* No peer is accepted and pending at once, whatever happens to the room.
SeatsApart == \A r \in RoomIds : Apart(rooms[r])

\* The seats of every room stay apart.
LEMMA SeatsApartInv == RegistryInv /\ SeatsApart /\ [Next]_vars => SeatsApart'
<1> SUFFICES ASSUME RegistryInv, SeatsApart, [Next]_vars, NEW r \in RoomIds
             PROVE  Apart(rooms'[r])
  BY DEF SeatsApart
<1>1. Apart(rooms[r]) /\ rooms[r] \in Room
  BY DEF SeatsApart, RegistryInv, TypeOK
<1>2. Apart(NoSuchRoom) /\ \A code \in Codes : Apart(NewRoom(code, DefaultSettings))
  BY NewRoomsAreBare DEF NoSuchRoom
<1>3. ASSUME NEW c \in Conns, StepsInside(c, r, rooms'[r])
      PROVE  Apart(rooms'[r])
  BY <1>1, <1>3, WithinApart DEF StepsInside
<1>4. ASSUME NEW c \in Conns, Joins(c, r, rooms'[r])
      PROVE  Apart(rooms'[r])
  BY <1>1, <1>4, JoinsEffects
<1> QED
  BY <1>1, <1>2, <1>3, <1>4, RoomChanges

\* No peer is accepted and pending at once.
LEMMA SeatsStayApart == Spec => []SeatsApart
<1>1. Init => SeatsApart
  BY NewRoomsAreBare DEF Init, SeatsApart, NoSuchRoom
<1> QED
  BY <1>1, SeatsApartInv, RegistryInvariance, PTL DEF Spec

\* A room loses its host only when the host it names evicts itself: joins, leaves,
\* transfers, and broadcasts that find the host or its successor gone, hand it over
\* (room.rs:170-214, mod.rs:165-205 and 388-403, dispatch.rs:172-182).
THEOREM HostIsHandedOver == Spec => HostHandedOver
<1> DEFINE Lost(r) == /\ rooms'[r].code = rooms[r].code
                      /\ rooms[r].host \in Peers(rooms[r].clients)
                      /\ Peers(rooms'[r].clients) # {}
                      /\ rooms'[r].host \notin Peers(rooms'[r].clients)
           Excused(r) == /\ rooms'[r].host = rooms[r].host
                         /\ \E h \in Conns : /\ task[h] = Acting(r)
                                             /\ task'[h] # task[h]
                                             /\ sess[h].peer = rooms[r].host
<1>1. ASSUME RegistryInv, [Next]_vars, NEW r \in RoomIds, Lost(r)
      PROVE  Excused(r)
  <2>1. rooms'[r] # rooms[r]
    BY <1>1
  <2>2. rooms'[r] # NoSuchRoom /\ \A code \in Codes : rooms'[r] # NewRoom(code, DefaultSettings)
    BY <1>1, NewRoomsAreBare DEF NoSuchRoom
  <2>3. rooms[r] \in Room /\ ~HostKept(rooms'[r], rooms[r])
    BY <1>1 DEF HostKept, Hosted, RegistryInv, TypeOK
  <2>4. PICK c \in Conns : StepsInside(c, r, rooms'[r]) \/ Joins(c, r, rooms'[r])
    BY <1>1, <2>1, <2>2, RoomChanges
  <2>5. ~Joins(c, r, rooms'[r])
    BY <2>3, JoinsEffects
  <2>6. task[c] = Acting(r) /\ IsHost(c) /\ rooms'[r].host = rooms[r].host
    BY <2>3, <2>4, <2>5 DEF StepsInside
  <2>7. task'[c] # task[c]
    <3>1. PICK t \in Task : task' = [task EXCEPT ![c] = t] /\ t.at # "acting"
      BY <2>4, <2>5 DEF StepsInside, GoesOn
    <3> QED
      BY <1>1, <2>6, <3>1 DEF RegistryInv, TypeOK, Acting
  <2> QED
    BY <2>6, <2>7 DEF IsHost, Acting
<1>2. RegistryInv /\ [Next]_vars => [\A r \in RoomIds : Lost(r) => Excused(r)]_vars
  BY <1>1
<1> QED
  BY <1>2, RegistryInvariance, PTL DEF Spec, HostHandedOver

\* A room that the host has made too small admits nobody until enough have left
\* (room.rs:156-162, dispatch.rs:139-147).
THEOREM OverfullRoomsDoNotGrow == Spec => OverfullNeverGrows
<1> DEFINE Overfull(r) == /\ rooms'[r].code = rooms[r].code
                          /\ rooms'[r].settings.max # 0
                          /\ SeatCount(rooms'[r]) > rooms'[r].settings.max
<1>1. ASSUME RegistryInv, SeatsApart, [Next]_vars, NEW r \in RoomIds, Overfull(r)
      PROVE  SeatCount(rooms'[r]) <= SeatCount(rooms[r])
  <2>1. /\ rooms[r] \in Room /\ Apart(rooms[r]) /\ SeatCount(rooms[r]) \in Nat
        /\ rooms[r].settings.max \in Nat
    BY <1>1, SeatsAreFinite, MaxPlayerAssumption
    DEF RegistryInv, TypeOK, SeatsApart, Room, Settings
  <2>2. SeatCount(NoSuchRoom) = 0 /\ \A code \in Codes : SeatCount(NewRoom(code, DefaultSettings)) = 0
    BY NewRoomsAreBare DEF NoSuchRoom
  <2>3. ASSUME NEW c \in Conns, StepsInside(c, r, rooms'[r])
        PROVE  SeatCount(rooms'[r]) <= SeatCount(rooms[r])
    BY <2>1, <2>3, WithinCount DEF StepsInside
  <2>4. ASSUME NEW c \in Conns, Joins(c, r, rooms'[r])
        PROVE  FALSE
    <3>1. /\ SeatCount(rooms'[r]) = SeatCount(rooms[r]) + 1
          /\ rooms'[r].settings = rooms[r].settings
      BY <2>1, <2>4, JoinsEffects
    <3>2. rooms[r].settings.max = 0 \/ SeatCount(rooms[r]) < rooms[r].settings.max
      BY <2>1, <2>4 DEF Joins, IsFull
    <3> QED
      BY <1>1, <2>1, <3>1, <3>2
  <2> QED
    BY <1>1, <2>1, <2>2, <2>3, <2>4, RoomChanges
<1>2. RegistryInv /\ SeatsApart /\ [Next]_vars =>
        [\A r \in RoomIds : Overfull(r) => SeatCount(rooms'[r]) <= SeatCount(rooms[r])]_vars
  BY <1>1
<1> QED
  BY <1>2, RegistryInvariance, SeatsStayApart, PTL DEF Spec, OverfullNeverGrows

-----------------------------------------------------------------------------
(* Sides.                                                                  *)

\* No room seats more peers than a side, a u8, can tell apart.
RoomsFitSides == \A r \in RoomIds : SeatCount(rooms[r]) <= SideCap + 1

\* Accepted and pending peers are apart, and so are their sides.
SidesInv == \A r \in RoomIds : Apart(rooms[r]) /\ SidesApart(rooms[r])

\* A joiner gets a side of its own; everybody else keeps theirs.
LEMMA SidesNext == RegistryInv /\ SidesInv /\ RoomsFitSides' /\ [Next]_vars => SidesInv'
<1> SUFFICES ASSUME RegistryInv, SidesInv, RoomsFitSides', [Next]_vars, NEW r \in RoomIds
             PROVE  Apart(rooms'[r]) /\ SidesApart(rooms'[r])
  BY DEF SidesInv
<1>1. rooms[r] \in Room /\ Apart(rooms[r]) /\ SidesApart(rooms[r])
  BY DEF SidesInv, RegistryInv, TypeOK
<1>2. Apart(rooms'[r])
  BY SeatsApartInv DEF SidesInv, SeatsApart
<1>3. SidesApart(NoSuchRoom) /\ \A code \in Codes : SidesApart(NewRoom(code, DefaultSettings))
  BY NewRoomsAreBare DEF NoSuchRoom, SidesApart, Occupied
<1>4. ASSUME NEW c \in Conns, StepsInside(c, r, rooms'[r])
      PROVE  SidesApart(rooms'[r])
  BY <1>1, <1>4, WithinSidesApart DEF StepsInside
<1>5. ASSUME NEW c \in Conns, Joins(c, r, rooms'[r])
      PROVE  SidesApart(rooms'[r])
  <2> DEFINE room == rooms[r]
             adv == AdvancePeerId(room)
             peer == NextPeerId(room)
  <2>1. PICK seat \in Seat : /\ seat.side = NextAvailableSide(room)
                             /\ rooms'[r] = TakeSeat(adv, peer, seat)
    BY <1>5 DEF Joins
  <2>2. peer \in FreePeerIds(room) /\ ~IsFull(room)
    BY <1>5 DEF Joins
  <2>3. adv \in Room /\ adv.clients = room.clients /\ adv.pending = room.pending
    BY <1>1, AdvanceKeepsSeats DEF Room
  <2>4. SeatCount(room) <= SideCap
    <3>1. SeatCount(rooms'[r]) = SeatCount(room) + 1 /\ SeatCount(rooms'[r]) <= SideCap + 1
      BY <1>1, <1>5, JoinsEffects DEF RoomsFitSides
    <3> QED
      BY <1>1, <3>1, SeatsAreFinite, SideCapAssumption
  <2>5. seat.side \notin UsedSides(room)
    BY <1>1, <2>1, <2>2, <2>4, FreeSide
  <2> HIDE DEF adv, peer, room
  <2>6. /\ FreePeerIds(adv) = FreePeerIds(room) /\ UsedSides(adv) = UsedSides(room)
        /\ Apart(adv) <=> Apart(room)
        /\ SidesApart(adv) <=> SidesApart(room)
    BY <2>3 DEF FreePeerIds, Occupied, UsedSides, Apart, SidesApart, SideAt
  <2> QED
    BY <1>1, <2>1, <2>2, <2>3, <2>5, <2>6, TakeSeatSidesApart DEF room
<1> QED
  BY <1>1, <1>2, <1>3, <1>4, <1>5, RoomChanges

\* As long as no room seats more than 256 peers, pending ones included, no two of a room
\* have the same side, whatever limits its hosts set and whoever leaves in between
\* (dispatch.rs:163-170, room.rs:135-154).
THEOREM SidesAreDistinct == Spec /\ []RoomsFitSides => []SidesDistinct
<1>1. Init => SidesInv
  BY NewRoomsAreBare DEF Init, SidesInv, NoSuchRoom, SidesApart, Occupied
<1>2. RegistryInv /\ SidesInv => SidesDistinct
  BY SidesCounted DEF SidesInv, SidesDistinct, RegistryInv, TypeOK
<1> QED
  BY <1>1, <1>2, SidesNext, RegistryInvariance, PTL DEF Spec

-----------------------------------------------------------------------------
(* Who is who, when codes are not drawn again and ids do not run out.       *)

\* A slot that no code leads to and no task holds stands for no room.
NoStrayRooms == \A r \in RoomIds : IsFree(r) => rooms[r] = NoSuchRoom

\* The codes of rooms and of sessions have been handed out, each to one room.
CodesIssued ==
  /\ \A r \in RoomIds : rooms[r].code \in Codes => rooms[r].code \in issued
  /\ \A c \in Conns : sess[c] # NoSession => sess[c].code \in issued
CodesApart ==
  \A r, s \in RoomIds : rooms[r].code \in Codes /\ rooms[r].code = rooms[s].code => r = s

\* c is peer p of the room r: it sits there, its session says so, or it is leaving.
Claims(c, r, p) ==
  \/ Sits(rooms[r], p, c)
  \/ sess[c] = [code |-> rooms[r].code, peer |-> p]
  \/ task[c].at = "leaving" /\ task[c].room = r /\ task[c].peer = p

\* An id is one connection's, and has been given out.
ClaimsApart ==
  \A r \in RoomIds, p \in PeerIds, c, d \in Conns :
    rooms[r].code \in Codes /\ Claims(c, r, p) /\ Claims(d, r, p) => c = d
ClaimsGiven ==
  \A r \in RoomIds, p \in PeerIds, c \in Conns :
    rooms[r].code \in Codes /\ Claims(c, r, p) => p < rooms[r].next

\* There are ids for the joins under way.
Joiners(r) == {c \in Conns : task[c] = Joining(r)}
IdsSpared ==
  \A r \in RoomIds : /\ IsFiniteSet(Joiners(r))
                     /\ rooms[r].next + Cardinality(Joiners(r)) <= MaxPeerId

\* A request is made of the room that the sender's session names.
ActsInOwnRoom ==
  \A c \in Conns :
    task[c].at = "acting" =>
      sess[c] # NoSession /\ sess[c].code = rooms[task[c].room].code

\* Without Recycle, this is inductive.
ClaimsInv ==
  /\ RegistryInv
  /\ NoStrayRooms /\ CodesIssued /\ CodesApart
  /\ ClaimsApart /\ ClaimsGiven /\ IdsSpared /\ ActsInOwnRoom
  /\ SessionsDistinct

\* A step of c moves c alone, to t; a room that exists after it is as c left it.
LEMMA AfterStep ==
  ASSUME RegistryInv, NEW c \in Conns, NEW t, NEW rs, GoesOn(c, t, rs)
  PROVE  /\ task'[c] = t
         /\ \A d \in Conns \ {c} : task'[d] = task[d]
         /\ \A r \in RoomIds : rooms'[r] \in {rs[r], NoSuchRoom}
         /\ \A r \in RoomIds : rooms'[r].code \in Codes => rooms'[r] = rs[r]
         /\ \A r \in RoomIds : IsFree(r)' => rooms'[r] = NoSuchRoom
         /\ \A r \in RoomIds, d \in Conns : HoldsRoom(task'[d], r) => rooms'[r] = rs[r]
<1>1. task' = [task EXCEPT ![c] = t]
  BY DEF GoesOn
<1>2. task'[c] = t /\ \A d \in Conns \ {c} : task'[d] = task[d]
  BY <1>1 DEF RegistryInv, TypeOK
<1>3. NoSuchRoom.code \notin Codes
  BY NoCodeAssumption DEF NoSuchRoom, NewRoom
<1>4. \A r \in RoomIds : rooms'[r] \in {rs[r], NoSuchRoom}
  BY DEF GoesOn, Collected
<1>5. \A r \in RoomIds : IsFree(r)' => rooms'[r] = NoSuchRoom
  BY DEF GoesOn, Collected, IsFree, Registered
<1>6. \A r \in RoomIds, d \in Conns : HoldsRoom(task'[d], r) => rooms'[r] = rs[r]
  BY DEF GoesOn, Collected
<1> QED
  BY <1>2, <1>3, <1>4, <1>5, <1>6

\* Nothing about r is claimed after the step that was not claimed before.
NoNewClaims(r) ==
  \A p \in PeerIds, d \in Conns :
    Claims(d, r, p)' => /\ rooms'[r].code = rooms[r].code
                        /\ Claims(d, r, p)
                        /\ rooms'[r].next = rooms[r].next

\* What claims rest on: the codes of sessions and of rooms are codes.
LEMMA SessionNames ==
  ASSUME RegistryInv, NEW c \in Conns, sess[c] # NoSession
  PROVE  /\ sess[c] = [code |-> sess[c].code, peer |-> sess[c].peer]
         /\ sess[c].code \in Codes /\ sess[c].peer \in PeerIds
         /\ pool[sess[c].code] # NoRoom =>
              /\ pool[sess[c].code] \in RoomIds
              /\ rooms[pool[sess[c].code]].code = sess[c].code
BY DEF RegistryInv, TypeOK, PoolNamesRooms, Session

\* A step that touches no room creates no claim: a leave takes the session's over.
LEMMA OutsideClaims ==
  ASSUME ClaimsInv, NEW c \in Conns, StepsOutside(c),
         NEW r \in RoomIds, rooms'[r].code \in Codes
  PROVE  rooms'[r] = rooms[r] /\ NoNewClaims(r)
<1>1. RegistryInv
  BY DEF ClaimsInv
<1>2. PICK t \in Task :
        /\ GoesOn(c, t, rooms)
        /\ sess' \in {sess, [sess EXCEPT ![c] = NoSession]}
        /\ t.at = "leaving" => /\ sess[c] # NoSession
                               /\ t.room = pool[sess[c].code]
                               /\ t.peer = sess[c].peer
  BY DEF StepsOutside
<1>3. rooms'[r] = rooms[r]
  BY <1>1, <1>2, AfterStep
<1>4. task'[c] = t /\ \A d \in Conns \ {c} : task'[d] = task[d]
  BY <1>1, <1>2, AfterStep
<1>5. \A d \in Conns : sess'[d] \in {sess[d], NoSession}
  BY <1>1, <1>2 DEF RegistryInv, TypeOK
<1>6. ASSUME NEW p \in PeerIds, NEW d \in Conns, Claims(d, r, p)'
      PROVE  Claims(d, r, p)
  <2>1. CASE Sits(rooms'[r], p, d)
    BY <1>3, <2>1 DEF Claims
  <2>2. CASE sess'[d] = [code |-> rooms'[r].code, peer |-> p]
    <3>1. sess'[d] # NoSession
      BY <2>2, NoSessionAssumption DEF Session
    <3> QED
      BY <1>3, <1>5, <2>2, <3>1 DEF Claims
  <2>3. CASE task'[d].at = "leaving" /\ task'[d].room = r /\ task'[d].peer = p
    <3>1. CASE d # c
      BY <1>4, <2>3, <3>1 DEF Claims
    <3>2. CASE d = c
      <4>1. sess[c] # NoSession /\ r = pool[sess[c].code] /\ p = sess[c].peer
        BY <1>2, <1>4, <2>3, <3>2
      <4>2. sess[c] = [code |-> rooms[r].code, peer |-> p]
        BY <1>1, <4>1, NoRoomAssumption, SessionNames
      <4> QED
        BY <3>2, <4>2 DEF Claims
    <3> QED
      BY <3>1, <3>2
  <2> QED
    BY <1>6, <2>1, <2>2, <2>3 DEF Claims
<1> QED
  BY <1>3, <1>6 DEF NoNewClaims

\* The next id is free, as long as one is spared for a joiner.
LEMMA NextIsFree ==
  ASSUME ClaimsInv, NEW c \in Conns, NEW r \in RoomIds, task[c] = Joining(r)
  PROVE  /\ rooms[r] \in Room /\ rooms[r].code \in Codes
         /\ rooms[r].next \in FreePeerIds(rooms[r])
         /\ rooms[r].next < MaxPeerId
<1>1. rooms[r] \in Room /\ rooms[r].code \in Codes
  BY DEF ClaimsInv, RegistryInv, TypeOK, HeldRoomsExist, HoldsRoom, Joining
<1>2. rooms[r].next \in PeerIds /\ rooms[r].next \in Nat
  BY <1>1, MaxPeerIdAssumption DEF Room, PeerIds
<1>3. \A p \in Occupied(rooms[r]) : p < rooms[r].next
  <2> SUFFICES ASSUME NEW p \in Occupied(rooms[r]) PROVE p < rooms[r].next
    OBVIOUS
  <2>1. PICK d \in Conns : Sits(rooms[r], p, d)
    BY <1>1 DEF Occupied, Peers, Sits, Room, SeatMap, Seat
  <2>2. p \in PeerIds
    BY DEF Occupied, Peers
  <2> QED
    BY <1>1, <2>1, <2>2 DEF ClaimsInv, ClaimsGiven, Claims
<1>4. rooms[r].next \in FreePeerIds(rooms[r])
  BY <1>2, <1>3 DEF FreePeerIds
<1>5. IsFiniteSet(Joiners(r)) /\ rooms[r].next + Cardinality(Joiners(r)) <= MaxPeerId
  BY DEF ClaimsInv, IdsSpared
<1>6. Cardinality(Joiners(r)) \in Nat /\ Cardinality(Joiners(r)) # 0
  BY <1>5, FS_CardinalityType, FS_EmptySet DEF Joiners
<1> QED
  BY <1>1, <1>2, <1>4, <1>5, <1>6, MaxPeerIdAssumption

\* A task that turns its room into another takes claims away at most.
LEMMA InsideClaims ==
  ASSUME ClaimsInv, NEW c \in Conns, NEW q \in RoomIds, NEW new \in Room,
         StepsInside(c, q, new),
         NEW r \in RoomIds, rooms'[r].code \in Codes
  PROVE  rooms'[r].code = rooms[r].code /\ rooms'[r].next = rooms[r].next /\ NoNewClaims(r)
<1>1. RegistryInv /\ TypeOK
  BY DEF ClaimsInv, RegistryInv
<1>2. PICK t \in Task : GoesOn(c, t, [rooms EXCEPT ![q] = new]) /\ t.at # "leaving"
  BY DEF StepsInside
<1>3. /\ task'[c] = t /\ \A d \in Conns \ {c} : task'[d] = task[d]
      /\ rooms'[r] = [rooms EXCEPT ![q] = new][r]
  <2>1. ASSUME NEW rs, GoesOn(c, t, rs)
        PROVE  /\ task'[c] = t /\ \A d \in Conns \ {c} : task'[d] = task[d]
               /\ rooms'[r] = rs[r]
    BY <1>1, <2>1, AfterStep
  <2> QED
    BY <1>2, <2>1
<1>4. SeatsWithin(new, rooms[q]) /\ sess' = sess
  BY DEF StepsInside
<1>5. new.next = rooms[q].next
  BY NextIsFree DEF StepsInside
<1>6. rooms'[r].code = rooms[r].code /\ rooms'[r].next = rooms[r].next
  BY <1>1, <1>3, <1>4, <1>5 DEF TypeOK, SeatsWithin
<1>7. \A p \in PeerIds, d \in Conns : Sits(rooms'[r], p, d) => Sits(rooms[r], p, d)
  BY <1>1, <1>3, <1>4, SatBefore
<1>8. ASSUME NEW p \in PeerIds, NEW d \in Conns, Claims(d, r, p)'
      PROVE  Claims(d, r, p)
  BY <1>2, <1>3, <1>4, <1>6, <1>7, <1>8 DEF Claims
<1> QED
  BY <1>6, <1>8 DEF NoNewClaims

\* Nobody claims anything of a room that has just been created.
LEMMA CreateClaims ==
  ASSUME ClaimsInv, NEW c \in Conns, NEW code \in Codes, NEW q \in RoomIds,
         CreateRoom(c, code, q),
         NEW r \in RoomIds, rooms'[r].code \in Codes
  PROVE  /\ r # q => rooms'[r] = rooms[r]
         /\ r = q => rooms'[r] = NewRoom(code, DefaultSettings)
         /\ NoNewClaims(r)
<1>1. RegistryInv /\ TypeOK
  BY DEF ClaimsInv, RegistryInv
<1> DEFINE fresh == NewRoom(code, DefaultSettings)
<1>2. /\ GoesOn(c, Joining(q), [rooms EXCEPT ![q] = fresh])
      /\ sess' = sess /\ code \notin issued /\ IsFree(q)
  BY DEF CreateRoom
<1>3. /\ task'[c] = Joining(q) /\ \A d \in Conns \ {c} : task'[d] = task[d]
      /\ rooms'[r] = [rooms EXCEPT ![q] = fresh][r]
  <2>1. ASSUME NEW rs, GoesOn(c, Joining(q), rs)
        PROVE  /\ task'[c] = Joining(q) /\ \A d \in Conns \ {c} : task'[d] = task[d]
               /\ rooms'[r] = rs[r]
    BY <1>1, <2>1, AfterStep
  <2> QED
    BY <1>2, <2>1
<1>4. fresh.code = code /\ \A p, d : ~Sits(fresh, p, d)
  BY NewRoomIsEmpty, SettingsAssumption
<1> HIDE DEF fresh
<1>5. (r # q => rooms'[r] = rooms[r]) /\ (r = q => rooms'[r] = fresh)
  BY <1>1, <1>3 DEF TypeOK
<1>6. CASE r # q
  BY <1>2, <1>3, <1>5, <1>6 DEF NoNewClaims, Claims, Joining
<1>7. ASSUME r = q, NEW p \in PeerIds, NEW d \in Conns, Claims(d, r, p)'
      PROVE  FALSE
  <2>1. ~Sits(rooms'[r], p, d)
    BY <1>4, <1>5, <1>7
  <2>2. sess'[d] # [code |-> rooms'[r].code, peer |-> p]
    <3>1. [code |-> code, peer |-> p] # NoSession
      BY NoSessionAssumption DEF Session
    <3>2. sess[d] # NoSession => sess[d].code # code
      BY <1>2 DEF ClaimsInv, CodesIssued
    <3> QED
      BY <1>2, <1>4, <1>5, <1>7, <3>1, <3>2
  <2>3. ~(task'[d].at = "leaving" /\ task'[d].room = r)
    BY <1>2, <1>3, <1>7 DEF IsFree, HoldsRoom, Joining
  <2> QED
    BY <1>7, <2>1, <2>2, <2>3 DEF Claims
<1> QED
  BY <1>5, <1>6, <1>7 DEF NoNewClaims, fresh

\* A joiner claims the next id and leaves the other claims as they were.
LEMMA JoinClaims ==
  ASSUME ClaimsInv, NEW c \in Conns, NEW q \in RoomIds, NEW new \in Room, Joins(c, q, new),
         NEW r \in RoomIds, rooms'[r].code \in Codes
  PROVE  /\ rooms'[r].code = rooms[r].code
         /\ r # q => rooms'[r] = rooms[r] /\ NoNewClaims(r)
         /\ r = q => /\ rooms'[r].next = rooms[r].next + 1
                     /\ \A p \in PeerIds, d \in Conns :
                          Claims(d, r, p)' => \/ Claims(d, r, p)
                                              \/ d = c /\ p = rooms[r].next
<1>1. RegistryInv /\ TypeOK /\ rooms[q] \in Room
  BY DEF ClaimsInv, RegistryInv, TypeOK
<1> DEFINE next == rooms[q].next
           s == [code |-> rooms[q].code, peer |-> next]
<1>2. task[c] = Joining(q) /\ GoesOn(c, Idle, [rooms EXCEPT ![q] = new])
  BY DEF Joins
<1>3. /\ task'[c] = Idle /\ \A d \in Conns \ {c} : task'[d] = task[d]
      /\ rooms'[r] = [rooms EXCEPT ![q] = new][r]
  <2>1. ASSUME NEW rs, GoesOn(c, Idle, rs)
        PROVE  /\ task'[c] = Idle /\ \A d \in Conns \ {c} : task'[d] = task[d]
               /\ rooms'[r] = rs[r]
    BY <1>1, <2>1, AfterStep
  <2> QED
    BY <1>2, <2>1
<1>4. /\ rooms[q].code \in Codes /\ next \in FreePeerIds(rooms[q]) /\ next < MaxPeerId
      /\ next \in PeerIds
  BY <1>2, NextIsFree DEF FreePeerIds
<1>5. NextPeerId(rooms[q]) = next /\ SaturatingSucc(next) = next + 1
  BY <1>4, MaxPeerIdAssumption DEF NextPeerId, FreePeerIds, SaturatingSucc, PeerIds
<1>6. sess' = [sess EXCEPT ![c] = s]
  BY <1>5 DEF Joins
<1>7. sess'[c] = s /\ \A d \in Conns \ {c} : sess'[d] = sess[d]
  BY <1>1, <1>6 DEF TypeOK
<1>8. /\ new.code = rooms[q].code /\ new.next = next + 1
      /\ \A p \in PeerIds, d \in Conns :
           Sits(new, p, d) <=> Sits(rooms[q], p, d) \/ (p = next /\ d = c)
  BY <1>1, <1>5, JoinsEffects
<1> HIDE DEF next
<1>9. /\ rooms'[r].code = rooms[r].code
      /\ r # q => rooms'[r] = rooms[r]
      /\ r = q => rooms'[r] = new
  BY <1>1, <1>3, <1>8 DEF TypeOK
<1>10. ASSUME r # q, NEW p \in PeerIds, NEW d \in Conns, Claims(d, r, p)'
       PROVE  Claims(d, r, p)
  <2>1. rooms[r].code # rooms[q].code
    BY <1>4, <1>10 DEF ClaimsInv, CodesApart
  <2>2. CASE d = c
    BY <1>3, <1>7, <1>9, <1>10, <2>1, <2>2 DEF Claims, Idle
  <2>3. CASE d # c
    BY <1>3, <1>7, <1>9, <1>10, <2>3 DEF Claims
  <2> QED
    BY <2>2, <2>3
<1>11. ASSUME r = q, NEW p \in PeerIds, NEW d \in Conns, Claims(d, r, p)'
       PROVE  Claims(d, r, p) \/ (d = c /\ p = next)
  <2>1. CASE d = c
    BY <1>3, <1>7, <1>8, <1>9, <1>11, <2>1 DEF Claims, Idle
  <2>2. CASE d # c
    BY <1>3, <1>7, <1>8, <1>9, <1>11, <2>2 DEF Claims
  <2> QED
    BY <2>1, <2>2
<1> QED
  BY <1>8, <1>9, <1>10, <1>11 DEF NoNewClaims, next

\* Where nothing new is claimed, claims stay apart and given out.
LEMMA ClaimsKept ==
  ASSUME ClaimsInv, \A r \in RoomIds : rooms'[r].code \in Codes => NoNewClaims(r)
  PROVE  ClaimsApart' /\ ClaimsGiven'
<1>1. ClaimsApart'
  BY DEF ClaimsInv, ClaimsApart, NoNewClaims
<1>2. ClaimsGiven'
  BY DEF ClaimsInv, ClaimsGiven, NoNewClaims
<1> QED
  BY <1>1, <1>2

\* Where no joiner is added, ids stay spared.
LEMMA JoinersGo ==
  ASSUME ClaimsInv, TypeOK', NEW r \in RoomIds,
         Joiners(r)' \subseteq Joiners(r),
         Joiners(r)' # {} => rooms'[r].next = rooms[r].next
  PROVE  IsFiniteSet(Joiners(r)') /\ rooms'[r].next + Cardinality(Joiners(r)') <= MaxPeerId
<1> DEFINE now == Joiners(r)
           then == Joiners(r)'
<1>1. IsFiniteSet(now) /\ rooms[r].next + Cardinality(now) <= MaxPeerId
  BY DEF ClaimsInv, IdsSpared
<1>2. /\ rooms[r].next \in Nat /\ rooms'[r].next \in Nat
      /\ rooms'[r].next <= MaxPeerId /\ MaxPeerId \in Nat
  BY MaxPeerIdAssumption DEF ClaimsInv, RegistryInv, TypeOK, Room, PeerIds
<1> HIDE DEF now, then
<1>3. then \in SUBSET now
  BY DEF now, then
<1>4. IsFiniteSet(then) /\ Cardinality(then) <= Cardinality(now)
  BY <1>1, <1>3, FS_Subset
<1>5. Cardinality(then) \in Nat /\ Cardinality(now) \in Nat
  BY <1>1, <1>4, FS_CardinalityType
<1>6. CASE then = {}
  <2>1. Cardinality(then) = 0
    BY <1>6, FS_EmptySet
  <2> QED
    BY <1>2, <1>4, <2>1 DEF then
<1>7. CASE then # {}
  BY <1>1, <1>2, <1>4, <1>5, <1>7 DEF then
<1> QED
  BY <1>6, <1>7

\* The steps that touch no room.
LEMMA OutsideInv ==
  ASSUME ClaimsInv, RegistryInv', ~Recycle, NEW c \in Conns, StepsOutside(c)
  PROVE  ClaimsInv'
<1>1. RegistryInv /\ TypeOK /\ TypeOK'
  BY DEF ClaimsInv, RegistryInv
<1>2. PICK t \in Task :
        /\ GoesOn(c, t, rooms) /\ issued' = issued
        /\ sess' \in {sess, [sess EXCEPT ![c] = NoSession]}
        /\ t.at = "acting" => sess[c] # NoSession /\ sess' = sess /\ t.room = pool[sess[c].code]
        /\ t.at = "joining" => \E code \in Codes : FindRoom(c, code) /\ t = Joining(pool[code])
  BY DEF StepsOutside
<1>3. /\ task'[c] = t /\ \A d \in Conns \ {c} : task'[d] = task[d]
      /\ \A r \in RoomIds : IsFree(r)' => rooms'[r] = NoSuchRoom
      /\ \A r \in RoomIds : rooms'[r].code \in Codes => rooms'[r] = rooms[r]
      /\ \A r \in RoomIds, d \in Conns : HoldsRoom(task'[d], r) => rooms'[r] = rooms[r]
  BY <1>1, <1>2, AfterStep
<1>4. \A d \in Conns : sess'[d] \in {sess[d], NoSession}
  BY <1>1, <1>2 DEF TypeOK
<1>5. NoStrayRooms'
  BY <1>3 DEF NoStrayRooms, NoSuchRoom
<1>6. CodesIssued' /\ CodesApart'
  BY <1>2, <1>3, <1>4 DEF ClaimsInv, CodesIssued, CodesApart
<1>7. ClaimsApart' /\ ClaimsGiven'
  BY OutsideClaims, ClaimsKept
<1>8. SessionsDistinct'
  BY <1>4 DEF ClaimsInv, SessionsDistinct
<1>9. ASSUME NEW r \in RoomIds
      PROVE  IsFiniteSet(Joiners(r)') /\ rooms'[r].next + Cardinality(Joiners(r)') <= MaxPeerId
  <2>1. \A d \in Joiners(r)' : HoldsRoom(task'[d], r)
    BY DEF Joiners, HoldsRoom, Joining
  <2>2. Joiners(r)' # {} => rooms'[r].next = rooms[r].next
    BY <1>3, <2>1 DEF Joiners
  <2>3. CASE t # Joining(r)
    <3>1. Joiners(r)' \subseteq Joiners(r)
      BY <1>3, <2>3 DEF Joiners
    <3> QED
      BY <1>1, <2>2, <3>1, JoinersGo
  <2>4. CASE t = Joining(r)
    <3> DEFINE now == Joiners(r)
               then == Joiners(r)'
    <3>1. PICK code \in Codes : FindRoom(c, code) /\ t = Joining(pool[code])
      BY <1>2, <2>4 DEF Joining
    <3>2. pool[code] = r /\ rooms[r].next + Cardinality(now) < MaxPeerId
      BY <2>4, <3>1 DEF FindRoom, WithinIds, Joiners, Joining
    <3>3. then = now \cup {c} /\ rooms'[r].next = rooms[r].next
      BY <1>3, <2>2, <2>4 DEF Joiners
    <3>4. IsFiniteSet(now)
      BY DEF ClaimsInv, IdsSpared
    <3> HIDE DEF now, then
    <3>5. IsFiniteSet(then) /\ Cardinality(then) \in {Cardinality(now), Cardinality(now) + 1}
      BY <3>3, <3>4, FS_AddElement
    <3>6. Cardinality(now) \in Nat /\ rooms[r].next \in Nat
      BY <1>1, <3>4, FS_CardinalityType, MaxPeerIdAssumption DEF TypeOK, Room, PeerIds
    <3>7. rooms'[r].next + Cardinality(then) <= MaxPeerId
      BY <3>2, <3>3, <3>5, <3>6, MaxPeerIdAssumption
    <3> QED
      BY <3>5, <3>7 DEF then
  <2> QED
    BY <2>3, <2>4
<1>10. ASSUME NEW d \in Conns, task'[d].at = "acting"
       PROVE  sess'[d] # NoSession /\ sess'[d].code = rooms'[task'[d].room].code
  <2>1. task'[d].room \in RoomIds /\ HoldsRoom(task'[d], task'[d].room)
    <3>1. task'[d] \in Task
      BY <1>1 DEF TypeOK
    <3> QED
      BY <1>10, <3>1, TaskShape DEF Acting, HoldsRoom
  <2>2. rooms'[task'[d].room] = rooms[task'[d].room]
    BY <1>3, <2>1
  <2>3. CASE d = c
    <3>1. sess[c] # NoSession /\ sess' = sess /\ task'[c].room = pool[sess[c].code]
      BY <1>2, <1>3, <1>10, <2>3
    <3> QED
      BY <1>1, <2>1, <2>2, <2>3, <3>1, NoRoomAssumption, SessionNames
  <2>4. CASE d # c
    <3>1. sess'[d] = sess[d] /\ task'[d] = task[d]
      BY <1>1, <1>2, <1>3, <2>4 DEF TypeOK
    <3> QED
      BY <1>10, <2>2, <3>1 DEF ClaimsInv, ActsInOwnRoom
  <2> QED
    BY <2>3, <2>4
<1> QED
  BY <1>5, <1>6, <1>7, <1>8, <1>9, <1>10 DEF ClaimsInv, IdsSpared, ActsInOwnRoom

\* The steps that turn a room into one with seats it had.
LEMMA InsideInv ==
  ASSUME ClaimsInv, RegistryInv', NEW c \in Conns, NEW q \in RoomIds, NEW new \in Room,
         StepsInside(c, q, new)
  PROVE  ClaimsInv'
<1>1. RegistryInv /\ TypeOK /\ TypeOK'
  BY DEF ClaimsInv, RegistryInv
<1>2. PICK t \in Task : /\ GoesOn(c, t, [rooms EXCEPT ![q] = new])
                        /\ t.at \notin {"joining", "leaving", "acting"}
  BY DEF StepsInside
<1>3. sess' = sess /\ issued' = issued /\ SeatsWithin(new, rooms[q])
  BY DEF StepsInside
<1>4. new.next = rooms[q].next
  BY NextIsFree DEF StepsInside
<1>5. /\ task'[c] = t /\ \A d \in Conns \ {c} : task'[d] = task[d]
      /\ \A r \in RoomIds : IsFree(r)' => rooms'[r] = NoSuchRoom
      /\ \A r \in RoomIds, d \in Conns :
           HoldsRoom(task'[d], r) =>
             rooms'[r].code = rooms[r].code /\ rooms'[r].next = rooms[r].next
  <2>1. ASSUME NEW rs, GoesOn(c, t, rs)
        PROVE  /\ task'[c] = t /\ \A d \in Conns \ {c} : task'[d] = task[d]
               /\ \A r \in RoomIds : IsFree(r)' => rooms'[r] = NoSuchRoom
               /\ \A r \in RoomIds, d \in Conns : HoldsRoom(task'[d], r) => rooms'[r] = rs[r]
    BY <1>1, <2>1, AfterStep
  <2>2. \A r \in RoomIds : [rooms EXCEPT ![q] = new][r] = IF r = q THEN new ELSE rooms[r]
    BY <1>1 DEF TypeOK
  <2>3. new.code = rooms[q].code /\ new.next = rooms[q].next
    BY <1>3, <1>4 DEF SeatsWithin
  <2>4. /\ task'[c] = t /\ \A d \in Conns \ {c} : task'[d] = task[d]
        /\ \A r \in RoomIds : IsFree(r)' => rooms'[r] = NoSuchRoom
        /\ \A r \in RoomIds, d \in Conns :
             HoldsRoom(task'[d], r) => rooms'[r] = IF r = q THEN new ELSE rooms[r]
    BY <1>2, <2>1, <2>2
  <2> QED
    BY <2>3, <2>4
<1>6. \A r \in RoomIds :
        rooms'[r].code \in Codes => rooms'[r].code = rooms[r].code /\ NoNewClaims(r)
  BY InsideClaims
<1>7. NoStrayRooms'
  BY <1>5 DEF NoStrayRooms, NoSuchRoom
<1>8. CodesIssued' /\ CodesApart'
  BY <1>3, <1>6 DEF ClaimsInv, CodesIssued, CodesApart
<1>9. ClaimsApart' /\ ClaimsGiven'
  BY <1>6, ClaimsKept
<1>10. SessionsDistinct'
  BY <1>3 DEF ClaimsInv, SessionsDistinct
<1>11. ASSUME NEW r \in RoomIds
       PROVE  IsFiniteSet(Joiners(r)') /\ rooms'[r].next + Cardinality(Joiners(r)') <= MaxPeerId
  <2>1. \A d \in Joiners(r)' : HoldsRoom(task'[d], r)
    BY DEF Joiners, HoldsRoom, Joining
  <2>2. Joiners(r)' # {} => rooms'[r].next = rooms[r].next
    BY <1>5, <2>1 DEF Joiners
  <2>3. Joiners(r)' \subseteq Joiners(r)
    BY <1>2, <1>5 DEF Joiners, Joining
  <2> QED
    BY <1>1, <2>2, <2>3, JoinersGo
<1>12. ASSUME NEW d \in Conns, task'[d].at = "acting"
       PROVE  sess'[d] # NoSession /\ sess'[d].code = rooms'[task'[d].room].code
  <2>1. task'[d].room \in RoomIds /\ HoldsRoom(task'[d], task'[d].room)
    <3>1. task'[d] \in Task
      BY <1>1 DEF TypeOK
    <3> QED
      BY <1>12, <3>1, TaskShape DEF Acting, HoldsRoom
  <2>2. rooms'[task'[d].room].code = rooms[task'[d].room].code /\ d # c
    BY <1>2, <1>5, <1>12, <2>1
  <2> QED
    BY <1>3, <1>5, <1>12, <2>2 DEF ClaimsInv, ActsInOwnRoom
<1> QED
  BY <1>7, <1>8, <1>9, <1>10, <1>11, <1>12 DEF ClaimsInv, IdsSpared, ActsInOwnRoom

\* A room is created under a code that no session names.
LEMMA CreateInv ==
  ASSUME ClaimsInv, RegistryInv', ~Recycle, MaxPeerId > 1,
         NEW c \in Conns, NEW code \in Codes, NEW q \in RoomIds, CreateRoom(c, code, q)
  PROVE  ClaimsInv'
<1>1. RegistryInv /\ TypeOK /\ TypeOK'
  BY DEF ClaimsInv, RegistryInv
<1> DEFINE fresh == NewRoom(code, DefaultSettings)
<1>2. /\ GoesOn(c, Joining(q), [rooms EXCEPT ![q] = fresh])
      /\ sess' = sess /\ issued' = issued \cup {code} /\ code \notin issued /\ IsFree(q)
  BY DEF CreateRoom
<1>3. fresh.code = code /\ fresh.next = 1
  BY NewRoomsAreBare
<1> HIDE DEF fresh
<1>4. /\ task'[c] = Joining(q) /\ \A d \in Conns \ {c} : task'[d] = task[d]
      /\ \A r \in RoomIds : IsFree(r)' => rooms'[r] = NoSuchRoom
      /\ \A r \in RoomIds \ {q}, d \in Conns : HoldsRoom(task'[d], r) => rooms'[r] = rooms[r]
      /\ rooms'[q] = fresh
  <2>1. ASSUME NEW rs, GoesOn(c, Joining(q), rs)
        PROVE  /\ task'[c] = Joining(q) /\ \A d \in Conns \ {c} : task'[d] = task[d]
               /\ \A r \in RoomIds : IsFree(r)' => rooms'[r] = NoSuchRoom
               /\ \A r \in RoomIds, d \in Conns : HoldsRoom(task'[d], r) => rooms'[r] = rs[r]
    BY <1>1, <2>1, AfterStep
  <2>2. \A r \in RoomIds : [rooms EXCEPT ![q] = fresh][r] = IF r = q THEN fresh ELSE rooms[r]
    BY <1>1 DEF TypeOK
  <2>3. HoldsRoom(Joining(q), q)
    BY DEF HoldsRoom, Joining
  <2> QED
    BY <1>2, <2>1, <2>2, <2>3
<1>5. \A r \in RoomIds :
        rooms'[r].code \in Codes => NoNewClaims(r) /\ (r # q => rooms'[r] = rooms[r])
  BY CreateClaims
<1>6. NoStrayRooms'
  BY <1>4 DEF NoStrayRooms, NoSuchRoom
<1>7. CodesIssued'
  BY <1>2, <1>3, <1>4, <1>5 DEF ClaimsInv, CodesIssued
<1>8. CodesApart'
  <2>1. \A r \in RoomIds : r # q /\ rooms'[r].code \in Codes => rooms'[r].code # code
    BY <1>2, <1>5 DEF ClaimsInv, CodesIssued
  <2> QED
    BY <1>3, <1>4, <1>5, <2>1 DEF ClaimsInv, CodesApart
<1>9. ClaimsApart' /\ ClaimsGiven'
  BY <1>5, ClaimsKept
<1>10. SessionsDistinct'
  BY <1>2 DEF ClaimsInv, SessionsDistinct
<1>11. ASSUME NEW r \in RoomIds
       PROVE  IsFiniteSet(Joiners(r)') /\ rooms'[r].next + Cardinality(Joiners(r)') <= MaxPeerId
  <2>1. CASE r = q
    <3>1. Joiners(r)' = {c}
      BY <1>2, <1>4, <2>1 DEF Joiners, IsFree, HoldsRoom, Joining
    <3>2. rooms'[r].next = 1 /\ IsFiniteSet({c}) /\ Cardinality({c}) = 1
      BY <1>3, <1>4, <2>1, FS_Singleton
    <3> QED
      BY <3>1, <3>2, MaxPeerIdAssumption
  <2>2. CASE r # q
    <3>1. \A d \in Joiners(r)' : HoldsRoom(task'[d], r)
      BY DEF Joiners, HoldsRoom, Joining
    <3>2. Joiners(r)' # {} => rooms'[r].next = rooms[r].next
      BY <1>4, <2>2, <3>1 DEF Joiners
    <3>3. Joiners(r)' \subseteq Joiners(r)
      BY <1>4, <2>2 DEF Joiners, Joining
    <3> QED
      BY <1>1, <3>2, <3>3, JoinersGo
  <2> QED
    BY <2>1, <2>2
<1>12. ASSUME NEW d \in Conns, task'[d].at = "acting"
       PROVE  sess'[d] # NoSession /\ sess'[d].code = rooms'[task'[d].room].code
  <2>1. d # c /\ task'[d] = task[d]
    BY <1>4, <1>12 DEF Joining
  <2>2. task'[d].room \in RoomIds /\ HoldsRoom(task'[d], task'[d].room)
    <3>1. task'[d] \in Task
      BY <1>1 DEF TypeOK
    <3> QED
      BY <1>12, <3>1, TaskShape DEF Acting, HoldsRoom
  <2>3. rooms'[task'[d].room] = rooms[task'[d].room]
    BY <1>2, <1>4, <2>1, <2>2 DEF IsFree
  <2> QED
    BY <1>2, <1>12, <2>1, <2>3 DEF ClaimsInv, ActsInOwnRoom
<1> QED
  BY <1>6, <1>7, <1>8, <1>9, <1>10, <1>11, <1>12 DEF ClaimsInv, IdsSpared, ActsInOwnRoom

\* A joiner gets an id, and a session, that nobody else has.
LEMMA JoinsInv ==
  ASSUME ClaimsInv, RegistryInv', NEW c \in Conns, NEW q \in RoomIds, NEW new \in Room,
         Joins(c, q, new)
  PROVE  ClaimsInv'
<1>1. RegistryInv /\ TypeOK /\ TypeOK' /\ rooms[q] \in Room
  BY DEF ClaimsInv, RegistryInv, TypeOK
<1> DEFINE next == rooms[q].next
           s == [code |-> rooms[q].code, peer |-> next]
<1>2. /\ task[c] = Joining(q) /\ GoesOn(c, Idle, [rooms EXCEPT ![q] = new])
      /\ issued' = issued
  BY DEF Joins
<1>3. /\ rooms[q].code \in Codes /\ next \in FreePeerIds(rooms[q]) /\ next < MaxPeerId
      /\ next \in PeerIds /\ next \in Nat
  BY <1>2, NextIsFree, MaxPeerIdAssumption DEF FreePeerIds, PeerIds
<1>4. NextPeerId(rooms[q]) = next /\ SaturatingSucc(next) = next + 1
  BY <1>3 DEF NextPeerId, FreePeerIds, SaturatingSucc
<1>5. sess'[c] = s /\ (\A d \in Conns \ {c} : sess'[d] = sess[d]) /\ s \in Session
  BY <1>1, <1>3, <1>4 DEF Joins, TypeOK, Session
<1>6. new.code = rooms[q].code /\ new.next = next + 1
  BY <1>1, <1>4, JoinsEffects
<1>7. /\ task'[c] = Idle /\ \A d \in Conns \ {c} : task'[d] = task[d]
      /\ \A r \in RoomIds : IsFree(r)' => rooms'[r] = NoSuchRoom
      /\ \A r \in RoomIds, d \in Conns :
           HoldsRoom(task'[d], r) => rooms'[r] = IF r = q THEN new ELSE rooms[r]
  <2>1. ASSUME NEW rs, GoesOn(c, Idle, rs)
        PROVE  /\ task'[c] = Idle /\ \A d \in Conns \ {c} : task'[d] = task[d]
               /\ \A r \in RoomIds : IsFree(r)' => rooms'[r] = NoSuchRoom
               /\ \A r \in RoomIds, d \in Conns : HoldsRoom(task'[d], r) => rooms'[r] = rs[r]
    BY <1>1, <2>1, AfterStep
  <2>2. \A r \in RoomIds : [rooms EXCEPT ![q] = new][r] = IF r = q THEN new ELSE rooms[r]
    BY <1>1 DEF TypeOK
  <2> QED
    BY <1>2, <2>1, <2>2
<1>8. ASSUME NEW r \in RoomIds, rooms'[r].code \in Codes
      PROVE  /\ rooms'[r].code = rooms[r].code
             /\ r # q => rooms'[r] = rooms[r] /\ NoNewClaims(r)
             /\ r = q => /\ rooms'[r].next = next + 1
                         /\ \A p \in PeerIds, d \in Conns :
                              Claims(d, r, p)' => Claims(d, r, p) \/ (d = c /\ p = next)
  BY <1>8, JoinClaims
<1>9. NoStrayRooms'
  BY <1>7 DEF NoStrayRooms, NoSuchRoom
<1>10. CodesIssued' /\ CodesApart'
  BY <1>2, <1>3, <1>5, <1>8 DEF ClaimsInv, CodesIssued, CodesApart
<1>11. \A p \in PeerIds, d \in Conns : Claims(d, q, p) => p < next
  BY <1>3 DEF ClaimsInv, ClaimsGiven
<1> HIDE DEF next
<1>12. ClaimsApart'
  <2> SUFFICES ASSUME NEW r \in RoomIds, NEW p \in PeerIds, NEW d \in Conns, NEW e \in Conns,
                      rooms'[r].code \in Codes, Claims(d, r, p)', Claims(e, r, p)'
               PROVE  d = e
    BY DEF ClaimsApart
  <2>1. CASE r # q
    BY <1>8, <2>1 DEF NoNewClaims, ClaimsInv, ClaimsApart
  <2>2. CASE r = q
    BY <1>3, <1>8, <1>11, <2>2 DEF ClaimsInv, ClaimsApart
  <2> QED
    BY <2>1, <2>2
<1>13. ClaimsGiven'
  <2> SUFFICES ASSUME NEW r \in RoomIds, NEW p \in PeerIds, NEW d \in Conns,
                      rooms'[r].code \in Codes, Claims(d, r, p)'
               PROVE  p < rooms'[r].next
    BY DEF ClaimsGiven
  <2>1. CASE r # q
    BY <1>8, <2>1 DEF NoNewClaims, ClaimsInv, ClaimsGiven
  <2>2. CASE r = q
    BY <1>3, <1>8, <1>11, <2>2 DEF PeerIds
  <2> QED
    BY <2>1, <2>2
<1>14. SessionsDistinct'
  <2>1. \A d \in Conns : sess[d] # s
    <3> SUFFICES ASSUME NEW d \in Conns, sess[d] = s PROVE FALSE
      OBVIOUS
    <3>1. Claims(d, q, next)
      BY DEF Claims
    <3> QED
      BY <1>3, <1>11, <3>1
  <2> HIDE DEF s
  <2> QED
    BY <1>5, <2>1 DEF ClaimsInv, SessionsDistinct
<1>15. ASSUME NEW r \in RoomIds
       PROVE  IsFiniteSet(Joiners(r)') /\ rooms'[r].next + Cardinality(Joiners(r)') <= MaxPeerId
  <2>1. \A d \in Joiners(r)' : HoldsRoom(task'[d], r)
    BY DEF Joiners, HoldsRoom, Joining
  <2>2. Joiners(r)' = Joiners(r) \ {c}
    BY <1>7 DEF Joiners, Joining, Idle
  <2>3. CASE r # q
    BY <1>1, <1>7, <2>1, <2>2, <2>3, JoinersGo DEF Joiners
  <2>4. CASE r = q
    <3> DEFINE now == Joiners(r)
               then == Joiners(r)'
    <3>1. c \in now
      BY <1>2, <2>4 DEF Joiners
    <3>2. IsFiniteSet(now) /\ next + Cardinality(now) <= MaxPeerId
      BY <2>4 DEF ClaimsInv, IdsSpared, next
    <3>3. rooms'[r].next \in {next + 1} \cup {rooms'[r].next} /\ rooms'[r].next \in Nat
          /\ rooms'[r].next <= MaxPeerId
      BY <1>1, MaxPeerIdAssumption DEF TypeOK, Room, PeerIds
    <3>4. then # {} => rooms'[r].next = next + 1
      BY <1>6, <1>7, <2>1, <2>4 DEF Joiners
    <3>5. then = now \ {c}
      BY <2>2
    <3> HIDE DEF now, then
    <3>6. IsFiniteSet(then) /\ Cardinality(then) = Cardinality(now) - 1
      BY <3>1, <3>2, <3>5, FS_RemoveElement
    <3>7. Cardinality(now) \in Nat
      BY <3>2, FS_CardinalityType
    <3>8. CASE then = {}
      <4>1. Cardinality(then) = 0
        BY <3>8, FS_EmptySet
      <4> QED
        BY <3>3, <3>6, <4>1, MaxPeerIdAssumption DEF then
    <3>9. CASE then # {}
      <4>1. rooms'[r].next + Cardinality(then) <= MaxPeerId
        BY <1>3, <3>2, <3>4, <3>6, <3>7, <3>9, MaxPeerIdAssumption
      <4> QED
        BY <3>6, <4>1 DEF then
    <3> QED
      BY <3>8, <3>9
  <2> QED
    BY <2>3, <2>4
<1>16. ASSUME NEW d \in Conns, task'[d].at = "acting"
       PROVE  sess'[d] # NoSession /\ sess'[d].code = rooms'[task'[d].room].code
  <2>1. d # c /\ task'[d] = task[d] /\ sess'[d] = sess[d]
    BY <1>5, <1>7, <1>16 DEF Idle
  <2>2. task'[d].room \in RoomIds /\ HoldsRoom(task'[d], task'[d].room)
    <3>1. task'[d] \in Task
      BY <1>1 DEF TypeOK
    <3> QED
      BY <1>16, <3>1, TaskShape DEF Acting, HoldsRoom
  <2>3. rooms'[task'[d].room].code = rooms[task'[d].room].code
    BY <1>6, <1>7, <2>2
  <2> QED
    BY <1>16, <2>1, <2>3 DEF ClaimsInv, ActsInOwnRoom
<1> QED
  BY <1>9, <1>10, <1>12, <1>13, <1>14, <1>15, <1>16 DEF ClaimsInv, IdsSpared, ActsInOwnRoom

\* Every step keeps hold of who is who.
LEMMA ClaimsNext ==
  ASSUME ~Recycle, MaxPeerId > 1, ClaimsInv, [Next]_vars
  PROVE  ClaimsInv'
<1>1. RegistryInv
  BY DEF ClaimsInv
<1>2. RegistryInv'
  BY <1>1, NextInv
<1>3. CASE UNCHANGED vars
  <2>1. /\ NoStrayRooms' /\ CodesIssued' /\ CodesApart' /\ ActsInOwnRoom' /\ SessionsDistinct'
    BY <1>3 DEF vars, ClaimsInv, NoStrayRooms, CodesIssued, CodesApart, ActsInOwnRoom,
                SessionsDistinct, IsFree, Registered
  <2>2. ClaimsApart' /\ ClaimsGiven'
    BY <1>3 DEF vars, ClaimsInv, ClaimsApart, ClaimsGiven, Claims
  <2>3. IdsSpared'
    <3>1. \A r \in RoomIds : Joiners(r)' = Joiners(r) /\ rooms'[r] = rooms[r]
      BY <1>3 DEF vars, Joiners
    <3> QED
      BY <3>1 DEF ClaimsInv, IdsSpared
  <2> QED
    BY <1>2, <2>1, <2>2, <2>3 DEF ClaimsInv
<1> QED
  BY <1>1, <1>2, <1>3, StepKinds, OutsideInv, InsideInv, CreateInv, JoinsInv

\* At the start nobody is anybody.
LEMMA ClaimsInit == Init => ClaimsInv
<1> SUFFICES ASSUME Init PROVE ClaimsInv
  OBVIOUS
<1>1. RegistryInv
  BY InitInv
<1>2. \A r \in RoomIds : rooms[r] = NoSuchRoom /\ rooms[r].code \notin Codes /\ rooms[r].next = 1
  BY NewRoomsAreBare, NoCodeAssumption DEF Init, NoSuchRoom
<1>3. \A c \in Conns : task[c] = Idle /\ task[c].at = "idle" /\ sess[c] = NoSession
  BY DEF Init, Idle
<1>4. ASSUME NEW r \in RoomIds
      PROVE  IsFiniteSet(Joiners(r)) /\ rooms[r].next + Cardinality(Joiners(r)) <= MaxPeerId
  <2>1. Joiners(r) = {}
    BY <1>3 DEF Joiners, Joining, Idle
  <2>2. IsFiniteSet(Joiners(r)) /\ Cardinality(Joiners(r)) = 0
    BY <2>1, FS_EmptySet
  <2> QED
    BY <1>2, <2>2, MaxPeerIdAssumption
<1> QED
  BY <1>1, <1>2, <1>3, <1>4
  DEF ClaimsInv, NoStrayRooms, CodesIssued, CodesApart, ClaimsApart, ClaimsGiven, IdsSpared,
      ActsInOwnRoom, SessionsDistinct

\* Who is who stays settled.
LEMMA ClaimsInvariance ==
  ASSUME ~Recycle, MaxPeerId > 1
  PROVE  Spec => []ClaimsInv
<1>1. ClaimsInv /\ [Next]_vars => ClaimsInv'
  BY ClaimsNext
<1> QED
  BY <1>1, ClaimsInit, PTL DEF Spec

\* No two sessions name the same place, although a kick or a ban leaves its victim the
\* session (dispatch.rs:357-369): a place once given out is not given out again.
THEOREM PlacesAreDistinct ==
  ASSUME ~Recycle, MaxPeerId > 1
  PROVE  Spec => []SessionsDistinct
BY ClaimsInvariance, PTL DEF ClaimsInv

\* Whoever acts as host holds the host's place alone.
LEMMA HostActsAlone ==
  ASSUME ClaimsInv, NEW c \in Conns, NEW r \in RoomIds, task[c] = Acting(r), IsHost(c)
  PROVE  /\ sess[c].peer = rooms[r].host
         /\ \A d \in Conns \ {c} : ~Sits(rooms[r], rooms[r].host, d)
<1>1. task[c].at = "acting" /\ task[c].room = r
  BY DEF Acting
<1>2. sess[c] # NoSession /\ sess[c].code = rooms[r].code /\ sess[c].peer = rooms[r].host
  BY <1>1 DEF ClaimsInv, ActsInOwnRoom, IsHost
<1>3. /\ sess[c] = [code |-> rooms[r].code, peer |-> rooms[r].host]
      /\ rooms[r].code \in Codes /\ rooms[r].host \in PeerIds
  BY <1>2, SessionNames DEF ClaimsInv
<1>4. Claims(c, r, rooms[r].host)
  BY <1>3 DEF Claims
<1> QED
  BY <1>2, <1>3, <1>4 DEF ClaimsInv, ClaimsApart, Claims

\* A seat in a registered room is lost in a step of a task that holds the room.
LEMMA SeatLost ==
  ASSUME RegistryInv, [Next]_vars, NEW r \in RoomIds, NEW p \in PeerIds, NEW c \in Conns,
         Registered(r), Sits(rooms[r], p, c), ~Sits(rooms'[r], p, c)
  PROVE  \E h \in Conns : StepsInside(h, r, rooms'[r])
<1>1. RegistryInv' /\ rooms[r] \in Room /\ rooms[r].code \in Codes
  BY NextInv, NoRoomAssumption DEF RegistryInv, TypeOK, PoolNamesRooms, Registered
<1>2. rooms'[r] # NoSuchRoom
  <2>1. PICK code \in Codes : pool[code] = r
    BY DEF Registered
  <2>2. ~Empty(rooms[r])
    BY DEF Empty, Sits
  <2>3. pool'[code] = r
    BY <2>1, <2>2, NoRoomAssumption, PoolKept
  <2>4. rooms'[r].code = code
    BY <1>1, <2>3, NoRoomAssumption DEF RegistryInv, PoolNamesRooms
  <2> QED
    BY <2>4, NewRoomsAreBare, NoCodeAssumption DEF NoSuchRoom
<1>3. \A d \in Conns, code \in Codes : ~CreateRoom(d, code, r)
  BY DEF CreateRoom, IsFree
<1>4. PICK h \in Conns : StepsInside(h, r, rooms'[r]) \/ Joins(h, r, rooms'[r])
  BY <1>2, <1>3, RoomChanges
<1>5. ~Joins(h, r, rooms'[r])
  BY <1>1, JoinsEffects
<1> QED
  BY <1>4, <1>5

\* Whoever loses a seat in a registered room left, is gone, or was sent away by the
\* connection that holds the host's place (dispatch.rs:327-388, mod.rs:388-410).
THEOREM EvictionsAreJustified ==
  ASSUME ~Recycle, MaxPeerId > 1
  PROVE  Spec => EvictionJustified
<1> DEFINE Evicts(r, p, c) == /\ Registered(r)
                              /\ Sits(rooms[r], p, c)
                              /\ ~Sits(rooms'[r], p, c)
           ByHost(h, r) == /\ task'[h] # task[h]
                           /\ task[h] = Acting(r)
                           /\ sess[h].peer = rooms[r].host
                           /\ \A d \in Conns \ {h} : ~Sits(rooms[r], rooms[r].host, d)
           Justified(r, p, c) ==
             \/ task[c] = Aborted
             \/ task[c].at = "leaving" /\ task[c].room = r /\ task[c].peer = p
             \/ \E h \in Conns : ByHost(h, r)
<1>1. ASSUME ClaimsInv, [Next]_vars,
             NEW r \in RoomIds, NEW p \in PeerIds, NEW c \in Conns, Evicts(r, p, c)
      PROVE  Justified(r, p, c)
  <2>1. RegistryInv /\ rooms[r].code \in Codes
    BY <1>1, NoRoomAssumption DEF ClaimsInv, RegistryInv, PoolNamesRooms, Registered
  <2>2. PICK h \in Conns : StepsInside(h, r, rooms'[r])
    BY <1>1, <2>1, SeatLost
  <2>3. \/ c \in Closed
        \/ task[h].at = "leaving" /\ task[h].room = r /\ task[h].peer = p
        \/ task[h] = Acting(r) /\ IsHost(h)
    BY <1>1, <2>2 DEF StepsInside, HoldsRoom
  <2>4. CASE c \in Closed
    BY <1>1, <2>1, <2>4, SeatlessBetween DEF Closed, Down
  <2>5. CASE task[h].at = "leaving" /\ task[h].room = r /\ task[h].peer = p
    BY <1>1, <2>1, <2>5 DEF ClaimsInv, ClaimsApart, Claims
  <2>6. CASE task[h] = Acting(r) /\ IsHost(h)
    <3>1. task'[h] # task[h]
      <4>1. PICK t \in Task : task' = [task EXCEPT ![h] = t] /\ t.at # "acting"
        BY <2>2 DEF StepsInside, GoesOn
      <4> QED
        BY <2>1, <2>6, <4>1 DEF RegistryInv, TypeOK, Acting
    <3> QED
      BY <1>1, <2>6, <3>1, HostActsAlone
  <2> QED
    BY <2>3, <2>4, <2>5, <2>6
<1>2. ClaimsInv /\ [Next]_vars =>
        [\A r \in RoomIds, p \in PeerIds, c \in Conns : Evicts(r, p, c) => Justified(r, p, c)]_vars
  BY <1>1
<1> QED
  BY <1>2, ClaimsInvariance, PTL DEF Spec, EvictionJustified

\* The state of a room is written by whoever sits in the host's seat, or by a former
\* host while nobody does (dispatch.rs:239-245).
THEOREM StatesComeFromTheHost ==
  ASSUME ~Recycle, MaxPeerId > 1
  PROVE  Spec => StateFromHostSeat
<1> DEFINE Written(r) == rooms'[r].code = rooms[r].code /\ rooms'[r].state # rooms[r].state
           FromHost(r) == \A d \in Conns \ {rooms'[r].state} : ~Sits(rooms[r], rooms[r].host, d)
<1>1. ASSUME ClaimsInv, [Next]_vars, NEW r \in RoomIds, Written(r)
      PROVE  FromHost(r)
  <2>1. RegistryInv /\ rooms[r] \in Room
    BY <1>1 DEF ClaimsInv, RegistryInv, TypeOK
  <2>2. NoSuchRoom.code = NoCode /\ \A code \in Codes : NewRoom(code, DefaultSettings).code = code
    BY NewRoomsAreBare DEF NoSuchRoom
  <2>3. IsFree(r) => rooms[r] = NoSuchRoom
    BY <1>1 DEF ClaimsInv, NoStrayRooms
  <2>4. ~IsFree(r) => rooms[r].code \in Codes
    BY <2>1, NoRoomAssumption DEF IsFree, Registered, RegistryInv, PoolNamesRooms, HeldRoomsExist
  <2>5. rooms'[r] # NoSuchRoom /\ rooms'[r] # rooms[r]
    BY <1>1, <2>2, <2>3, <2>4, NoCodeAssumption
  <2>6. \A c \in Conns, code \in Codes :
          ~(CreateRoom(c, code, r) /\ rooms'[r] = NewRoom(code, DefaultSettings))
    BY <1>1, <2>2, <2>3, NoCodeAssumption DEF CreateRoom
  <2>7. PICK c \in Conns : StepsInside(c, r, rooms'[r]) \/ Joins(c, r, rooms'[r])
    BY <1>1, <2>1, <2>5, <2>6, RoomChanges
  <2>8. ~Joins(c, r, rooms'[r])
    BY <1>1, <2>1, JoinsEffects
  <2>9. task[c] = Acting(r) /\ IsHost(c) /\ rooms'[r].state = c
    BY <1>1, <2>7, <2>8 DEF StepsInside
  <2> QED
    BY <1>1, <2>9, HostActsAlone
<1>2. ClaimsInv /\ [Next]_vars => [\A r \in RoomIds : Written(r) => FromHost(r)]_vars
  BY <1>1
<1> QED
  BY <1>2, ClaimsInvariance, PTL DEF Spec, StateFromHostSeat

-----------------------------------------------------------------------------
(* Empty rooms, where nobody is turned away from one or sent away.         *)

\* No settings that a room may get lock it.
NothingLocked == \A s \in SettingsChoices \cup {DefaultSettings} : ~s.locked

\* Every room is open to all, and the session of a connection is for a seat of its own,
\* unless its room is lost to the pool.
OpenToAll == \A r \in RoomIds : rooms[r].banned = {} /\ ~rooms[r].settings.locked
SessionsSeated ==
  \A c \in Conns :
    sess[c] # NoSession /\ pool[sess[c].code] # NoRoom =>
      Sits(rooms[pool[sess[c].code]], sess[c].peer, c)

AttendInv == ClaimsInv /\ SeatsApart /\ OpenToAll /\ SessionsSeated /\ EmptyRoomAttended

\* Where nobody is sent away, a seat is kept until its connection leaves or ends.
LEMMA SeatStays ==
  ASSUME Gentle, ClaimsInv, SeatsApart, [Next]_vars,
         NEW r \in RoomIds, NEW p \in PeerIds, NEW c \in Conns,
         Registered(r), Sits(rooms[r], p, c), c \notin Closed, task[c].at # "leaving"
  PROVE  Sits(rooms'[r], p, c)
<1> SUFFICES ASSUME ~Sits(rooms'[r], p, c) PROVE FALSE
  OBVIOUS
<1>1. RegistryInv /\ rooms[r].code \in Codes /\ Apart(rooms[r])
  BY NoRoomAssumption
  DEF ClaimsInv, RegistryInv, PoolNamesRooms, Registered, SeatsApart
<1>2. PICK h \in Conns : StepsInside(h, r, rooms'[r])
  BY <1>1, SeatLost
<1>3. CASE task[h].at = "leaving" /\ task[h].room = r /\ task[h].peer = p
  BY <1>1, <1>3 DEF ClaimsInv, ClaimsApart, Claims
<1>4. CASE task[h].at = "acting"
  BY <1>1, <1>2, <1>4 DEF StepsInside, Spares
<1> QED
  BY <1>2, <1>3, <1>4 DEF StepsInside, HoldsRoom, Acting

\* Rooms stay open to all.
LEMMA OpenNext ==
  ASSUME Gentle, NothingLocked, RegistryInv, OpenToAll, [Next]_vars
  PROVE  OpenToAll'
<1> SUFFICES ASSUME NEW r \in RoomIds
             PROVE  rooms'[r].banned = {} /\ ~rooms'[r].settings.locked
  BY DEF OpenToAll
<1>1. rooms[r] \in Room /\ rooms[r].banned = {} /\ ~rooms[r].settings.locked
  BY DEF RegistryInv, TypeOK, OpenToAll
<1>2. \A code \in Codes \cup {NoCode} :
        LET room == NewRoom(code, DefaultSettings)
        IN  room.banned = {} /\ ~room.settings.locked
  BY DEF NewRoom, NothingLocked
<1>3. ASSUME NEW c \in Conns, StepsInside(c, r, rooms'[r])
      PROVE  rooms'[r].banned = {} /\ ~rooms'[r].settings.locked
  BY <1>1, <1>3 DEF StepsInside, LockedBySettings, NothingLocked
<1>4. ASSUME NEW c \in Conns, Joins(c, r, rooms'[r])
      PROVE  rooms'[r].banned = {} /\ ~rooms'[r].settings.locked
  BY <1>1, <1>4, JoinsEffects
<1> QED
  BY <1>1, <1>2, <1>3, <1>4, RoomChanges DEF NoSuchRoom

\* How the pool changes: a code is filled by CreateRoom, or emptied.
LEMMA PoolChanges ==
  ASSUME RegistryInv, [Next]_vars, NEW code \in Codes, pool'[code] # NoRoom
  PROVE  \/ pool'[code] = pool[code]
         \/ \E c \in Conns, r \in RoomIds : CreateRoom(c, code, r) /\ pool'[code] = r
<1>1. pool \in [Codes -> RoomIds \cup {NoRoom}]
  BY DEF RegistryInv, TypeOK
<1>2. CASE UNCHANGED vars
  BY <1>2 DEF vars
<1>3. ASSUME NEW c \in Conns, StepsOutside(c)
      PROVE  pool'[code] = pool[code]
  <2>1. CASE pool' = pool
    BY <2>1
  <2>2. CASE Clean(c)
    <3>1. pool' = pool \/ pool' = [pool EXCEPT ![task[c].code] = NoRoom]
      BY <2>2 DEF Clean
    <3> QED
      BY <1>1, <3>1
  <2> QED
    BY <1>3, <2>1, <2>2 DEF StepsOutside
<1>4. ASSUME NEW c \in Conns, NEW other \in Codes, NEW r \in RoomIds, CreateRoom(c, other, r)
      PROVE  \/ pool'[code] = pool[code]
             \/ CreateRoom(c, code, r) /\ pool'[code] = r
  <2>1. pool' = [pool EXCEPT ![other] = r]
    BY <1>4 DEF CreateRoom
  <2> QED
    BY <1>1, <1>4, <2>1
<1>5. ASSUME NEW c \in Conns, NEW r \in RoomIds, NEW new \in Room,
             StepsInside(c, r, new) \/ Joins(c, r, new)
      PROVE  pool' = pool
  BY <1>5 DEF StepsInside, Joins
<1> QED
  BY <1>2, <1>3, <1>4, <1>5, StepKinds

\* A session is kept, taken, or is that of a joiner.
LEMMA SessionChanges ==
  ASSUME RegistryInv, [Next]_vars, NEW c \in Conns, sess'[c] # NoSession
  PROVE  \/ sess'[c] = sess[c]
         \/ \E r \in RoomIds, new \in Room : Joins(c, r, new)
<1>1. sess \in [Conns -> Session \cup {NoSession}]
  BY DEF RegistryInv, TypeOK
<1>2. CASE UNCHANGED vars
  BY <1>2 DEF vars
<1>3. ASSUME NEW d \in Conns, StepsOutside(d)
      PROVE  sess'[c] \in {sess[c], NoSession}
  BY <1>1, <1>3 DEF StepsOutside
<1>4. ASSUME NEW d \in Conns, NEW r \in RoomIds, NEW new \in Room,
             StepsInside(d, r, new) \/ Joins(d, r, new), d # c
      PROVE  sess'[c] = sess[c]
  BY <1>1, <1>4 DEF StepsInside, Joins
<1>5. ASSUME NEW r \in RoomIds, NEW new \in Room, StepsInside(c, r, new)
      PROVE  sess'[c] = sess[c]
  BY <1>5 DEF StepsInside
<1>6. ASSUME NEW d \in Conns, NEW code \in Codes, NEW r \in RoomIds, CreateRoom(d, code, r)
      PROVE  sess'[c] = sess[c]
  BY <1>6 DEF CreateRoom
<1> QED
  BY <1>2, <1>3, <1>4, <1>5, <1>6, StepKinds

\* Whoever has a session keeps the seat that goes with it.
LEMMA SeatedNext ==
  ASSUME Gentle, ~Recycle, ClaimsInv, ClaimsInv', SeatsApart, SessionsSeated, [Next]_vars
  PROVE  SessionsSeated'
<1> SUFFICES ASSUME NEW c \in Conns, sess'[c] # NoSession, pool'[sess'[c].code] # NoRoom
             PROVE  Sits(rooms'[pool'[sess'[c].code]], sess'[c].peer, c)
  BY DEF SessionsSeated
<1>1. RegistryInv /\ RegistryInv'
  BY DEF ClaimsInv
<1>2. CASE sess'[c] = sess[c]
  <2> DEFINE code == sess[c].code
             r == pool[code]
  <2>1. code \in Codes /\ code \in issued /\ sess[c].peer \in PeerIds /\ sess[c] # NoSession
    BY <1>1, <1>2, SessionNames DEF ClaimsInv, CodesIssued
  <2>2. \A d \in Conns, q \in RoomIds : ~CreateRoom(d, code, q)
    BY <2>1 DEF CreateRoom
  <2>3. pool'[code] = r /\ r # NoRoom
    BY <1>1, <1>2, <2>1, <2>2, PoolChanges
  <2>4. r \in RoomIds /\ Registered(r) /\ Sits(rooms[r], sess[c].peer, c)
    BY <1>1, <2>1, <2>3, SessionNames DEF SessionsSeated, Registered
  <2>5. task[c].at \in {"idle", "acting"}
    BY <1>1, <2>1 DEF RegistryInv, SessionAtRest
  <2>6. c \notin Closed /\ task[c].at # "leaving"
    BY <2>5 DEF Closed, Down, Aborted
  <2> HIDE DEF r, code
  <2>7. Sits(rooms'[r], sess[c].peer, c)
    BY <2>1, <2>4, <2>6, SeatStays
  <2> QED
    BY <1>2, <2>3, <2>7 DEF code
<1>3. ASSUME NEW r \in RoomIds, NEW new \in Room, Joins(c, r, new)
      PROVE  Sits(rooms'[pool'[sess'[c].code]], sess'[c].peer, c)
  <2> DEFINE peer == NextPeerId(rooms[r])
             q == pool[rooms[r].code]
  <2>1. sess'[c] = [code |-> rooms[r].code, peer |-> peer] /\ pool' = pool /\ peer \in PeerIds
    BY <1>1, <1>3 DEF Joins, RegistryInv, TypeOK, FreePeerIds
  <2>2. rooms[r] \in Room /\ rooms[r].code \in Codes
    BY <1>1, <1>3 DEF Joins, RegistryInv, TypeOK, HeldRoomsExist, HoldsRoom, Joining
  <2>3. q # NoRoom /\ q \in RoomIds /\ rooms[q].code = rooms[r].code
    BY <1>1, <2>1, <2>2, NoRoomAssumption DEF RegistryInv, TypeOK, PoolNamesRooms
  <2>4. q = r
    BY <2>2, <2>3 DEF ClaimsInv, CodesApart
  <2>5. Sits(new, peer, c)
    BY <1>3, <2>1, <2>2, JoinsEffects
  <2>6. rooms'[r].code \in Codes
    BY <1>1, <2>1, <2>2, <2>3, <2>4 DEF RegistryInv, PoolNamesRooms
  <2>7. GoesOn(c, Idle, [rooms EXCEPT ![r] = new])
    BY <1>3 DEF Joins
  <2>8. rooms'[r] = [rooms EXCEPT ![r] = new][r]
    <3>1. ASSUME NEW rs, GoesOn(c, Idle, rs)
          PROVE  rooms'[r] = rs[r]
      BY <1>1, <2>6, <3>1, AfterStep
    <3> QED
      BY <2>7, <3>1
  <2>9. rooms'[r] = new
    BY <1>1, <2>8 DEF RegistryInv, TypeOK
  <2> QED
    BY <2>1, <2>4, <2>5, <2>9
<1> QED
  BY <1>1, <1>2, <1>3, SessionChanges

\* The room r, which code leads to, is on the hands of c.
Attends(c, code, r) ==
  \/ task[c].at \in {"joining", "leaving"} /\ task[c].room = r
  \/ task[c].at = "cleaning" /\ task[c].code = code

\* A step moves one task; a room that a code leads to afterwards is as that task left it.
LEMMA MovesOne ==
  ASSUME RegistryInv, RegistryInv', NEW c \in Conns, NEW t, NEW q \in RoomIds, NEW new \in Room,
         GoesOn(c, t, [rooms EXCEPT ![q] = new])
  PROVE  /\ task'[c] = t
         /\ \A d \in Conns \ {c} : task'[d] = task[d]
         /\ \A code \in Codes : pool'[code] = q => rooms'[q] = new
<1>1. ASSUME NEW rs, GoesOn(c, t, rs)
      PROVE  /\ task'[c] = t
             /\ \A d \in Conns \ {c} : task'[d] = task[d]
             /\ \A code \in Codes : pool'[code] = q => rooms'[q] = rs[q]
  <2>1. \A code \in Codes : pool'[code] = q => rooms'[q].code \in Codes
    BY NoRoomAssumption DEF RegistryInv, PoolNamesRooms
  <2> QED
    BY <1>1, <2>1, AfterStep
<1>2. [rooms EXCEPT ![q] = new][q] = new
  BY DEF RegistryInv, TypeOK
<1> QED
  BY <1>1, <1>2

\* An empty room that somebody attends is filled, removed, or attended by somebody.
LEMMA StaysAttended ==
  ASSUME Gentle, AttendInv, RegistryInv', NEW code \in Codes, NEW r \in RoomIds, NEW c \in Conns,
         pool[code] = r, pool'[code] = r, Empty(rooms[r]), Empty(rooms'[r]),
         Attends(c, code, r), [Next]_vars
  PROVE  \E d \in Conns : Attends(d, code, r)'
<1>1. RegistryInv /\ ClaimsInv /\ rooms[r] \in Room /\ rooms[r].code = code
  BY NoRoomAssumption DEF AttendInv, ClaimsInv, RegistryInv, TypeOK, PoolNamesRooms
<1>2. CASE task'[c] = task[c]
  BY <1>2 DEF Attends
<1>3. ASSUME NEW d \in Conns, d # c,
             \E t, rs : GoesOn(d, t, rs)
      PROVE  task'[c] = task[c]
  BY <1>1, <1>3, AfterStep
<1>4. CASE StepsOutside(c)
  <2>1. task[c].at # "joining"
    <3> SUFFICES ASSUME task[c].at = "joining" PROVE FALSE
      OBVIOUS
    <3>1. PICK hash \in Hashes : JoinRefused(c, hash)
      BY <1>4 DEF StepsOutside
    <3>2. task[c].room = r
      BY DEF Attends
    <3>3. Refuses(rooms[r], hash) \/ rooms[r].settings.locked
      BY <3>1, <3>2 DEF JoinRefused
    <3>4. rooms[r].banned = {} /\ ~rooms[r].settings.locked
      BY DEF AttendInv, OpenToAll
    <3>5. ~IsFull(rooms[r])
      <4>1. SeatCount(rooms[r]) = 0
        BY FS_EmptySet DEF SeatCount, Empty
      <4>2. rooms[r].settings.max \in Nat
        BY <1>1, MaxPlayerAssumption DEF Room, Settings
      <4> QED
        BY <4>1, <4>2 DEF IsFull
    <3> QED
      BY <3>3, <3>4, <3>5 DEF Refuses, IsBanned
  <2>2. task[c].at = "cleaning" /\ task[c].code = code /\ Clean(c)
    BY <1>4, <2>1 DEF StepsOutside, Attends
  <2>3. TryLockFails(c, r)
    BY <1>1, <2>2, NoRoomAssumption DEF Clean, RegistryInv, TypeOK
  <2>4. PICK d \in Conns \ {c} : HoldsRoom(task[d], r)
    BY <2>3 DEF TryLockFails
  <2>5. task'[d] = task[d]
    <3>1. \E t : GoesOn(c, t, rooms)
      BY <1>4 DEF StepsOutside
    <3> QED
      BY <1>1, <3>1, AfterStep
  <2>6. task[d].at # "acting"
    <3> SUFFICES ASSUME task[d].at = "acting" PROVE FALSE
      OBVIOUS
    <3>1. task[d].room = r
      BY <2>4 DEF HoldsRoom
    <3>2. sess[d] # NoSession /\ sess[d].code = code
      BY <1>1, <3>1 DEF ClaimsInv, ActsInOwnRoom
    <3>3. Sits(rooms[r], sess[d].peer, d)
      BY <3>2, NoRoomAssumption DEF AttendInv, SessionsSeated
    <3> QED
      BY <3>3 DEF Sits, Empty
  <2> QED
    BY <2>4, <2>5, <2>6 DEF HoldsRoom, Attends
<1>5. ASSUME NEW q \in RoomIds, NEW new \in Room, StepsInside(c, q, new)
      PROVE  \E d \in Conns : Attends(d, code, r)'
  <2>1. PICK t \in Task :
          /\ GoesOn(c, t, [rooms EXCEPT ![q] = new])
          /\ task[c].at = "leaving" /\ Empty(new) =>
               \E then \in Afterwards : t = Cleaning(rooms[q].code, then)
    BY <1>5 DEF StepsInside
  <2>2. HoldsRoom(task[c], q)
    BY <1>5 DEF StepsInside
  <2>3. task[c].at \in {"joining", "leaving"} /\ q = r
    BY <2>2 DEF HoldsRoom, Attends
  <2>4. task[c].at # "joining"
    <3>1. FreePeerIds(rooms[r]) # {}
      BY MaxPeerIdAssumption DEF FreePeerIds, Occupied, Empty, PeerIds
    <3> QED
      BY <1>5, <2>3, <3>1 DEF StepsInside
  <2>5. task'[c] = t /\ rooms'[r] = new
    <3>1. ASSUME NEW rs, GoesOn(c, t, rs)
          PROVE  task'[c] = t /\ rooms'[r] = rs[r]
      <4>1. rooms'[r].code \in Codes
        BY NoRoomAssumption DEF RegistryInv, PoolNamesRooms
      <4> QED
        BY <1>1, <3>1, <4>1, AfterStep
    <3>2. [rooms EXCEPT ![q] = new][r] = new
      BY <1>1, <2>3 DEF RegistryInv, TypeOK
    <3> QED
      BY <2>1, <3>1, <3>2
  <2>6. PICK then \in Afterwards : t = Cleaning(code, then)
    <3>1. Empty(new) /\ task[c].at = "leaving" /\ rooms[q].code = code
      BY <1>1, <2>3, <2>4, <2>5
    <3> QED
      BY <2>1, <3>1
  <2> QED
    BY <2>5, <2>6 DEF Attends, Cleaning
<1>6. ASSUME NEW q \in RoomIds, NEW new \in Room, Joins(c, q, new)
      PROVE  FALSE
  <2>1. task[c] = Joining(q) /\ GoesOn(c, Idle, [rooms EXCEPT ![q] = new])
    BY <1>6 DEF Joins
  <2>2. q = r
    BY <2>1 DEF Attends, Joining
  <2>3. rooms'[r] = new
    BY <1>1, <2>1, <2>2, MovesOne
  <2>4. Sits(new, NextPeerId(rooms[r]), c)
    <3>1. NextPeerId(rooms[r]) \in PeerIds
      BY <1>6, <2>2 DEF Joins, FreePeerIds
    <3> QED
      BY <1>1, <1>6, <2>2, <3>1, JoinsEffects
  <2> QED
    BY <2>3, <2>4 DEF Sits, Empty
<1>7. ASSUME NEW other \in Codes, NEW q \in RoomIds, CreateRoom(c, other, q)
      PROVE  FALSE
  BY <1>7 DEF CreateRoom, Entering, Attends
<1>8. CASE UNCHANGED vars
  BY <1>2, <1>8 DEF vars
<1>9. ASSUME NEW d \in Conns, d # c,
             \/ StepsOutside(d)
             \/ \E q \in RoomIds, new \in Room : StepsInside(d, q, new) \/ Joins(d, q, new)
             \/ \E other \in Codes, q \in RoomIds : CreateRoom(d, other, q)
      PROVE  task'[c] = task[c]
  BY <1>3, <1>9 DEF StepsOutside, StepsInside, Joins, CreateRoom
<1> QED
  BY <1>1, <1>2, <1>4, <1>5, <1>6, <1>7, <1>8, <1>9, StepKinds

\* A room that is emptied is on the hands of whoever emptied it.
LEMMA EmptiedAttended ==
  ASSUME Gentle, AttendInv, RegistryInv', NEW code \in Codes, NEW r \in RoomIds,
         pool[code] = r, pool'[code] = r, ~Empty(rooms[r]), Empty(rooms'[r]), [Next]_vars
  PROVE  \E d \in Conns : Attends(d, code, r)'
<1>1. RegistryInv /\ ClaimsInv /\ SeatsApart /\ rooms[r] \in Room /\ rooms[r].code = code
      /\ Registered(r)
  BY NoRoomAssumption DEF AttendInv, ClaimsInv, RegistryInv, TypeOK, PoolNamesRooms, Registered
<1>2. PICK p \in PeerIds, c \in Conns : Sits(rooms[r], p, c)
  <2>1. PICK p \in Occupied(rooms[r]) : TRUE
    BY DEF Empty, Occupied
  <2> QED
    BY <1>1, <2>1 DEF Occupied, Peers, Sits, Room, SeatMap, Seat
<1>3. \A q \in PeerIds, d \in Conns : ~Sits(rooms'[r], q, d)
  BY DEF Empty, Sits
<1>4. PICK h \in Conns : StepsInside(h, r, rooms'[r])
  BY <1>1, <1>2, <1>3, SeatLost
<1>5. PICK t \in Task :
        /\ GoesOn(h, t, [rooms EXCEPT ![r] = rooms'[r]])
        /\ task[h].at = "leaving" /\ Empty(rooms'[r]) =>
             \E then \in Afterwards : t = Cleaning(rooms[r].code, then)
  BY <1>4 DEF StepsInside
<1>6. HoldsRoom(task[h], r)
  BY <1>4 DEF StepsInside
<1>7. task[h].at # "joining"
  BY <1>2, <1>3, <1>4 DEF StepsInside, Sits
<1>8. task[h].at # "acting"
  <2> SUFFICES ASSUME task[h].at = "acting" PROVE FALSE
    OBVIOUS
  <2>1. sess[h] # NoSession /\ sess[h].code = code
    BY <1>1, <1>6 DEF HoldsRoom, ClaimsInv, ActsInOwnRoom
  <2>2. Sits(rooms[r], sess[h].peer, h) /\ sess[h].peer \in PeerIds
    BY <1>1, <2>1, NoRoomAssumption, SessionNames DEF AttendInv, SessionsSeated
  <2>3. h \notin Closed
    BY DEF Closed, Down, Aborted
  <2> QED
    BY <1>1, <1>3, <2>2, <2>3, SeatStays
<1>9. task[h].at = "leaving"
  BY <1>6, <1>7, <1>8 DEF HoldsRoom
<1>10. PICK then \in Afterwards : t = Cleaning(code, then)
  BY <1>1, <1>5, <1>9
<1>11. task'[h] = t
  BY <1>1, <1>5 DEF GoesOn, RegistryInv, TypeOK
<1> QED
  BY <1>10, <1>11 DEF Attends, Cleaning

\* A room that is new to the pool is on the hands of whoever created it.
LEMMA CreatedAttended ==
  ASSUME RegistryInv, NEW code \in Codes, NEW c \in Conns, NEW r \in RoomIds, CreateRoom(c, code, r)
  PROVE  \E d \in Conns : Attends(d, code, r)'
<1>1. task'[c] = Joining(r)
  BY DEF CreateRoom, GoesOn, RegistryInv, TypeOK
<1> QED
  BY <1>1 DEF Attends, Joining

\* What makes EmptyRoomAttended inductive is kept.
LEMMA AttendNext ==
  ASSUME Gentle, NothingLocked, ~Recycle, MaxPeerId > 1, AttendInv, [Next]_vars
  PROVE  AttendInv'
<1>1. ClaimsInv /\ RegistryInv /\ ClaimsInv' /\ RegistryInv'
  BY ClaimsNext DEF AttendInv, ClaimsInv
<1>2. SeatsApart' /\ OpenToAll' /\ SessionsSeated'
  BY <1>1, SeatsApartInv, OpenNext, SeatedNext DEF AttendInv
<1>3. ASSUME NEW code \in Codes, NEW r \in RoomIds, pool'[code] = r, Empty(rooms'[r])
      PROVE  \E d \in Conns : Attends(d, code, r)'
  <2>1. CASE pool[code] = r /\ ~Empty(rooms[r])
    BY <1>1, <1>3, <2>1, EmptiedAttended
  <2>2. CASE pool[code] = r /\ Empty(rooms[r])
    <3>1. PICK c \in Conns : Attends(c, code, r)
      BY <2>2, NoRoomAssumption DEF AttendInv, EmptyRoomAttended, Attends
    <3> QED
      BY <1>1, <1>3, <2>2, <3>1, StaysAttended
  <2>3. CASE pool[code] # r
    BY <1>1, <1>3, <2>3, NoRoomAssumption, PoolChanges, CreatedAttended
  <2> QED
    BY <2>1, <2>2, <2>3
<1>4. EmptyRoomAttended'
  <2>1. \A code \in Codes : pool'[code] \in RoomIds \cup {NoRoom}
    BY <1>1 DEF RegistryInv, TypeOK
  <2> QED
    BY <1>3, <2>1 DEF EmptyRoomAttended, Attends
<1> QED
  BY <1>1, <1>2, <1>4 DEF AttendInv

\* Where no room is locked and no peer is sent away, an empty room that a code leads to is
\* always about to be filled, vacated or removed, although the removal gives way to whoever
\* holds the room (try_lock, pool.rs:92-104): the one it gives way to is a joiner, who is
\* not turned away, or another leaver (mod.rs:388-410).  A host that sends itself away, a
\* wrong password or a ban leaves a room behind for good.
THEOREM EmptyRoomsAreAttended ==
  ASSUME ~Recycle, MaxPeerId > 1, Gentle, NothingLocked
  PROVE  Spec => []EmptyRoomAttended
<1>1. Init => AttendInv
  <2> SUFFICES ASSUME Init PROVE AttendInv
    OBVIOUS
  <2>1. ClaimsInv
    BY ClaimsInit
  <2>2. SeatsApart
    BY NewRoomsAreBare DEF Init, SeatsApart, NoSuchRoom
  <2>3. OpenToAll
    BY DEF Init, OpenToAll, NoSuchRoom, NewRoom, NothingLocked
  <2> QED
    BY <2>1, <2>2, <2>3 DEF Init, AttendInv, SessionsSeated, EmptyRoomAttended
<1>2. AttendInv /\ [Next]_vars => AttendInv'
  BY AttendNext
<1> QED
  BY <1>1, <1>2, PTL DEF Spec, AttendInv

=============================================================================
