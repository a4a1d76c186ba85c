-------------------------- MODULE RoomState_proofs --------------------------
(***************************************************************************)
(* What the operators of RoomState return and preserve, for every room.    *)
(***************************************************************************)
EXTENDS RoomState, FiniteSetTheorems, WellFoundedInduction, TLAPS

\* Min picks the least element of a finite, nonempty set of naturals.  The least
\* element is the one below which fewest elements lie: the sets of elements below
\* some x are well-founded by strict inclusion.
LEMMA MinOfNats ==
  ASSUME NEW S \in SUBSET Nat, IsFiniteSet(S), S # {}
  PROVE  /\ Min(S) \in S
         /\ \A n \in S : Min(S) <= n
<1> DEFINE Below(x) == {y \in S : y <= x}
           Belows == {Below(x) : x \in S}
           Order == StrictSubsetOrdering(S)
<1>1. IsWellFoundedOn(Order, SUBSET S)
  BY FS_StrictSubsetOrderingWellFounded, FS_FiniteSubsetsOfFinite
<1>2. Belows \subseteq SUBSET S /\ Belows # {}
  OBVIOUS
<1>3. PICK B \in Belows : \A A \in Belows : ~ (<<A, B>> \in Order)
  <2> HIDE DEF Belows, Order
  <2> QED
    BY <1>1, <1>2, WFMin
<1>4. PICK m \in S : B = Below(m)
  BY <1>3
<1>5. ASSUME NEW n \in S, ~ (m <= n)
      PROVE  FALSE
  <2>1. n <= m /\ m \notin Below(n) /\ m \in Below(m)
    BY <1>5
  <2>2. Below(n) \subseteq Below(m)
    <3>1. \A y \in S : y <= n => y <= m
      BY <2>1
    <3> QED
      BY <3>1
  <2>3. Below(n) # Below(m)
    BY <2>1
  <2>4. <<Below(n), Below(m)>> \in Order
    BY <2>2, <2>3, Below(n) \subseteq S, Below(m) \subseteq S DEF StrictSubsetOrdering
  <2> QED
    BY <1>3, <1>4, <2>4
<1>6. m \in S /\ \A n \in S : m <= n
  BY <1>5
<1> QED
  BY <1>6 DEF Min

-----------------------------------------------------------------------------
(* Peer ids and sides.                                                     *)

\* The counter of a room stays a peer id (saturating_add, room.rs:120).
LEMMA SuccIsPeerId ==
  ASSUME NEW id \in PeerIds
  PROVE  SaturatingSucc(id) \in PeerIds
BY MaxPeerIdAssumption DEF SaturatingSucc, PeerIds

\* next_peer_id returns an id that no accepted and no pending peer has, also when
\* its counter has saturated and it scans for one (room.rs:117-133).
THEOREM NextPeerIdIsFree ==
  ASSUME NEW room \in Room, FreePeerIds(room) # {}
  PROVE  NextPeerId(room) \in FreePeerIds(room)
<1> DEFINE free == FreePeerIds(room)
           start == SaturatingSucc(room.next)
           later == {id \in free : id >= start}
<1>1. free \in SUBSET Nat /\ later \in SUBSET free /\ later \in SUBSET Nat
  BY MaxPeerIdAssumption DEF FreePeerIds, PeerIds
<1>5. IsFiniteSet(free) /\ IsFiniteSet(later)
  <2>1. IsFiniteSet(PeerIds) /\ free \in SUBSET PeerIds /\ later \in SUBSET PeerIds
    BY FS_Interval, MaxPeerIdAssumption DEF PeerIds, FreePeerIds
  <2> QED
    BY <2>1, FS_Subset
<1>2. room.next \in PeerIds
  BY DEF Room
<1>3. CASE room.next \notin Occupied(room)
  BY <1>2, <1>3 DEF NextPeerId, FreePeerIds
<1>4. CASE room.next \in Occupied(room)
  <2>1. NextPeerId(room) = IF later # {} THEN Min(later) ELSE Min(free)
    BY <1>4 DEF NextPeerId, ScanFrom
  <2>2. CASE later # {}
    BY <1>1, <1>5, <2>1, <2>2, MinOfNats
  <2>3. CASE later = {}
    BY <1>1, <1>5, <2>1, <2>3, MinOfNats
  <2> QED
    BY <2>2, <2>3
<1> QED
  BY <1>3, <1>4

\* next_peer_id changes nothing of the room but its counter.
LEMMA AdvanceKeepsSeats ==
  ASSUME NEW room \in Room
  PROVE  /\ AdvancePeerId(room) \in Room
         /\ AdvancePeerId(room) = [room EXCEPT !.next = AdvancePeerId(room).next]
<1>1. \A id \in PeerIds : [room EXCEPT !.next = id] \in Room
  BY DEF Room
<1>2. room.next \in PeerIds
  BY DEF Room
<1>3. CASE FreePeerIds(room) = {}
  <2> DEFINE id == SaturatingSucc(room.next)
  <2>1. id \in PeerIds /\ AdvancePeerId(room) = [room EXCEPT !.next = id]
    BY <1>2, <1>3, SuccIsPeerId DEF AdvancePeerId
  <2> QED
    BY <1>1, <2>1 DEF Room
<1>4. CASE FreePeerIds(room) # {}
  <2> DEFINE id == SaturatingSucc(NextPeerId(room))
  <2>1. NextPeerId(room) \in PeerIds
    BY <1>4, NextPeerIdIsFree DEF FreePeerIds
  <2>2. id \in PeerIds /\ AdvancePeerId(room) = [room EXCEPT !.next = id]
    BY <1>4, <2>1, SuccIsPeerId DEF AdvancePeerId
  <2> QED
    BY <1>1, <2>2 DEF Room
<1> QED
  BY <1>3, <1>4

\* next_available_side returns a side in range, and one that nobody in the room has
\* as long as one of the sides it tries is free (room.rs:135-154).
THEOREM NextAvailableSideIsFree ==
  ASSUME NEW room \in Room
  PROVE  /\ NextAvailableSide(room) \in Sides
         /\ SidesOf(room) \ UsedSides(room) # {} => NextAvailableSide(room) \notin UsedSides(room)
<1> DEFINE free == SidesOf(room) \ UsedSides(room)
<1>1. room.settings.max \in Nat
  BY MaxPlayerAssumption DEF Room, Settings
<1>2. SidesOf(room) \subseteq Sides /\ 0 \in Sides
  BY <1>1, SideCapAssumption DEF SidesOf, Sides
<1>3. free \in SUBSET Nat /\ IsFiniteSet(free)
  <2>1. IsFiniteSet(Sides) /\ free \in SUBSET Sides /\ Sides \in SUBSET Nat
    BY <1>2, FS_Interval, SideCapAssumption DEF Sides
  <2> QED
    BY <2>1, FS_Subset
<1>4. NextAvailableSide(room) = IF free = {} THEN 0 ELSE Min(free)
  BY DEF NextAvailableSide
<1>5. CASE free = {}
  BY <1>2, <1>4, <1>5
<1>6. CASE free # {}
  BY <1>2, <1>3, <1>4, <1>6, MinOfNats
<1> QED
  BY <1>5, <1>6

-----------------------------------------------------------------------------
(* Seats.  Every operation but joining leaves a room with seats it had: the *)
(* same ids with the same connections, accepted or pending.                *)

\* The room new has the code of the room old and no seat that old has not; a pending
\* seat may have become an accepted one.
SeatsWithin(new, old) ==
  /\ new \in Room
  /\ new.code = old.code
  /\ \A p \in PeerIds :
       /\ new.pending[p] \in {NoSeat, old.pending[p]}
       /\ \/ new.clients[p] \in {NoSeat, old.clients[p]}
          \/ new.clients[p] = old.pending[p] /\ new.pending[p] = NoSeat

\* Chained operations keep within the seats of the first room.
LEMMA WithinTransitive ==
  ASSUME NEW a, NEW b, NEW c, SeatsWithin(a, b), SeatsWithin(b, c)
  PROVE  SeatsWithin(a, c)
BY DEF SeatsWithin

\* Whoever sits in the later room sat in the earlier one, under the same id.
LEMMA WithinSits ==
  ASSUME NEW new, NEW old, SeatsWithin(new, old),
         NEW p \in PeerIds, NEW c \in Conns, Sits(new, p, c)
  PROVE  Sits(old, p, c)
BY DEF SeatsWithin, Sits, Peers

\* A room whose seats are those of another keeps within it.
LEMMA SameSeatsWithin ==
  ASSUME NEW old, NEW new \in Room, new.code = old.code,
         new.clients = old.clients, new.pending = old.pending
  PROVE  SeatsWithin(new, old)
BY DEF SeatsWithin

\* A fresh room is a room, and nobody sits in it.
LEMMA NewRoomIsEmpty ==
  ASSUME NEW code \in Codes \cup {NoCode}, NEW settings \in Settings
  PROVE  /\ NewRoom(code, settings) \in Room
         /\ NewRoom(code, settings).code = code
         /\ \A p, c : ~Sits(NewRoom(code, settings), p, c)
<1>1. NoSeats \in SeatMap /\ Peers(NoSeats) = {}
  BY DEF NoSeats, SeatMap, Peers
<1>2. 0 \in 0 .. MaxPeerId /\ 1 \in PeerIds
  BY MaxPeerIdAssumption DEF PeerIds
<1>3. NewRoom(code, settings) \in Room
  BY <1>1, <1>2 DEF NewRoom, Room
<1> QED
  BY <1>1, <1>3 DEF NewRoom, Sits

\* Removing peers from a seat map leaves the other seats as they were.
LEMMA WithoutKeepsOthers ==
  ASSUME NEW seats \in SeatMap, NEW gone
  PROVE  /\ Without(seats, gone) \in SeatMap
         /\ Peers(Without(seats, gone)) = Peers(seats) \ gone
         /\ \A p \in Peers(seats) \ gone : Without(seats, gone)[p] = seats[p]
BY DEF Without, SeatMap, Peers

\* Adding a seat adds its peer to the keys.
LEMMA WithAddsOne ==
  ASSUME NEW seats \in SeatMap, NEW peer \in PeerIds, NEW seat \in Seat
  PROVE  /\ With(seats, peer, seat) \in SeatMap
         /\ Peers(With(seats, peer, seat)) = Peers(seats) \cup {peer}
         /\ With(seats, peer, seat)[peer] = seat
         /\ \A p \in Peers(seats) \ {peer} : With(seats, peer, seat)[p] = seats[p]
BY NoSeatAssumption DEF With, SeatMap, Peers

\* The fields of a room that can be changed one by one.
LEMMA RoomFields ==
  ASSUME NEW room \in Room
  PROVE  /\ room.clients \in SeatMap /\ room.pending \in SeatMap
         /\ \A seats \in SeatMap : /\ [room EXCEPT !.clients = seats] \in Room
                                   /\ [room EXCEPT !.pending = seats] \in Room
         /\ \A peer \in 0 .. MaxPeerId : [room EXCEPT !.host = peer] \in Room
BY DEF Room

\* Removing accepted peers, and removing peers wherever they are.
LEMMA DropWithin ==
  ASSUME NEW room \in Room, NEW gone
  PROVE  /\ SeatsWithin([room EXCEPT !.clients = Without(@, gone)], room)
         /\ SeatsWithin([room EXCEPT !.pending = Without(@, gone)], room)
         /\ SeatsWithin(DropSeats(room, gone), room)
         /\ \A p \in gone : \A c : ~Sits(DropSeats(room, gone), p, c)
<1>1. /\ room.clients \in SeatMap /\ room.pending \in SeatMap
      /\ Without(room.clients, gone) \in SeatMap
      /\ Without(room.pending, gone) \in SeatMap
  BY RoomFields, WithoutKeepsOthers
<1>2. /\ [room EXCEPT !.clients = Without(@, gone)] \in Room
      /\ [room EXCEPT !.pending = Without(@, gone)] \in Room
      /\ DropSeats(room, gone) \in Room
  BY <1>1 DEF Room, DropSeats
<1>3. /\ [room EXCEPT !.clients = Without(@, gone)].clients = Without(room.clients, gone)
      /\ [room EXCEPT !.clients = Without(@, gone)].pending = room.pending
      /\ [room EXCEPT !.pending = Without(@, gone)].clients = room.clients
      /\ [room EXCEPT !.pending = Without(@, gone)].pending = Without(room.pending, gone)
      /\ DropSeats(room, gone).clients = Without(room.clients, gone)
      /\ DropSeats(room, gone).pending = Without(room.pending, gone)
      /\ [room EXCEPT !.clients = Without(@, gone)].code = room.code
      /\ [room EXCEPT !.pending = Without(@, gone)].code = room.code
      /\ DropSeats(room, gone).code = room.code
  BY DEF Room, DropSeats
<1>4. \A p \in PeerIds : /\ Without(room.clients, gone)[p] \in {NoSeat, room.clients[p]}
                         /\ Without(room.pending, gone)[p] \in {NoSeat, room.pending[p]}
  BY DEF Without
<1>5. \A p \in gone : /\ p \notin Peers(Without(room.clients, gone))
                      /\ p \notin Peers(Without(room.pending, gone))
  BY <1>1, WithoutKeepsOthers
<1> QED
  BY <1>2, <1>3, <1>4, <1>5 DEF SeatsWithin, Sits

\* Naming another host moves nobody.
LEMMA RehostedWithin ==
  ASSUME NEW room \in Room, NEW new \in Rehosted(room)
  PROVE  /\ SeatsWithin(new, room)
         /\ new.clients = room.clients /\ new.pending = room.pending
<1>1. PICK h \in 0 .. MaxPeerId : new = [room EXCEPT !.host = h]
  BY MaxPeerIdAssumption DEF Rehosted, Peers, PeerIds
<1> QED
  BY <1>1 DEF Room, SeatsWithin, Sits

\* Replacing a host that is gone moves nobody.
LEMMA FixHostWithin ==
  ASSUME NEW room \in Room, NEW gone, NEW new \in FixHost(room, gone)
  PROVE  /\ SeatsWithin(new, room)
         /\ new.clients = room.clients /\ new.pending = room.pending
<1>1. CASE new \in Rehosted(room)
  BY <1>1, RehostedWithin
<1>2. CASE new = room
  BY <1>2 DEF SeatsWithin
<1> QED
  BY <1>1, <1>2 DEF FixHost

\* broadcast_and_prune and broadcast_state_update_and_prune seat nobody.
LEMMA BroadcastWithin ==
  ASSUME NEW room \in Room, NEW closed,
         NEW new \in Broadcast(room, closed) \cup BroadcastState(room, closed)
  PROVE  SeatsWithin(new, room)
<1>1. CASE new \in Broadcast(room, closed)
  <2> DEFINE gone == SeatsSendingTo(room.clients, closed)
             kept == [room EXCEPT !.clients = Without(@, gone)]
  <2>1. SeatsWithin(kept, room) /\ new \in FixHost(kept, gone)
    BY <1>1, DropWithin DEF Broadcast
  <2>2. kept \in Room
    BY <2>1 DEF SeatsWithin
  <2> HIDE DEF gone, kept
  <2>3. SeatsWithin(new, kept)
    BY <2>1, <2>2, FixHostWithin
  <2> QED
    BY <2>1, <2>3, WithinTransitive
<1>2. CASE new \in BroadcastState(room, closed)
  <2> DEFINE gone == SeatsSendingTo(room.clients, closed)
                       \cup SeatsSendingTo(room.pending, closed)
             kept == DropSeats(room, gone)
  <2>1. SeatsWithin(kept, room) /\ new \in FixHost(kept, gone)
    BY <1>2, DropWithin DEF BroadcastState
  <2>2. kept \in Room
    BY <2>1 DEF SeatsWithin
  <2> HIDE DEF gone, kept
  <2>3. SeatsWithin(new, kept)
    BY <2>1, <2>2, FixHostWithin
  <2> QED
    BY <2>1, <2>3, WithinTransitive
<1> QED
  BY <1>1, <1>2

\* leave_room frees the seat of the peer that leaves and seats nobody, whoever it
\* makes host (mod.rs:388-403).
THEOREM LeftWithin ==
  ASSUME NEW room \in Room, NEW peer \in PeerIds, NEW closed,
         NEW new \in Left(room, peer, closed)
  PROVE  /\ SeatsWithin(new, room)
         /\ \A c \in Conns : ~Sits(new, peer, c)
<1> DEFINE dropped == DropSeats(room, {peer})
<1>1. SeatsWithin(dropped, room) /\ \A c \in Conns : ~Sits(dropped, peer, c)
  BY DropWithin
<1>2. PICK r \in Broadcast(dropped, closed) : new \in HandOver(r, peer)
  BY DEF Left
<1> HIDE DEF dropped
<1>3. SeatsWithin(r, dropped) /\ r \in Room
  <2>1. dropped \in Room
    BY <1>1 DEF SeatsWithin
  <2>2. SeatsWithin(r, dropped)
    BY <1>2, <2>1, BroadcastWithin
  <2> QED
    BY <2>2 DEF SeatsWithin
<1>4. SeatsWithin(new, r)
  BY <1>2, <1>3, RehostedWithin, SameSeatsWithin DEF HandOver
<1>5. SeatsWithin(new, dropped)
  BY <1>3, <1>4, WithinTransitive
<1> QED
  BY <1>1, <1>5, WithinTransitive, WithinSits

\* A joiner gets the seat it takes and changes no other (dispatch.rs:172-182).
THEOREM TakeSeatAddsOne ==
  ASSUME NEW room \in Room, NEW peer \in PeerIds, NEW seat \in Seat
  PROVE  /\ TakeSeat(room, peer, seat) \in Room
         /\ TakeSeat(room, peer, seat).code = room.code
         /\ \A p \in PeerIds, c \in Conns :
              Sits(TakeSeat(room, peer, seat), p, c) =>
                Sits(room, p, c) \/ (p = peer /\ c = seat.conn)
<1> DEFINE new == TakeSeat(room, peer, seat)
<1>1. /\ room.clients \in SeatMap /\ room.pending \in SeatMap
      /\ With(room.clients, peer, seat) \in SeatMap
      /\ With(room.pending, peer, seat) \in SeatMap
  BY RoomFields, WithAddsOne
<1>2. peer \in 0 .. MaxPeerId
  BY MaxPeerIdAssumption DEF PeerIds
<1>3. /\ new \in Room
      /\ new.code = room.code
      /\ \/ new.clients = With(room.clients, peer, seat) /\ new.pending = room.pending
         \/ new.pending = With(room.pending, peer, seat) /\ new.clients = room.clients
  <2>1. CASE Empty(room)
    BY <1>1, <1>2, <2>1 DEF TakeSeat, Room
  <2>2. CASE ~Empty(room) /\ room.settings.accept
    BY <1>1, <2>2 DEF TakeSeat, Room
  <2>3. CASE ~Empty(room) /\ ~room.settings.accept
    BY <1>1, <2>3 DEF TakeSeat, Room
  <2> QED
    BY <2>1, <2>2, <2>3
<1> QED
  BY <1>1, <1>3, WithAddsOne DEF Sits

\* A joiner gets its seat, and everybody keeps theirs.
LEMMA TakeSeatKeepsOthers ==
  ASSUME NEW room \in Room, NEW peer \in FreePeerIds(room), NEW seat \in Seat
  PROVE  \A p \in PeerIds, c \in Conns :
           Sits(TakeSeat(room, peer, seat), p, c) <=>
             Sits(room, p, c) \/ (p = peer /\ c = seat.conn)
<1> DEFINE new == TakeSeat(room, peer, seat)
<1>1. /\ peer \in PeerIds
      /\ peer \notin Peers(room.clients) /\ peer \notin Peers(room.pending)
      /\ room.clients \in SeatMap /\ room.pending \in SeatMap
      /\ With(room.clients, peer, seat) \in SeatMap
      /\ With(room.pending, peer, seat) \in SeatMap
  BY RoomFields, WithAddsOne DEF FreePeerIds, Occupied
<1>2. \/ new.clients = With(room.clients, peer, seat) /\ new.pending = room.pending
      \/ new.pending = With(room.pending, peer, seat) /\ new.clients = room.clients
  <2>1. CASE Empty(room)
    BY <1>1, <2>1 DEF TakeSeat, Room
  <2>2. CASE ~Empty(room) /\ room.settings.accept
    BY <1>1, <2>2 DEF TakeSeat, Room
  <2>3. CASE ~Empty(room) /\ ~room.settings.accept
    BY <1>1, <2>3 DEF TakeSeat, Room
  <2> QED
    BY <2>1, <2>2, <2>3
<1> QED
  BY <1>1, <1>2, WithAddsOne DEF Sits

-----------------------------------------------------------------------------
(* The host, and what a broadcast changes besides the seats.               *)

\* The host is an accepted client.
Hosted(room) == room.host \in Peers(room.clients)

\* A room with an accepted host keeps one as long as anybody accepted is left.
HostKept(new, old) == Hosted(old) /\ Peers(new.clients) # {} => Hosted(new)

\* No id is both an accepted and a pending peer's.
Apart(room) == Peers(room.clients) \cap Peers(room.pending) = {}

\* The two rooms differ at most in their seats and their host.
SameButSeats(new, old) ==
  /\ new.code = old.code /\ new.next = old.next /\ new.state = old.state
  /\ new.settings = old.settings /\ new.banned = old.banned

\* Replacing a host that is gone changes the host alone, and makes it an accepted
\* client if there is one.
LEMMA FixHostEffects ==
  ASSUME NEW room \in Room, NEW gone, NEW new \in FixHost(room, gone)
  PROVE  /\ SameButSeats(new, room)
         /\ new.clients = room.clients /\ new.pending = room.pending
         /\ room.host \notin gone => new.host = room.host
         /\ room.host \in gone /\ Peers(new.clients) # {} => Hosted(new)
<1>1. CASE room.host \notin gone
  BY <1>1 DEF FixHost, SameButSeats
<1>2. CASE room.host \in gone
  <2>1. new \in Rehosted(room)
    BY <1>2 DEF FixHost
  <2>2. PICK h \in 0 .. MaxPeerId : /\ new = [room EXCEPT !.host = h]
                                    /\ Peers(room.clients) # {} => h \in Peers(room.clients)
    BY <2>1, MaxPeerIdAssumption DEF Rehosted, Peers, PeerIds
  <2> QED
    BY <1>2, <2>2 DEF Room, SameButSeats, Hosted
<1> QED
  BY <1>1, <1>2

\* A broadcast takes seats only from closed connections, and gives a room whose host
\* it removes another one (room.rs:170-188, mod.rs:165-183).
LEMMA BroadcastEffects ==
  ASSUME NEW room \in Room, NEW closed, NEW new \in Broadcast(room, closed)
  PROVE  /\ SameButSeats(new, room)
         /\ HostKept(new, room)
         /\ ~Hosted(room) => new.host = room.host
         /\ new.pending = room.pending
         /\ Peers(new.clients) \subseteq Peers(room.clients)
         /\ \A p \in Peers(room.clients) : room.clients[p].conn \notin closed =>
              p \in Peers(new.clients) /\ new.clients[p] = room.clients[p]
<1> DEFINE gone == SeatsSendingTo(room.clients, closed)
           kept == [room EXCEPT !.clients = Without(@, gone)]
<1>1. kept \in Room /\ new \in FixHost(kept, gone)
  BY DropWithin DEF Broadcast, SeatsWithin
<1>2. /\ kept.clients = Without(room.clients, gone) /\ kept.pending = room.pending
      /\ kept.host = room.host /\ SameButSeats(kept, room)
      /\ room.clients \in SeatMap
  BY DEF Room, SameButSeats
<1>3. /\ Peers(kept.clients) = Peers(room.clients) \ gone
      /\ \A p \in Peers(room.clients) \ gone : kept.clients[p] = room.clients[p]
  BY <1>2, WithoutKeepsOthers
<1>4. gone = {p \in Peers(room.clients) : room.clients[p].conn \in closed}
  BY DEF SeatsSendingTo
<1> HIDE DEF kept, gone
<1>5. /\ SameButSeats(new, kept)
      /\ new.clients = kept.clients /\ new.pending = kept.pending
      /\ kept.host \notin gone => new.host = kept.host
      /\ kept.host \in gone /\ Peers(new.clients) # {} => Hosted(new)
  BY <1>1, FixHostEffects
<1> QED
  BY <1>2, <1>3, <1>4, <1>5 DEF SameButSeats, HostKept, Hosted

\* The broadcast of a state update does the same for pending peers too
\* (room.rs:190-214, mod.rs:187-205).
LEMMA BroadcastStateEffects ==
  ASSUME NEW room \in Room, NEW closed, NEW new \in BroadcastState(room, closed)
  PROVE  /\ SameButSeats(new, room)
         /\ HostKept(new, room)
         /\ Apart(room) =>
              \A p \in PeerIds : \A c : Sits(room, p, c) /\ c \notin closed => Sits(new, p, c)
<1> DEFINE gone == SeatsSendingTo(room.clients, closed) \cup SeatsSendingTo(room.pending, closed)
           kept == DropSeats(room, gone)
<1>1. kept \in Room /\ new \in FixHost(kept, gone)
  BY DropWithin DEF BroadcastState, SeatsWithin
<1>2. /\ kept.clients = Without(room.clients, gone)
      /\ kept.pending = Without(room.pending, gone)
      /\ kept.host = room.host /\ SameButSeats(kept, room)
      /\ room.clients \in SeatMap /\ room.pending \in SeatMap
  BY DEF Room, SameButSeats, DropSeats
<1>3. \A p \in gone : \/ p \in Peers(room.clients) /\ room.clients[p].conn \in closed
                      \/ p \in Peers(room.pending) /\ room.pending[p].conn \in closed
  BY DEF SeatsSendingTo
<1> HIDE DEF kept, gone
<1>4. /\ Peers(kept.clients) = Peers(room.clients) \ gone
      /\ \A p \in Peers(room.clients) \ gone : kept.clients[p] = room.clients[p]
      /\ Peers(kept.pending) = Peers(room.pending) \ gone
      /\ \A p \in Peers(room.pending) \ gone : kept.pending[p] = room.pending[p]
  BY <1>2, WithoutKeepsOthers
<1>5. /\ SameButSeats(new, kept)
      /\ new.clients = kept.clients /\ new.pending = kept.pending
      /\ kept.host \notin gone => new.host = kept.host
      /\ kept.host \in gone /\ Peers(new.clients) # {} => Hosted(new)
  BY <1>1, FixHostEffects
<1>6. SameButSeats(new, room) /\ HostKept(new, room)
  BY <1>2, <1>4, <1>5 DEF SameButSeats, HostKept, Hosted
<1>7. ASSUME Apart(room), NEW p \in PeerIds, NEW c, Sits(room, p, c), c \notin closed
      PROVE  Sits(new, p, c)
  <2>1. p \notin gone
    BY <1>3, <1>7 DEF Sits, Apart
  <2> QED
    BY <1>4, <1>5, <1>7, <2>1 DEF Sits
<1> QED
  BY <1>6, <1>7

\* A leave takes the leaver's seat and those of closed connections.  The room stays
\* hosted when the host leaves, and when its successor is closed too (mod.rs:388-403).
THEOREM LeftEffects ==
  ASSUME NEW room \in Room, NEW peer \in PeerIds, NEW closed,
         NEW new \in Left(room, peer, closed)
  PROVE  /\ SameButSeats(new, room)
         /\ HostKept(new, room)
         /\ \A p \in PeerIds \ {peer} :
              \A c : Sits(room, p, c) /\ c \notin closed => Sits(new, p, c)
<1> DEFINE dropped == DropSeats(room, {peer})
<1>1. PICK r \in Broadcast(dropped, closed) : new \in HandOver(r, peer)
  BY DEF Left
<1>2. dropped \in Room
  BY DropWithin DEF SeatsWithin
<1>3. /\ dropped.clients = Without(room.clients, {peer})
      /\ dropped.pending = Without(room.pending, {peer})
      /\ dropped.host = room.host /\ SameButSeats(dropped, room)
      /\ room.clients \in SeatMap /\ room.pending \in SeatMap
  BY DEF Room, SameButSeats, DropSeats
<1> HIDE DEF dropped
<1>4. /\ Peers(dropped.clients) = Peers(room.clients) \ {peer}
      /\ \A p \in Peers(room.clients) \ {peer} : dropped.clients[p] = room.clients[p]
      /\ Peers(dropped.pending) = Peers(room.pending) \ {peer}
      /\ \A p \in Peers(room.pending) \ {peer} : dropped.pending[p] = room.pending[p]
  BY <1>3, WithoutKeepsOthers
<1>5. r \in Room
  BY <1>1, <1>2, BroadcastWithin DEF SeatsWithin
<1>6. /\ SameButSeats(r, dropped) /\ HostKept(r, dropped)
      /\ ~Hosted(dropped) => r.host = dropped.host
      /\ r.pending = dropped.pending
      /\ Peers(r.clients) \subseteq Peers(dropped.clients)
      /\ \A p \in Peers(dropped.clients) : dropped.clients[p].conn \notin closed =>
           p \in Peers(r.clients) /\ r.clients[p] = dropped.clients[p]
  BY <1>1, <1>2, BroadcastEffects
<1>7. /\ SameButSeats(new, r) /\ new.clients = r.clients /\ new.pending = r.pending
      /\ \/ Hosted(new) 
         \/ new.host = r.host /\ (r.host # peer \/ Peers(r.clients) = {})
  <2>1. CASE new = r /\ ~(r.host = peer /\ Peers(r.clients) # {})
    BY <2>1 DEF SameButSeats
  <2>2. CASE new \in Rehosted(r) /\ r.host = peer /\ Peers(r.clients) # {}
    <3>1. PICK h \in Peers(r.clients) : new = [r EXCEPT !.host = h]
      BY <2>2 DEF Rehosted
    <3> QED
      BY <1>5, <3>1 DEF Room, SameButSeats, Hosted
  <2> QED
    BY <1>1, <2>1, <2>2 DEF HandOver
<1>8. HostKept(new, room)
  <2> SUFFICES ASSUME Hosted(room), Peers(new.clients) # {}, ~Hosted(new) PROVE FALSE
    BY DEF HostKept
  <2>1. new.host = r.host /\ r.host # peer /\ ~Hosted(r)
    BY <1>7 DEF Hosted
  <2>2. ~Hosted(dropped) /\ r.host = room.host
    BY <1>3, <1>6, <1>7, <2>1 DEF HostKept
  <2> QED
    BY <1>3, <1>4, <2>1, <2>2 DEF Hosted
<1>9. ASSUME NEW p \in PeerIds \ {peer}, NEW c, Sits(room, p, c), c \notin closed
      PROVE  Sits(new, p, c)
  <2>1. Sits(dropped, p, c)
    BY <1>4, <1>9 DEF Sits
  <2> QED
    BY <1>6, <1>7, <1>9, <2>1 DEF Sits
<1> QED
  BY <1>3, <1>6, <1>7, <1>8, <1>9 DEF SameButSeats

\* A joiner changes nothing but the seats, and the host of an empty room.
LEMMA TakeSeatEffects ==
  ASSUME NEW room \in Room, NEW peer \in FreePeerIds(room), NEW seat \in Seat
  PROVE  LET new == TakeSeat(room, peer, seat)
         IN  /\ SameButSeats(new, room)
             /\ HostKept(new, room)
             /\ new.host \in {room.host, peer}
             /\ Apart(room) => Apart(new)
             /\ Occupied(new) = Occupied(room) \cup {peer}
<1> DEFINE new == TakeSeat(room, peer, seat)
<1>1. /\ peer \in PeerIds
      /\ peer \notin Peers(room.clients) /\ peer \notin Peers(room.pending)
      /\ room.clients \in SeatMap /\ room.pending \in SeatMap
      /\ Peers(With(room.clients, peer, seat)) = Peers(room.clients) \cup {peer}
      /\ Peers(With(room.pending, peer, seat)) = Peers(room.pending) \cup {peer}
  BY RoomFields, WithAddsOne DEF FreePeerIds, Occupied
<1>2. /\ SameButSeats(new, room)
      /\ \/ /\ new.clients = With(room.clients, peer, seat) /\ new.pending = room.pending
            /\ new.host = room.host \/ (new.host = peer /\ Empty(room))
         \/ /\ new.pending = With(room.pending, peer, seat) /\ new.clients = room.clients
            /\ new.host = room.host
  <2>1. CASE Empty(room)
    BY <1>1, <2>1 DEF TakeSeat, Room, SameButSeats
  <2>2. CASE ~Empty(room) /\ room.settings.accept
    BY <1>1, <2>2 DEF TakeSeat, Room, SameButSeats
  <2>3. CASE ~Empty(room) /\ ~room.settings.accept
    BY <1>1, <2>3 DEF TakeSeat, Room, SameButSeats
  <2> QED
    BY <2>1, <2>2, <2>3
<1> HIDE DEF new
<1>3. HostKept(new, room) /\ new.host \in {room.host, peer}
  BY <1>1, <1>2 DEF HostKept, Hosted, Empty
<1>4. Apart(room) => Apart(new)
  BY <1>1, <1>2 DEF Apart
<1>5. Occupied(new) = Occupied(room) \cup {peer}
  BY <1>1, <1>2 DEF Occupied
<1> QED
  BY <1>2, <1>3, <1>4, <1>5 DEF new

-----------------------------------------------------------------------------
(* Counting seats.                                                         *)

\* Accepted and pending peers stay apart in a room whose seats another had.
LEMMA WithinApart ==
  ASSUME NEW new, NEW old, SeatsWithin(new, old), Apart(old)
  PROVE  Apart(new) /\ Occupied(new) \subseteq Occupied(old)
BY DEF SeatsWithin, Apart, Occupied, Peers

\* Ids are finitely many, so the seats of a room can be counted.
LEMMA SeatsAreFinite ==
  ASSUME NEW room \in Room
  PROVE  /\ IsFiniteSet(PeerIds) /\ Cardinality(PeerIds) = MaxPeerId
         /\ IsFiniteSet(Peers(room.clients)) /\ IsFiniteSet(Peers(room.pending))
         /\ IsFiniteSet(Occupied(room))
         /\ SeatCount(room) \in Nat
         /\ Apart(room) => SeatCount(room) = Cardinality(Occupied(room))
<1>1. IsFiniteSet(PeerIds) /\ Cardinality(PeerIds) = MaxPeerId
  BY FS_Interval, MaxPeerIdAssumption DEF PeerIds
<1>2. /\ Peers(room.clients) \in SUBSET PeerIds /\ Peers(room.pending) \in SUBSET PeerIds
      /\ Occupied(room) \in SUBSET PeerIds
  BY DEF Peers, Occupied
<1>3. /\ IsFiniteSet(Peers(room.clients)) /\ IsFiniteSet(Peers(room.pending))
      /\ IsFiniteSet(Occupied(room))
  BY <1>1, <1>2, FS_Subset
<1>4. Cardinality(Peers(room.clients)) \in Nat /\ Cardinality(Peers(room.pending)) \in Nat
  BY <1>3, FS_CardinalityType
<1>5. SeatCount(room) \in Nat
  BY <1>4 DEF SeatCount
<1>6. ASSUME Apart(room)
      PROVE  SeatCount(room) = Cardinality(Occupied(room))
  <2>1. Cardinality(Peers(room.clients) \cap Peers(room.pending)) = 0
    BY <1>6, FS_EmptySet DEF Apart
  <2>2. Cardinality(Occupied(room))
          = Cardinality(Peers(room.clients)) + Cardinality(Peers(room.pending)) - 0
    BY <1>3, <2>1, FS_Union DEF Occupied
  <2> QED
    BY <1>4, <2>2 DEF SeatCount
<1> QED
  BY <1>1, <1>3, <1>5, <1>6

\* A room whose seats another had has no more of them.
LEMMA WithinCount ==
  ASSUME NEW old \in Room, NEW new, SeatsWithin(new, old), Apart(old)
  PROVE  SeatCount(new) <= SeatCount(old)
<1>1. new \in Room /\ Apart(new) /\ Occupied(new) \subseteq Occupied(old)
  BY WithinApart DEF SeatsWithin
<1>2. Cardinality(Occupied(new)) <= Cardinality(Occupied(old))
  BY <1>1, SeatsAreFinite, FS_Subset
<1> QED
  BY <1>1, <1>2, SeatsAreFinite

\* A joiner adds one seat.
LEMMA TakeSeatCount ==
  ASSUME NEW room \in Room, NEW peer \in FreePeerIds(room), NEW seat \in Seat, Apart(room)
  PROVE  SeatCount(TakeSeat(room, peer, seat)) = SeatCount(room) + 1
<1> DEFINE new == TakeSeat(room, peer, seat)
<1>1. new \in Room /\ Apart(new) /\ Occupied(new) = Occupied(room) \cup {peer}
  BY TakeSeatAddsOne, TakeSeatEffects DEF FreePeerIds
<1> HIDE DEF new
<1>2. peer \notin Occupied(room)
  BY DEF FreePeerIds
<1>3. Cardinality(Occupied(new)) = Cardinality(Occupied(room)) + 1
  BY <1>1, <1>2, SeatsAreFinite, FS_AddElement
<1> QED
  BY <1>1, <1>3, SeatsAreFinite DEF new

-----------------------------------------------------------------------------
(* Sides.                                                                  *)

\* The side of peer p, and: no two peers of the room have the same.
SideAt(room, p) ==
  IF p \in Peers(room.clients) THEN room.clients[p].side ELSE room.pending[p].side
SidesApart(room) ==
  \A p, q \in Occupied(room) : SideAt(room, p) = SideAt(room, q) => p = q

\* As many sides are used as there are peers.
LEMMA SidesCounted ==
  ASSUME NEW room \in Room, Apart(room), SidesApart(room)
  PROVE  IsFiniteSet(UsedSides(room)) /\ Cardinality(UsedSides(room)) = SeatCount(room)
<1> DEFINE S == Occupied(room)
           T == UsedSides(room)
           f == [p \in S |-> SideAt(room, p)]
<1>1. f \in Surjection(S, T)
  <2>1. \A p \in S : SideAt(room, p) \in T
    BY DEF SideAt, UsedSides, Occupied
  <2>2. \A t \in T : \E p \in S : SideAt(room, p) = t
    BY DEF SideAt, UsedSides, Occupied, Apart
  <2> HIDE DEF S, T
  <2> QED
    BY <2>1, <2>2 DEF Surjection
<1>2. f \in Injection(S, T)
  <2>1. f \in [S -> T]
    BY <1>1 DEF Surjection
  <2>2. \A p, q \in S : f[p] = f[q] => p = q
    BY DEF SidesApart
  <2> HIDE DEF f, S, T
  <2> QED
    BY <2>1, <2>2 DEF Injection, IsInjective
<1>3. IsFiniteSet(S) /\ SeatCount(room) = Cardinality(S)
  BY SeatsAreFinite
<1> HIDE DEF S, T, f
<1>4. IsFiniteSet(T) /\ Cardinality(T) = Cardinality(S)
  BY <1>1, <1>2, <1>3, FS_Surjection
<1> QED
  BY <1>3, <1>4 DEF T

\* A room that lets somebody in and holds no more peers than there are sides has a free
\* one: is_full counts to max_players, next_available_side tries one side more.
LEMMA FreeSide ==
  ASSUME NEW room \in Room, Apart(room), SidesApart(room), ~IsFull(room),
         SeatCount(room) <= SideCap
  PROVE  NextAvailableSide(room) \notin UsedSides(room)
<1> DEFINE n == IF room.settings.max = 0 \/ room.settings.max > SideCap
                THEN SideCap ELSE room.settings.max
<1>1. room.settings.max \in Nat /\ SideCap \in Nat /\ n \in Nat
  BY MaxPlayerAssumption, SideCapAssumption DEF Room, Settings
<1>2. IsFiniteSet(UsedSides(room)) /\ Cardinality(UsedSides(room)) = SeatCount(room)
  BY SidesCounted
<1>3. SeatCount(room) <= n /\ SeatCount(room) \in Nat
  BY <1>1, SeatsAreFinite DEF IsFull
<1>4. SidesOf(room) = 0 .. n
  BY DEF SidesOf
<1> HIDE DEF n
<1>5. Cardinality(SidesOf(room)) = n + 1
  BY <1>1, <1>4, FS_Interval
<1>6. ASSUME SidesOf(room) \ UsedSides(room) = {}
      PROVE  FALSE
  <2>1. SidesOf(room) \in SUBSET UsedSides(room)
    BY <1>6
  <2>2. Cardinality(SidesOf(room)) <= Cardinality(UsedSides(room))
    BY <1>2, <2>1, FS_Subset
  <2> QED
    BY <1>1, <1>2, <1>3, <1>5, <2>2
<1> QED
  BY <1>6, NextAvailableSideIsFree

\* Peers that stay keep their side.
LEMMA WithinSidesApart ==
  ASSUME NEW old, NEW new, SeatsWithin(new, old), Apart(old), SidesApart(old)
  PROVE  SidesApart(new)
<1>1. \A p \in Occupied(new) : p \in Occupied(old) /\ SideAt(new, p) = SideAt(old, p)
  BY DEF SeatsWithin, Apart, Occupied, Peers, SideAt
<1> QED
  BY <1>1 DEF SidesApart

\* A joiner with a side of its own keeps sides apart.
LEMMA TakeSeatSidesApart ==
  ASSUME NEW room \in Room, NEW peer \in FreePeerIds(room), NEW seat \in Seat,
         Apart(room), SidesApart(room), seat.side \notin UsedSides(room)
  PROVE  SidesApart(TakeSeat(room, peer, seat))
<1> DEFINE new == TakeSeat(room, peer, seat)
<1>1. /\ peer \in PeerIds
      /\ peer \notin Peers(room.clients) /\ peer \notin Peers(room.pending)
      /\ room.clients \in SeatMap /\ room.pending \in SeatMap
      /\ Peers(With(room.clients, peer, seat)) = Peers(room.clients) \cup {peer}
      /\ Peers(With(room.pending, peer, seat)) = Peers(room.pending) \cup {peer}
      /\ \A p \in PeerIds :
           /\ With(room.clients, peer, seat)[p] = IF p = peer THEN seat ELSE room.clients[p]
           /\ With(room.pending, peer, seat)[p] = IF p = peer THEN seat ELSE room.pending[p]
  BY RoomFields, WithAddsOne DEF FreePeerIds, Occupied, With, SeatMap
<1>2. \/ new.clients = With(room.clients, peer, seat) /\ new.pending = room.pending
      \/ new.pending = With(room.pending, peer, seat) /\ new.clients = room.clients
  <2>1. CASE Empty(room)
    BY <1>1, <2>1 DEF TakeSeat, Room
  <2>2. CASE ~Empty(room) /\ room.settings.accept
    BY <1>1, <2>2 DEF TakeSeat, Room
  <2>3. CASE ~Empty(room) /\ ~room.settings.accept
    BY <1>1, <2>3 DEF TakeSeat, Room
  <2> QED
    BY <2>1, <2>2, <2>3
<1> HIDE DEF new
<1>3. Occupied(new) = Occupied(room) \cup {peer}
  BY <1>1, <1>2 DEF Occupied
<1>4. SideAt(new, peer) = seat.side
  BY <1>1, <1>2 DEF SideAt
<1>5. \A p \in Occupied(room) : /\ SideAt(new, p) = SideAt(room, p)
                                /\ SideAt(room, p) \in UsedSides(room)
  <2>1. \A p \in Occupied(room) : p \in PeerIds /\ p # peer
    BY <1>1 DEF Occupied, Peers
  <2>2. \A p \in Occupied(room) : SideAt(new, p) = SideAt(room, p)
    BY <1>1, <1>2, <2>1 DEF SideAt, Occupied
  <2>3. \A p \in Occupied(room) : SideAt(room, p) \in UsedSides(room)
    BY DEF SideAt, UsedSides, Occupied
  <2> QED
    BY <2>2, <2>3
<1> QED
  BY <1>3, <1>4, <1>5 DEF SidesApart, new

=============================================================================
