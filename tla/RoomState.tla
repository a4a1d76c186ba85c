----------------------------- MODULE RoomState -----------------------------
(***************************************************************************)
(* One room as a value (server/src/room/room.rs): its record and the       *)
(* operators that read or change it while the caller holds its mutex.  The *)
(* module has no variables: RoomRegistry applies these operators to the    *)
(* rooms that its connections share.                                       *)
(*                                                                         *)
(* What is abstracted: names, password text and state bytes.  A state is   *)
(* represented by the connection whose move wrote it, a password by        *)
(* whether one is set.  Sending is left out except for what it changes in  *)
(* the room: a broadcast removes the seats whose channel is closed.  The   *)
(* iteration order of HashMap is arbitrary, so an operator whose result    *)
(* depends on it returns the set of its possible results.                  *)
(***************************************************************************)
EXTENDS Naturals, FiniteSets, FiniteSetsExt

CONSTANTS
  Conns,        \* the connections; a seat points to the one that it sends to
  Hashes,       \* client hashes, by which a ban recognises a client
  Codes,        \* room codes
  NoConn,       \* author of the state of a room that no move has written
  NoSeat,       \* what a seat map holds for an id that is no key of it
  NoCode,       \* code of a room object that does not exist
  MaxPeerId,    \* the largest peer id (u32::MAX in the code)
  SideCap,      \* the largest side (255 in the code)
  MaxPlayerSet  \* the values a settings record may give max_players and min_players

ASSUME MaxPeerIdAssumption == MaxPeerId \in Nat \ {0}
ASSUME SideCapAssumption == SideCap \in Nat \ {0}
ASSUME MaxPlayerAssumption == MaxPlayerSet \subseteq Nat
ASSUME NoConnAssumption == NoConn \notin Conns
ASSUME NoCodeAssumption == NoCode \notin Codes

PeerIds == 1 .. MaxPeerId
Sides == 0 .. SideCap

Settings == [max : MaxPlayerSet, min : MaxPlayerSet, public : BOOLEAN,
             locked : BOOLEAN, accept : BOOLEAN]

\* A ClientInfo: the channel of conn stands for tx.
Seat == [conn : Conns, hash : Hashes, side : Sides]
ASSUME NoSeatAssumption == NoSeat \notin Seat
SeatMap == [PeerIds -> Seat \cup {NoSeat}]

\* The keys of a seat map.
Peers(seats) == {p \in PeerIds : seats[p] # NoSeat}

\* host = 0 is the code's "no host"; state = NoConn until the first move.
Room == [code : Codes \cup {NoCode}, host : 0 .. MaxPeerId,
         clients : SeatMap, pending : SeatMap, settings : Settings,
         banned : SUBSET Hashes, next : PeerIds, state : Conns \cup {NoConn}]

NoSeats == [p \in PeerIds |-> NoSeat]

NewRoom(code, settings) ==
  [code |-> code, host |-> 0, clients |-> NoSeats, pending |-> NoSeats,
   settings |-> settings, banned |-> {}, next |-> 1, state |-> NoConn]

-----------------------------------------------------------------------------
(* Who sits where.                                                         *)

Occupied(room) == Peers(room.clients) \cup Peers(room.pending)
Empty(room) == Peers(room.clients) = {} /\ Peers(room.pending) = {}

\* The seat with this id belongs to conn, accepted or pending.
Sits(room, peer, conn) ==
  \/ peer \in Peers(room.clients) /\ room.clients[peer].conn = conn
  \/ peer \in Peers(room.pending) /\ room.pending[peer].conn = conn

SeatCount(room) ==
  Cardinality(Peers(room.clients)) + Cardinality(Peers(room.pending))

UsedSides(room) == {room.clients[p].side : p \in Peers(room.clients)}
                     \cup {room.pending[p].side : p \in Peers(room.pending)}

\* Mutant: one peer too many is let in.
IsFullOffByOne(room) == room.settings.max # 0 /\ SeatCount(room) > room.settings.max

IsFull(room) == room.settings.max # 0 /\ SeatCount(room) >= room.settings.max
IsBanned(room, hash) == hash \in room.banned

-----------------------------------------------------------------------------
(* Allocation of peer ids and sides.                                       *)

\* Mutant: the counter runs over.
SuccUnchecked(id) == id + 1

SaturatingSucc(id) == IF id = MaxPeerId THEN MaxPeerId ELSE id + 1

\* The free id that the scan start..MAX, then 1..start-1 meets first.
ScanFrom(start, free) ==
  LET later == {id \in free : id >= start}
  IN  IF later # {} THEN Min(later) ELSE Min(free)

FreePeerIds(room) == PeerIds \ Occupied(room)

\* Mutant: ids of peers that are gone are given out again.
NextPeerIdLowest(room) == Min(FreePeerIds(room))

\* Mutant: the counter is trusted, though it no longer moves at MaxPeerId.
NextPeerIdUnscanned(room) == room.next

\* The id that next_peer_id returns; asked only when FreePeerIds(room) # {}.
NextPeerId(room) ==
  IF room.next \notin Occupied(room) THEN room.next
  ELSE ScanFrom(SaturatingSucc(room.next), FreePeerIds(room))

\* next_peer_id leaves its counter after the id it hands out, also when it hands
\* out none.
AdvancePeerId(room) ==
  IF FreePeerIds(room) = {} THEN [room EXCEPT !.next = SaturatingSucc(@)]
  ELSE [room EXCEPT !.next = SaturatingSucc(NextPeerId(room))]

\* Sides are tried from 0 to max_players, both included.
SidesOf(room) ==
  0 .. (IF room.settings.max = 0 \/ room.settings.max > SideCap
        THEN SideCap ELSE room.settings.max)

\* Mutant: the number of peers serves as the next side.
NextAvailableSideByCount(room) ==
  IF SeatCount(room) \in SidesOf(room) THEN SeatCount(room) ELSE 0

NextAvailableSide(room) ==
  LET free == SidesOf(room) \ UsedSides(room)
  IN  IF free = {} THEN 0 ELSE Min(free)

-----------------------------------------------------------------------------
(* Changes to the seats.                                                   *)

Without(seats, peers) == [p \in PeerIds |-> IF p \in peers THEN NoSeat ELSE seats[p]]
With(seats, peer, seat) == [seats EXCEPT ![peer] = seat]

DropSeats(room, peers) ==
  [room EXCEPT !.clients = Without(@, peers), !.pending = Without(@, peers)]

\* The first joiner of an empty room hosts it; later ones wait when the settings
\* ask for it.
TakeSeat(room, peer, seat) ==
  IF Empty(room)
  THEN [room EXCEPT !.host = peer, !.clients = With(@, peer, seat)]
  ELSE IF room.settings.accept
  THEN [room EXCEPT !.pending = With(@, peer, seat)]
  ELSE [room EXCEPT !.clients = With(@, peer, seat)]

\* The host becomes any accepted client, or nobody.
Rehosted(room) ==
  IF Peers(room.clients) = {} THEN {[room EXCEPT !.host = 0]}
  ELSE {[room EXCEPT !.host = p] : p \in Peers(room.clients)}

\* Mutant: the host is not looked at.
FixHostNever(room, gone) == {room}

\* The peers in gone have been removed; a host among them is replaced.  In the code
\* a choice may fall on a peer that is about to be removed, and is then repeated.
FixHost(room, gone) == IF room.host \in gone THEN Rehosted(room) ELSE {room}

SeatsSendingTo(seats, conns) == {p \in Peers(seats) : seats[p].conn \in conns}

\* broadcast_and_prune: accepted clients whose channel is closed are removed.
Broadcast(room, closed) ==
  LET gone == SeatsSendingTo(room.clients, closed)
  IN  FixHost([room EXCEPT !.clients = Without(@, gone)], gone)

\* broadcast_state_update_and_prune reaches, and removes, the pending peers too.
BroadcastState(room, closed) ==
  LET gone == SeatsSendingTo(room.clients, closed)
                \cup SeatsSendingTo(room.pending, closed)
  IN  FixHost(DropSeats(room, gone), gone)

\* leave_room after its first broadcast: a leaving host hands the room to any
\* accepted client; if there is none the room keeps naming the one that left.
HandOver(room, peer) ==
  IF room.host = peer /\ Peers(room.clients) # {} THEN Rehosted(room)
  ELSE {room}

\* Mutant: only the accepted clients are searched for the leaver.
LeftAccepted(room, peer, closed) ==
  UNION {HandOver(r, peer) :
           r \in Broadcast([room EXCEPT !.clients = Without(@, {peer})], closed)}

\* The locked part of leave_room.
Left(room, peer, closed) ==
  UNION {HandOver(r, peer) : r \in Broadcast(DropSeats(room, {peer}), closed)}

=============================================================================
