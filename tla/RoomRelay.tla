----------------------------- MODULE RoomRelay -----------------------------
(***************************************************************************)
(* What the members of one room are told, and what their clients make of   *)
(* it.  Each connection has a task that dispatches its requests            *)
(* (server/src/server/dispatch.rs), messages in its outgoing queue and on  *)
(* their way back, and a client that applies them to its view of the room  *)
(* (clients/cpp/src/roomie_client.cpp).                                    *)
(*                                                                         *)
(* A handler changes the room and sends to other members under the room's  *)
(* mutex; what it answers to the sender goes into the sender's queue after *)
(* the mutex is released, as a step of its own.  Lookup and section are one *)
(* step here: RoomRegistry tells them apart.  A state is a number, 0 if it *)
(* has no bytes.  The queue and the network after it are one bounded       *)
(* sequence, and it is not drained within a section.  A request is read    *)
(* when it is sent: that it acts on an old view is due to the messages     *)
(* that have not arrived yet.                                              *)
(***************************************************************************)
EXTENDS RoomState, SequencesExt

CONSTANTS
  SettingsChoices,  \* what the settings of the room may be
  HashOf,           \* the hash each connection's client presents
  Requests,         \* types of the requests that clients use, and "Abort"
  Capacity,         \* CHANNEL_CAPACITY
  MaxRequests,      \* bound: requests sent
  MaxBlob           \* bound: how many different states a move may carry, the empty one aside

ASSUME SettingsChoicesAssumption == SettingsChoices \subseteq Settings
ASSUME HashOfAssumption == HashOf \in [Conns -> Hashes]
ASSUME CapacityAssumption == Capacity \in Nat \ {0}
\* Peer ids do not run out: each request takes one at most, and the creator has one.
ASSUME MaxRequestsAssumption == MaxRequests \in Nat /\ MaxRequests + 1 < MaxPeerId
ASSUME MaxBlobAssumption == MaxBlob \in Nat

VARIABLES
  room,        \* the room
  registered,  \* the pool still has it
  sess,        \* peer id in a connection's session, 0 without one
  joining,     \* connections whose Hello has left the old seat and seeks a new one
  reply,       \* what dispatch has returned and the loop has not queued yet
  outbox,      \* messages queued or on their way, per connection
  view,        \* what each client believes
  missed,      \* history: types of the messages about its place that a connection
               \* was not given, or was given ahead of an older answer; and "Crossed"
               \* if a request of its own crossed the room it was given or shown
  closed,      \* connections that are gone
  asked        \* bound: requests sent so far

vars == <<room, registered, sess, joining, reply, outbox, view, missed, closed, asked>>

-----------------------------------------------------------------------------
(* Requests, messages and views.                                           *)

Joined(peer, host, state) ==
  [type |-> "Joined", peer |-> peer, host |-> host, state |-> state]
StateUpdate(state) == [type |-> "StateUpdate", state |-> state]
PeerMessage(type, peer) == [type |-> type, peer |-> peer]  \* PeerJoined, PeerLeft, HostTransferred
Kicked == [type |-> "Kicked"]      \* Kicked and Banned, which no client treats apart
SettingsChanged == [type |-> "SettingsChanged"]
Answer == [type |-> "Answer"]      \* MoveAccepted, MoveRejected, Error

PeerIdOrNone == 0 .. MaxPeerId
States == 0 .. MaxBlob
Message ==
  [type : {"Joined"}, peer : PeerIds, host : PeerIdOrNone, state : States]
    \cup [type : {"StateUpdate"}, state : States]
    \cup [type : {"PeerJoined", "PeerLeft", "HostTransferred"}, peer : PeerIds]
    \cup {Kicked, SettingsChanged, Answer}
MessageTypes == {"Joined", "StateUpdate", "PeerJoined", "PeerLeft", "HostTransferred",
                 "Kicked", "SettingsChanged", "Answer"}
Gaps == MessageTypes \cup {"Crossed"}

PeerRequests == {"AcceptPeer", "DenyPeer", "Kick", "Ban", "TransferHost"}
SettingsRequests == {"UpdateSettings", "SetPublic"}

\* room_code, peer_id and host_peer_id of a client; the state and the peers its
\* application was told of.
View == [in : BOOLEAN, peer : PeerIdOrNone, host : PeerIdOrNone, state : States,
         roster : SUBSET PeerIds]
Inside(peer, host, state) ==
  [in |-> TRUE, peer |-> peer, host |-> host, state |-> state, roster |-> {}]
Outside == [in |-> FALSE, peer |-> 0, host |-> 0, state |-> 0, roster |-> {}]

\* The room once its creator has it.
CreatedBy(c, settings) ==
  TakeSeat(AdvancePeerId([NewRoom(NoCode, settings) EXCEPT !.state = 0]), 1,
           [conn |-> c, hash |-> HashOf[c], side |-> 0])

Init ==
  \E creator \in Conns, settings \in SettingsChoices :
    /\ room = CreatedBy(creator, settings)
    /\ registered = TRUE
    /\ sess = [c \in Conns |-> IF c = creator THEN 1 ELSE 0]
    /\ joining = {}
    /\ reply = [c \in Conns |-> <<>>]
    /\ outbox = [c \in Conns |-> <<>>]
    /\ view = [c \in Conns |-> IF c = creator THEN Inside(1, 1, 0) ELSE Outside]
    /\ missed = [c \in Conns |-> {}]
    /\ closed = {}
    /\ asked = 0

-----------------------------------------------------------------------------
(* Sending.  try_send drops what does not fit.                             *)

Members(seats) == {seats[p].conn : p \in Peers(seats)} \ closed
Types(msgs) == {msgs[i].type : i \in DOMAIN msgs}

\* Room left in the queue of c.
Space(c) == Capacity - Len(outbox[c])

\* Mutant: the queue takes everything.
FittingAll(c, msgs) == msgs

Fitting(c, msgs) == SubSeq(msgs, 1, Min({Space(c), Len(msgs)}))
Dropped(c, msgs) == SubSeq(msgs, Min({Space(c), Len(msgs)}) + 1, Len(msgs))

\* Messages that get into the queue of c before the answer which dispatch built
\* earlier: all of them before Joined, a newer state before a StateUpdate.
Overtaking(c, msgs) ==
  IF "Joined" \in Types(reply[c]) THEN Types(msgs)
  ELSE Types(msgs) \cap Types(reply[c]) \cap {"StateUpdate"}

\* What each connection is sent when all members of r get msgs, the accepted ones
\* also news, and before that each connection what extra holds for it.
Sent(r, msgs, news, extra) ==
  [c \in Conns |->
     extra[c] \o (IF c \in Members(r.clients) \cup Members(r.pending) THEN msgs ELSE <<>>)
              \o (IF c \in Members(r.clients) THEN news ELSE <<>>)]

QueuesWith(sent) == [c \in Conns |-> outbox[c] \o Fitting(c, sent[c])]

\* A pending peer misses the news for the accepted ones.
MissedOf(r, sent, news) ==
  [c \in Conns |->
     missed[c] \cup Types(Dropped(c, sent[c])) \cup Overtaking(c, sent[c])
       \cup (IF c \in Members(r.pending) THEN Types(news) ELSE {})]

Tells(r, msgs, news, extra) ==
  LET sent == Sent(r, msgs, news, extra)
  IN  outbox' = QueuesWith(sent) /\ missed' = MissedOf(r, sent, news)

NoExtra == [c \in Conns |-> <<>>]
Only(conn, msg) == [c \in Conns |-> IF c = conn THEN <<msg>> ELSE <<>>]

\* Mutant: the host that replaces a dead one is not announced.
AftermathHostless(before, after) ==
  LET gone == SetToSeq(Occupied(before) \ Occupied(after))
  IN  [i \in DOMAIN gone |-> PeerMessage("PeerLeft", gone[i])]

\* What the accepted clients hear after a broadcast to the room before left it as
\* after: who was found dead, in some order, and who replaces a dead host.
Aftermath(before, after) ==
  LET gone == SetToSeq(Occupied(before) \ Occupied(after))
  IN  [i \in DOMAIN gone |-> PeerMessage("PeerLeft", gone[i])]
        \o (IF after.host \notin {before.host, 0}
            THEN <<PeerMessage("HostTransferred", after.host)>> ELSE <<>>)

\* The room becomes one of those in which a broadcast of msg to the accepted clients
\* of r may result.
Broadcasts(r, msg, extra) ==
  \E after \in Broadcast(r, closed) :
    /\ room' = after
    /\ Tells(after, <<>>, <<msg>> \o Aftermath(r, after), extra)

\* What was missed when c gives up its seat: it is crossed if its client still shows
\* the room, or will by a Joined on its way.
Crossing(c, gaps) ==
  [gaps EXCEPT ![c] = IF view'[c].in \/ "Joined" \in Types(outbox[c])
                      THEN @ \cup {"Crossed"} ELSE @ \ {"Crossed"}]

\* leave_room for c, which has this peer id.
Vacates(c, peer) ==
  \E after \in Left(room, peer, closed) :
    LET news == <<PeerMessage("PeerLeft", peer)>>
                  \o Aftermath(DropSeats(room, {peer}), after)
        sent == Sent(after, <<>>, news, NoExtra)
    IN  /\ room' = after
        /\ registered' = ~Empty(after)
        /\ outbox' = QueuesWith(sent)
        /\ missed' = Crossing(c, MissedOf(after, sent, news))

-----------------------------------------------------------------------------
(* The client asks.  Whatever it shows, it sends what its application asks *)
(* for: all it needs is a connection.                                      *)

\* Mutant: leaving does not reset the ids.
AfterSendingStale(v, type) == IF type = "Leave" THEN [v EXCEPT !.in = FALSE] ELSE v

\* leave_room resets the session once it is sent.
AfterSending(v, type) == IF type = "Leave" THEN Outside ELSE v

-----------------------------------------------------------------------------
(* The server: one request at a time for each connection.                  *)

\* The client of c sends this request and its task reads it.
Asks(c, type) ==
  /\ c \notin closed \cup joining
  /\ reply[c] = <<>>
  /\ type \in Requests
  /\ asked < MaxRequests
  /\ asked' = asked + 1
  /\ view' = [view EXCEPT ![c] = AfterSending(@, type)]
  /\ UNCHANGED closed

Answers(c, msgs) == reply' = [reply EXCEPT ![c] = msgs]
Silent == UNCHANGED <<outbox, missed>>

LeavesOldSeat(c) ==
  IF sess[c] # 0 /\ registered THEN Vacates(c, sess[c])
  ELSE missed' = Crossing(c, missed) /\ UNCHANGED <<outbox, room, registered>>

\* A Hello of a client that has a seat, perhaps without knowing: it leaves, and seeks a
\* new seat in a later section.  Its view stays as it is.
BeginHello(c) ==
  /\ sess[c] # 0
  /\ Asks(c, "Hello")
  /\ LeavesOldSeat(c)
  /\ sess' = [sess EXCEPT ![c] = 0]
  /\ joining' = joining \cup {c}
  /\ UNCHANGED reply

\* The task of c seeks a seat: it has left the old one, or reads a Hello without one.
Enters(c) ==
  /\ \/ c \in joining /\ UNCHANGED <<view, closed, asked>>
     \/ sess[c] = 0 /\ Asks(c, "Hello")
  /\ joining' = joining \ {c}
  /\ UNCHANGED registered

Refuses(c) ==
  ~registered \/ IsBanned(room, HashOf[c]) \/ IsFull(room)

JoinRefused(c) ==
  /\ Refuses(c)
  /\ Enters(c)
  /\ Answers(c, <<Answer>>)
  /\ Silent
  /\ UNCHANGED <<room, sess>>

\* Mutant: the joiner is not told the state.
JoinedWithoutState(r, peer) == Joined(peer, r.host, 0)

\* The answer to the peer just seated in r.
JoinedOf(r, peer) == Joined(peer, r.host, r.state)

\* Only a peer that need not wait is announced, to those accepted before it.
NewsOfJoin(peer, after) ==
  IF peer \in Peers(after.clients) THEN <<PeerMessage("PeerJoined", peer)>> ELSE <<>>

Join(c) ==
  /\ ~Refuses(c)
  /\ Enters(c)
  /\ LET peer == NextPeerId(room)
         seat == [conn |-> c, hash |-> HashOf[c], side |-> NextAvailableSide(room)]
         after == TakeSeat(AdvancePeerId(room), peer, seat)
         news == NewsOfJoin(peer, after)
         sent == Sent(room, <<>>, news, NoExtra)
     IN  /\ room' = after
         /\ sess' = [sess EXCEPT ![c] = peer]
         /\ Answers(c, <<JoinedOf(after, peer)>>)
         /\ outbox' = QueuesWith(sent)
         /\ missed' = [MissedOf(room, sent, news) EXCEPT ![c] = {}]

Leave(c) ==
  /\ Asks(c, "Leave")
  /\ LeavesOldSeat(c)
  /\ sess' = [sess EXCEPT ![c] = 0]
  /\ Answers(c, IF sess[c] = 0 THEN <<Answer>> ELSE <<>>)
  /\ UNCHANGED joining

\* The loop queues what dispatch has returned.
QueueReply(c) ==
  /\ c \notin closed
  /\ reply[c] # <<>>
  /\ outbox' = [outbox EXCEPT ![c] = @ \o Fitting(c, reply[c])]
  /\ missed' = [missed EXCEPT ![c] = @ \cup Types(Dropped(c, reply[c]))]
  /\ reply' = [reply EXCEPT ![c] = <<>>]
  /\ UNCHANGED <<room, registered, sess, joining, view, closed, asked>>

\* A request from inside a room that is answered by msgs and changes nothing.
OnlyAnswers(c, msgs) == Answers(c, msgs) /\ Silent /\ UNCHANGED room

IsHost(c) == registered /\ sess[c] # 0 /\ room.host = sess[c]

\* No session: an error.  No such room: nothing at all.
RefusalOf(c) == IF sess[c] # 0 /\ ~registered THEN <<>> ELSE <<Answer>>

Move(c) ==
  /\ Asks(c, "Move")
  /\ IF IsHost(c) /\ Cardinality(Peers(room.clients)) >= room.settings.min
     THEN \E blob \in States :
            LET moved == [room EXCEPT !.state = blob]
            IN  /\ \E after \in BroadcastState(moved, closed) :
                     /\ room' = after
                     /\ Tells(after, <<StateUpdate(blob)>>, Aftermath(moved, after), NoExtra)
                /\ Answers(c, <<Answer>>)
     ELSE OnlyAnswers(c, RefusalOf(c))
  /\ UNCHANGED <<registered, sess, joining>>

RequestState(c) ==
  /\ Asks(c, "RequestState")
  /\ OnlyAnswers(c, IF sess[c] # 0 /\ registered /\ room.state # 0
                    THEN <<StateUpdate(room.state)>> ELSE <<>>)
  /\ UNCHANGED <<registered, sess, joining>>

AcceptPeer(c, p) ==
  IF p \in Peers(room.pending)
  THEN Broadcasts([room EXCEPT !.pending = Without(@, {p}),
                               !.clients = With(@, p, room.pending[p])],
                  PeerMessage("PeerJoined", p), NoExtra)
  ELSE Silent /\ UNCHANGED room

DenyPeer(c, p) ==
  IF p \in Peers(room.pending)
  THEN LET denied == [room EXCEPT !.pending = Without(@, {p})]
       IN  /\ room' = denied
           /\ Tells(denied, <<>>, <<>>, Only(room.pending[p].conn, Kicked))
  ELSE Silent /\ UNCHANGED room

\* Mutant: the others are not told.
KickQuietly(c, p, banned) ==
  LET r == [room EXCEPT !.clients = Without(@, {p}), !.banned = @ \cup banned]
  IN  /\ room' = r
      /\ Tells(r, <<>>, <<>>, IF p \in Peers(room.clients)
                              THEN Only(room.clients[p].conn, Kicked) ELSE NoExtra)

\* Kick, and Ban with the hashes that are banned.
Kick(c, p, banned) ==
  Broadcasts([room EXCEPT !.clients = Without(@, {p}), !.banned = @ \cup banned],
             PeerMessage("PeerLeft", p),
             IF p \in Peers(room.clients)
             THEN Only(room.clients[p].conn, Kicked) ELSE NoExtra)

HashesOf(p) == IF p \in Peers(room.clients) THEN {room.clients[p].hash} ELSE {}

TransferHost(c, p) ==
  IF p \in Peers(room.clients)
  THEN Broadcasts([room EXCEPT !.host = p], PeerMessage("HostTransferred", p), NoExtra)
  ELSE Silent /\ UNCHANGED room

UpdateSettings(c, settings) ==
  Broadcasts([room EXCEPT !.settings = settings], SettingsChanged, NoExtra)

SetPublic(c, public) ==
  /\ room' = [room EXCEPT !.settings.public = public]
  /\ Silent

\* RoomControl from the host about the settings; from anybody else it is refused.
SettingsControl(c, type, settings) ==
  /\ Asks(c, type)
  /\ IF ~IsHost(c) THEN OnlyAnswers(c, RefusalOf(c))
     ELSE /\ IF type = "UpdateSettings" THEN UpdateSettings(c, settings)
             ELSE SetPublic(c, settings.public)
          /\ UNCHANGED reply
  /\ UNCHANGED <<registered, sess, joining>>

\* RoomControl from the host about a peer.
RoomControl(c, type, p) ==
  /\ Asks(c, type)
  /\ p < room.next
  /\ IF ~IsHost(c) THEN OnlyAnswers(c, RefusalOf(c))
     ELSE /\ CASE type = "AcceptPeer" -> AcceptPeer(c, p)
               [] type = "DenyPeer" -> DenyPeer(c, p)
               [] type = "Kick" -> Kick(c, p, {})
               [] type = "Ban" -> Kick(c, p, HashesOf(p))
               [] type = "TransferHost" -> TransferHost(c, p)
          /\ UNCHANGED reply
  /\ UNCHANGED <<registered, sess, joining>>

\* The task is dropped where it waits: the queue closes, the seat stays.
Abort(c) ==
  /\ c \notin closed
  /\ "Abort" \in Requests
  /\ sess[c] # 0 /\ reply[c] = <<>>
  /\ closed' = closed \cup {c}
  /\ outbox' = [outbox EXCEPT ![c] = <<>>]
  /\ view' = [view EXCEPT ![c] = Outside]
  /\ UNCHANGED <<room, registered, sess, joining, reply, missed, asked>>

-----------------------------------------------------------------------------
(* The client receives.                                                    *)

\* decode_and_dispatch, and an application that keeps what its callbacks are told.  An
\* update without bytes is not passed on.
Applied(v, m) ==
  CASE m.type = "Joined" -> Inside(m.peer, m.host, m.state)
    [] m.type = "HostTransferred" -> [v EXCEPT !.host = m.peer]
    [] m.type = "StateUpdate" /\ m.state # 0 -> [v EXCEPT !.state = m.state]
    [] m.type = "PeerJoined" -> [v EXCEPT !.roster = @ \cup {m.peer}]
    [] m.type = "PeerLeft" -> [v EXCEPT !.roster = @ \ {m.peer}]
    [] OTHER -> v

\* poll applies all that has arrived.  What is still on its way when a client acts
\* may as well be sent after its last poll.
Poll(c) ==
  /\ outbox[c] # <<>>
  /\ view' = [view EXCEPT ![c] = FoldLeft(Applied, @, outbox[c])]
  /\ outbox' = [outbox EXCEPT ![c] = <<>>]
  /\ UNCHANGED <<room, registered, sess, joining, reply, missed, closed, asked>>

Next ==
  \E c \in Conns :
    \/ BeginHello(c) \/ Join(c) \/ JoinRefused(c) \/ Leave(c) \/ QueueReply(c)
    \/ Move(c) \/ RequestState(c)
    \/ \E type \in PeerRequests, p \in PeerIds : RoomControl(c, type, p)
    \/ \E type \in SettingsRequests, settings \in SettingsChoices :
         SettingsControl(c, type, settings)
    \/ Abort(c)
    \/ Poll(c)

Spec == Init /\ [][Next]_vars

-----------------------------------------------------------------------------
(* Properties.                                                             *)

\* The variables keep to their types; no queue holds more than its capacity.
TypeOK ==
  /\ [room EXCEPT !.state = NoConn] \in Room
  /\ room.state \in States
  /\ registered \in BOOLEAN
  /\ sess \in [Conns -> PeerIdOrNone]
  /\ joining \subseteq Conns
  /\ closed \subseteq Conns
  /\ asked \in 0 .. MaxRequests
  /\ \A c \in Conns :
       /\ view[c] \in View
       /\ missed[c] \subseteq Gaps
       /\ Len(outbox[c]) <= Capacity
       /\ \A i \in DOMAIN outbox[c] : outbox[c][i] \in Message
       /\ \A i \in DOMAIN reply[c] : reply[c][i] \in Message

\* Nothing is under way between the client of c and its task.
Settled(c) ==
  c \notin closed \cup joining /\ reply[c] = <<>> /\ outbox[c] = <<>>

\* The client of c has a seat it does not have to wait for.
IsAccepted(c) == sess[c] \in Peers(room.clients) /\ room.clients[sess[c]].conn = c
Got(c, types) == missed[c] \cap types = {}

\* Once everything a client sent and was sent has arrived, it shows the room of the
\* server's session under its peer id, unless the queue had no place for its Joined; and
\* it shows no room without a session, unless it gave up its seat while a Joined was
\* still on its way or asked, in the room, for another one in vain (dispatch.rs:40-49,
\* 218-223 and 303-310, roomie_client.cpp:256-276 and 636-644).  A session is no seat: a
\* client that was kicked, banned or denied keeps it, and goes on showing the room.
ViewMatchesSession ==
  \A c \in Conns : Settled(c) =>
    /\ sess[c] # 0 /\ Got(c, {"Joined"}) => view[c].in /\ view[c].peer = sess[c]
    /\ sess[c] = 0 /\ Got(c, {"Crossed"}) => ~view[c].in /\ view[c].peer = 0

\* Then an accepted client also knows the current host, through leave, transfer and
\* pruning, if it got every HostTransferred in order (mod.rs:178-182 and 393-401).
HostKnown ==
  \A c \in Conns : Settled(c) /\ IsAccepted(c) /\ Got(c, {"Joined", "HostTransferred"}) =>
    view[c].host = room.host

\* And its state is the room's, pending clients included, unless the room's is empty: by
\* Joined and every StateUpdate since (dispatch.rs:183-187 and 258-261,
\* roomie_client.cpp:313-318).  An empty one the client does not pass on: it keeps the last
\* state with bytes that it got.
StateKnown ==
  \A c \in Conns :
    Settled(c) /\ Sits(room, sess[c], c) /\ Got(c, {"Joined", "StateUpdate"}) =>
      room.state \in {0, view[c].state}

\* An accepted client that got every announcement never counts a peer that is gone,
\* whichever way it went (mod.rs:164-183 and 388-392, dispatch.rs:357-369), and knows
\* every accepted peer whose id is above its own: those took their seat later, and
\* joined or were accepted under its eyes (dispatch.rs:208-216, 337-351).
RosterKnown ==
  \A c \in Conns :
    Settled(c) /\ IsAccepted(c) /\ Got(c, {"Joined", "PeerJoined", "PeerLeft"}) =>
      /\ view[c].roster \subseteq Peers(room.clients)
      /\ {p \in Peers(room.clients) : p > sess[c]} \subseteq view[c].roster

\* The C++ header's "Current host peer id (after Joined)" (roomie_client.hpp:139): a
\* settled accepted client whose queue was never full knows the host, whether it was
\* pending before or its Joined was on its way.
HostShown ==
  \A c \in Conns : Settled(c) /\ IsAccepted(c) /\ view[c].in => view[c].host = room.host

=============================================================================
