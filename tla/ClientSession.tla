--------------------------- MODULE ClientSession ---------------------------
(***************************************************************************)
(* The client libraries as receivers: C++ (clients/cpp), C# over TCP and   *)
(* over the browser's WebSocket (clients/csharp), and GML (clients/gml).   *)
(* Each cuts a stream of bytes into frames across connects, disconnects    *)
(* and losses, while callbacks act on the client, and keeps a view (room   *)
(* code, own id, host id) that belongs to one connection.                  *)
(*                                                                         *)
(* A frame has a size in units, the first of which holds the length; it is *)
(* Joined or not.  The application is one thread: only the network moves   *)
(* while a poll is under way.  A callback may leave the room or disconnect; *)
(* one that connects again, or whose send fails, is left out (in C++ it    *)
(* would erase from a cleared buffer).  The server never sends frames that *)
(* are longer than the limit.  Left out are also the events of a WebSocket *)
(* that come after the bridge has closed it.                               *)
(***************************************************************************)
EXTENDS Naturals, SequencesExt

CONSTANTS
  Libraries,   \* of "cpp", "cs", "ws" and "gml"
  Sizes,       \* sizes of frames, in units
  Chunk,       \* units that one recv of the C++ client takes (4096 bytes)
  Threshold,   \* units read after which the GML client compacts (2048 bytes)
  MaxMessage,  \* units of a message that the WebSocket bridge hands over
  MaxEpochs,   \* bound: connects
  MaxFrames    \* bound: frames sent on a connection

ASSUME LibrariesAssumption == Libraries \subseteq {"cpp", "cs", "ws", "gml"}
ASSUME SizesAssumption == Sizes \subseteq Nat \ {0}
ASSUME ChunkAssumption == Chunk \in Nat \ {0}
ASSUME ThresholdAssumption == Threshold \in Nat \ {0}
ASSUME BoundsAssumption == MaxMessage \in Nat /\ MaxEpochs \in Nat /\ MaxFrames \in Nat

VARIABLES
  lib,      \* which library this is
  epoch,    \* connects so far; the number of the current connection
  opening,  \* the connection is not established yet
  open,     \* the server has not closed it
  frames,   \* frames the server has sent on it
  wire,     \* their units that the client has not read
  ready,    \* how many of those have arrived
  cl,       \* the client's own state
  at,       \* "polling" inside poll, "idle" outside
  taken     \* history: frames of this connection that were dispatched

vars == <<lib, epoch, opening, open, frames, wire, ready, cl, at, taken>>

Frame == [size : Sizes, joined : BOOLEAN]
Unit == [epoch : 1 .. MaxEpochs, frame : 1 .. MaxFrames, part : Nat, size : Sizes,
         joined : BOOLEAN]

UnitsOf(n, f) ==
  [p \in 1 .. f.size |-> [epoch |-> epoch, frame |-> n, part |-> p,
                          size |-> f.size, joined |-> f.joined]]

\* view is the connection whose Joined the client shows, 0 for none; buf is the
\* receive buffer, read up to pos (always 0 but in GML).
Client == [sock : BOOLEAN, connected : BOOLEAN, view : 0 .. MaxEpochs,
           buf : Seq(Unit), pos : Nat]

Init ==
  /\ lib \in Libraries
  /\ epoch = 0
  /\ opening = FALSE
  /\ open = FALSE
  /\ frames = <<>>
  /\ wire = <<>>
  /\ ready = 0
  /\ cl = [sock |-> FALSE, connected |-> FALSE, view |-> 0, buf |-> <<>>, pos |-> 0]
  /\ at = "idle"
  /\ taken = 0

-----------------------------------------------------------------------------
(* What the libraries' functions do to the client.                         *)

InCSharp == lib \in {"cs", "ws"}
ClosesSocket(c) == [c EXCEPT !.sock = FALSE, !.connected = FALSE]
LeftRoom(c) == [c EXCEPT !.view = 0]

\* Mutant: disconnecting closes the socket and no more.
DisconnectedOnly(c) == ClosesSocket(c)

\* disconnect.  C++ leaves its buffer to the next connect.
Disconnected(c) ==
  IF lib = "cpp" THEN LeftRoom(ClosesSocket(c))
  ELSE [LeftRoom(ClosesSocket(c)) EXCEPT !.buf = <<>>, !.pos = 0]

\* The library finds the connection gone.  C# keeps its view, GML its buffer.
Lost(c) ==
  IF lib = "cpp" THEN [LeftRoom(ClosesSocket(c)) EXCEPT !.buf = <<>>]
  ELSE IF InCSharp THEN [ClosesSocket(c) EXCEPT !.buf = <<>>]
  ELSE LeftRoom(ClosesSocket(c))

\* Mutant: connect relies on disconnect for its buffer.
ConnectedKeepingBuffer(c) == [Disconnected(c) EXCEPT !.sock = TRUE, !.connected = TRUE]

\* connect.  GML and the browser go on before the connection is established.
Connected(c) == [Disconnected(c) EXCEPT !.sock = TRUE, !.connected = TRUE, !.buf = <<>>]

Unread(c) == SubSeq(c.buf, c.pos + 1, Len(c.buf))
HasFrame(c) == Unread(c) # <<>> /\ Len(Unread(c)) >= Head(Unread(c)).size

\* The view after a frame, and what its callback may make of the client.
Seen(c, unit) == IF unit.joined THEN [c EXCEPT !.view = epoch] ELSE c
Reactions(c) == {c, LeftRoom(c), Disconnected(c)}

Cut(c, n) == [c EXCEPT !.buf = SubSeq(@, n + 1, Len(@))]

\* Mutant: the read position outlives the bytes it counts.
CompactedStale(c, total) ==
  IF c.pos < Threshold THEN c ELSE [c EXCEPT !.buf = SubSeq(@, c.pos + 1, total)]

\* GML drops what it has read, by the buffer size it knew before the callback.
Compacted(c, total) ==
  IF c.pos < Threshold THEN c
  ELSE [c EXCEPT !.buf = SubSeq(@, c.pos + 1, total), !.pos = 0]

\* The clients that may result from dispatching the next frame.  C++ cuts it off
\* after the callback, C# before it; GML moves its position and compacts afterwards.
Dispatched(c) ==
  LET unit == Head(Unread(c))
  IN  IF lib = "cpp" THEN {Cut(d, unit.size) : d \in Reactions(Seen(c, unit))}
      ELSE IF InCSharp THEN Reactions(Seen(Cut(c, unit.size), unit))
      ELSE {Compacted(d, Len(c.buf)) :
              d \in Reactions(Seen([c EXCEPT !.pos = @ + unit.size], unit))}

-----------------------------------------------------------------------------
(* The application's calls, between polls.                                 *)

Connect ==
  /\ at = "idle"
  /\ epoch < MaxEpochs
  /\ cl' = Connected(cl)
  /\ epoch' = epoch + 1
  /\ opening' = (lib \in {"ws", "gml"})
  /\ open' = TRUE
  /\ frames' = <<>> /\ wire' = <<>> /\ ready' = 0 /\ taken' = 0
  /\ UNCHANGED <<lib, at>>

\* No address or no answer: what connect has undone stays undone.
ConnectFails ==
  /\ at = "idle"
  /\ epoch < MaxEpochs
  /\ cl' = Disconnected(cl)
  /\ UNCHANGED <<lib, epoch, opening, open, frames, wire, ready, at, taken>>

Calls(c) ==
  /\ at = "idle"
  /\ cl' = c
  /\ UNCHANGED <<lib, epoch, opening, open, frames, wire, ready, at, taken>>

Disconnect == cl.sock /\ Calls(Disconnected(cl))

\* C# forgets the room even if it cannot send.
Leave == (cl.connected \/ InCSharp) /\ Calls(LeftRoom(cl))

\* A send on a connection that the server has closed, or that C++ cannot send at once.
\* The browser takes everything, GML reports the failure and goes on.
SendFails ==
  /\ cl.connected
  /\ lib = "cpp" \/ (lib = "cs" /\ ~open)
  /\ Calls(Lost(cl))

-----------------------------------------------------------------------------
(* The network and the server.                                             *)

Opens ==
  /\ opening /\ cl.sock
  /\ opening' = FALSE
  /\ UNCHANGED <<lib, epoch, open, frames, wire, ready, cl, at, taken>>

\* GML's event says so; the bridge only shows it when asked for its state.
OpeningFails ==
  /\ opening /\ cl.sock /\ at = "idle"
  /\ opening' = FALSE
  /\ open' = FALSE
  /\ cl' = IF lib = "gml" THEN [cl EXCEPT !.connected = FALSE] ELSE cl
  /\ UNCHANGED <<lib, epoch, frames, wire, ready, at, taken>>

ServerSends(f) ==
  /\ cl.sock /\ open /\ ~opening
  /\ Len(frames) < MaxFrames
  /\ frames' = Append(frames, f)
  /\ wire' = wire \o UnitsOf(Len(frames) + 1, f)
  /\ UNCHANGED <<lib, epoch, opening, open, ready, cl, at, taken>>

ServerCloses ==
  /\ cl.sock /\ open /\ ~opening
  /\ open' = FALSE
  /\ UNCHANGED <<lib, epoch, opening, frames, wire, ready, cl, at, taken>>

\* TCP cuts the stream anywhere; a WebSocket message is one whole frame.
Arrive ==
  /\ \E n \in ready + 1 .. Len(wire) :
       /\ lib = "ws" => wire[n].part = wire[n].size
       /\ ready' = n
  /\ UNCHANGED <<lib, epoch, opening, open, frames, wire, cl, at, taken>>

-----------------------------------------------------------------------------
(* Reading and dispatching.                                                *)

\* The client goes on at place with the next n units of the wire in its buffer.
Reads(c, n) == [c EXCEPT !.buf = @ \o SubSeq(wire, 1, n)]
Consumed(n) ==
  /\ wire' = SubSeq(wire, n + 1, Len(wire))
  /\ ready' = ready - n
Goes(c, place) ==
  /\ cl' = c
  /\ at' = place
  /\ UNCHANGED <<lib, epoch, opening, open, frames>>

NothingLeft == wire = <<>> /\ ~open

StartPollCpp ==
  /\ at = "idle" /\ lib = "cpp" /\ cl.sock
  /\ Goes(cl, "polling")
  /\ UNCHANGED <<wire, ready, taken>>

\* Mutant: an end of stream counts as nothing to read.
RecvFailsNever == ~cl.sock

\* recv fails: the server has closed, or a callback has disconnected.
RecvFails == ~cl.sock \/ NothingLeft

\* Mutant: without new bytes the buffer is not looked at.
TryRecvFrameEager ==
  /\ at = "polling" /\ lib = "cpp"
  /\ IF RecvFails THEN Goes(Lost(cl), "idle") /\ UNCHANGED <<wire, ready, taken>>
     ELSE LET n == IF ready < Chunk THEN ready ELSE Chunk
              c == Reads(cl, n)
          IN  /\ Consumed(n)
              /\ IF n > 0 /\ HasFrame(c)
                 THEN (\E d \in Dispatched(c) : Goes(d, "polling")) /\ taken' = taken + 1
                 ELSE Goes(c, "idle") /\ UNCHANGED taken

\* One recv and at most one frame.  A chunk that completes no frame ends the poll,
\* whatever else has arrived.
TryRecvFrame ==
  /\ at = "polling" /\ lib = "cpp"
  /\ IF RecvFails THEN Goes(Lost(cl), "idle") /\ UNCHANGED <<wire, ready, taken>>
     ELSE LET n == IF ready < Chunk THEN ready ELSE Chunk
              c == Reads(cl, n)
          IN  /\ Consumed(n)
              /\ IF HasFrame(c)
                 THEN (\E d \in Dispatched(c) : Goes(d, "polling")) /\ taken' = taken + 1
                 ELSE Goes(c, "idle") /\ UNCHANGED taken

\* C# over TCP first reads all that is available.  At the end of the stream nothing is,
\* and _tcp.Connected still tells of the last operation.
StartPollCs ==
  /\ at = "idle" /\ lib = "cs" /\ cl.connected
  /\ Consumed(ready)
  /\ Goes(Reads(cl, ready), "polling")
  /\ UNCHANGED taken

\* The messages that have arrived, none with more than MaxMessage units.
Messages ==
  FlattenSeq([n \in 1 .. ready |-> IF wire[n].part <= MaxMessage THEN <<wire[n]>> ELSE <<>>])

\* In the browser a closed socket is noticed before what it has delivered is read.
StartPollWs ==
  /\ at = "idle" /\ lib = "ws" /\ cl.connected /\ ~opening
  /\ \/ ~open /\ Goes(Lost(cl), "idle") /\ UNCHANGED <<wire, ready>>
     \/ open /\ Goes([cl EXCEPT !.buf = @ \o Messages], "polling") /\ Consumed(ready)
  /\ UNCHANGED taken

\* GML gets data and the loss of the connection by events between polls.
DataEvent ==
  /\ at = "idle" /\ lib = "gml" /\ cl.sock /\ ready > 0
  /\ Consumed(ready)
  /\ Goes(Reads(cl, ready), "idle")
  /\ UNCHANGED taken

DisconnectEvent ==
  /\ at = "idle" /\ lib = "gml" /\ cl.connected /\ ~opening /\ NothingLeft
  /\ Goes(Lost(cl), "idle")
  /\ UNCHANGED <<wire, ready, taken>>

StartPollGml ==
  /\ at = "idle" /\ lib = "gml" /\ cl.sock
  /\ Goes(cl, "polling")
  /\ UNCHANGED <<wire, ready, taken>>

\* C# and GML then dispatch frame after frame.
ProcessFrame ==
  /\ at = "polling" /\ lib # "cpp"
  /\ IF HasFrame(cl) /\ (lib = "gml" => cl.sock)
     THEN (\E d \in Dispatched(cl) : Goes(d, "polling")) /\ taken' = taken + 1
     ELSE Goes(cl, "idle") /\ UNCHANGED taken
  /\ UNCHANGED <<wire, ready>>

StartPoll == StartPollCpp \/ StartPollCs \/ StartPollWs \/ StartPollGml
PollStep == TryRecvFrame \/ ProcessFrame

Next ==
  \/ Connect \/ ConnectFails \/ Disconnect \/ Leave \/ SendFails
  \/ Opens \/ OpeningFails \/ ServerCloses \/ Arrive
  \/ \E f \in Frame : ServerSends(f)
  \/ StartPoll \/ PollStep \/ DataEvent \/ DisconnectEvent

Spec == Init /\ [][Next]_vars

\* The application polls every frame of its game, the network delivers what was sent,
\* and the engine raises its events between two steps of the game.
FairSpec ==
  /\ Spec
  /\ WF_vars(StartPoll) /\ WF_vars(PollStep) /\ WF_vars(Arrive)
  /\ SF_vars(DataEvent) /\ SF_vars(DisconnectEvent)

-----------------------------------------------------------------------------
(* Properties.                                                             *)

\* The variables keep to their types, and the GML client reads within its buffer.
TypeOK ==
  /\ lib \in Libraries
  /\ epoch \in 0 .. MaxEpochs
  /\ opening \in BOOLEAN /\ open \in BOOLEAN
  /\ frames \in Seq(Frame)
  /\ wire \in Seq(Unit)
  /\ ready \in 0 .. Len(wire)
  /\ at \in {"idle", "polling"}
  /\ taken \in 0 .. Len(frames)
  /\ cl \in Client
  /\ cl.pos <= Len(cl.buf)

\* What a client holds unread, followed by what is still to be read, is exactly what
\* the frames not yet dispatched consist of: none is lost, cut, repeated or mixed with
\* bytes of an earlier connection, by whichever chunks and callbacks
\* (roomie_client.cpp:448-480, RoomieClient.cs:386-421, roomie_client.gml:207-293).
StreamIntact ==
  cl.sock =>
    Unread(cl) \o wire =
      FlattenSeq([i \in 1 .. Len(frames) - taken |-> UnitsOf(taken + i, frames[taken + i])])

\* The room a client shows is never one of an earlier connection, and without a
\* connection the C++ and GML clients show none (roomie_client.cpp:411-423 and 547-563,
\* RoomieClient.cs:182-208, roomie_client.gml:35-45 and 128-140).
ViewCurrent ==
  IF cl.connected THEN cl.view \in {0, epoch} ELSE InCSharp \/ cl.view = 0

\* Every frame sent is dispatched, unless the connection ends first or the client
\* begins another one (roomie_client.cpp:448-480).
FramesDispatched ==
  \A n \in 1 .. MaxFrames :
    n <= Len(frames) ~> taken >= n \/ ~open \/ ~cl.sock \/ Len(frames) < n

\* A client that polls finds out that the server has closed the connection; over TCP,
\* C# only does so when it sends (roomie_client.cpp:461-470, RoomieClient.cs:286-292,
\* roomie_client.gml:35-45).
LossNoticed == lib # "cs" /\ cl.connected /\ ~open ~> ~cl.connected \/ open

\* "The same 4-byte LE length-prefixed frame protocol is used over WebSocket"
\* (RoomieWebSocket.jslib:3): the stream is intact in the browser too.
SameFraming == lib = "ws" => StreamIntact

=============================================================================
