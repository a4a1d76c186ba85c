------------------------------ MODULE WebBridge ------------------------------
(***************************************************************************)
(* The C# client in a browser (clients/csharp/RoomieClient.cs) and its     *)
(* bridge to the browser's WebSockets (RoomieWebSocket.jslib): connects,   *)
(* reconnects, and what is sent.  ClientSession has what is done with the  *)
(* messages that come in.                                                  *)
(*                                                                         *)
(* All of it runs on the thread of the page, so a call of the application  *)
(* and an event of the browser are one step each.  The bridge has one      *)
(* state, for the socket it uses now, and the handlers of every socket it  *)
(* ever used write to it.  Calls run each other, so they are functions     *)
(* from pages to pages, or to the pages that may result.                   *)
(*                                                                         *)
(* A socket is a number in the order of creation.  A frame is the socket   *)
(* that was current when it was handed over, and its number among those.   *)
(***************************************************************************)
EXTENDS Naturals, Sequences, FiniteSets

CONSTANTS
  MaxSockets,  \* bound: sockets created
  MaxFrames,   \* bound: frames handed over for one socket
  MaxUnread    \* bound: messages that wait to be read

ASSUME BoundsAssumption == MaxSockets \in Nat /\ MaxFrames \in Nat \ {0} /\ MaxUnread \in Nat

VARIABLE page

Sockets == 1 .. MaxSockets

\* "none" is a socket that has not been created.
Init ==
  page = [socket |-> 0,          \* wsState: the socket in use, or 0
          connected |-> FALSE,
          error |-> FALSE,
          sendQueue |-> <<>>,
          receiveBuffer |-> <<>>, \* of each message, the socket it came in on
          readyState |-> [s \in Sockets |-> "none"],
          failing |-> {},        \* the closing sockets that will report an error
          sent |-> [s \in Sockets |-> <<>>],  \* the frames the browser took for each
          up |-> FALSE,          \* RoomieClient: _connected
          stored |-> FALSE,      \* _lastRoomCode is not empty
          handed |-> 0,          \* history: frames handed over for this socket
          disturbed |-> FALSE]   \* history: another one has ended since it was created

Unused(p) == {s \in Sockets : p.readyState[s] = "none"}

-----------------------------------------------------------------------------
(* The bridge.                                                             *)

\* WebSocket.close: the browser ends a handshake with an error, and either with an event
\* that comes later.
Closing(p, s) ==
  [p EXCEPT !.readyState[s] = IF @ \in {"connecting", "open"} THEN "closing" ELSE @,
            !.failing = IF p.readyState[s] = "connecting" THEN @ \cup {s} ELSE @]

\* Mutant: frames of the last connection wait for the next one.
ClearedOfAnswers(p) ==
  [p EXCEPT !.connected = FALSE, !.error = FALSE, !.receiveBuffer = <<>>]

\* Mutant: an error outlives its connection.
ClearedOfData(p) ==
  [p EXCEPT !.connected = FALSE, !.receiveBuffer = <<>>, !.sendQueue = <<>>]

Cleared(p) ==
  [p EXCEPT !.connected = FALSE, !.error = FALSE, !.receiveBuffer = <<>>, !.sendQueue = <<>>]

RoomieWS_Close(p) ==
  Cleared([(IF p.socket = 0 THEN p ELSE Closing(p, p.socket)) EXCEPT !.socket = 0])

RoomieWS_Connect(p) ==
  LET s == CHOOSE u \in Unused(p) : \A v \in Unused(p) : u <= v
  IN  [RoomieWS_Close(p) EXCEPT !.socket = s, !.readyState[s] = "connecting",
                                !.handed = 0, !.disturbed = FALSE]

RoomieWS_GetState(p) ==
  IF p.error THEN "error"
  ELSE IF p.socket = 0 THEN "closed"
  ELSE CASE p.readyState[p.socket] = "connecting" -> "connecting"
         [] p.readyState[p.socket] = "open" -> "open"
         [] OTHER -> "closed"

RoomieWS_Send(p, f) ==
  IF p.socket = 0 THEN p
  ELSE IF p.connected /\ p.readyState[p.socket] = "open"
       THEN [p EXCEPT !.sent[p.socket] = Append(@, f)]
       ELSE [p EXCEPT !.sendQueue = Append(@, f)]

-----------------------------------------------------------------------------
(* The client.                                                             *)

SendPayload(p) ==
  IF ~p.up THEN p
  ELSE RoomieWS_Send([p EXCEPT !.handed = @ + 1], [socket |-> p.socket, n |-> p.handed + 1])

JoinRoom(p) == SendPayload([p EXCEPT !.stored = TRUE])

\* What Connect does after its Disconnect.
Dials(p) == [RoomieWS_Connect(p) EXCEPT !.up = TRUE]

\* The application's OnDisconnected does nothing or calls Reconnect; its Disconnect has
\* nothing to do then.  A bound leaves a socket for the connect that it interrupts.
OnDisconnected(p, spare) ==
  {p} \cup IF p.stored /\ Cardinality(Unused(p)) > spare THEN {JoinRoom(Dials(p))} ELSE {}

Disconnect(p, spare) ==
  LET closed == [RoomieWS_Close(p) EXCEPT !.up = FALSE]
  IN  IF p.up THEN OnDisconnected(closed, spare) ELSE {closed}

HandleDisconnect(p) == OnDisconnected([RoomieWS_Close(p) EXCEPT !.up = FALSE], 0)

Connect(p) == {Dials(q) : q \in Disconnect(p, 1)}

\* _lastHost is set by the first Connect, which creates the first socket.
Reconnect(p) ==
  IF p.stored /\ Unused(p) # Sockets THEN {JoinRoom(q) : q \in Connect(p)} ELSE {p}

\* Poll: a socket that has ended is given up, with what came in over it.
Polled(p) ==
  CASE RoomieWS_GetState(p) \in {"closed", "error"} -> HandleDisconnect(p)
    [] RoomieWS_GetState(p) = "connecting" -> {p}
    [] RoomieWS_GetState(p) = "open" -> {[p EXCEPT !.receiveBuffer = <<>>]}

-----------------------------------------------------------------------------
(* Calls of the application, which is not inside a call.                   *)

CanDial == Unused(page) # {}
CanSend == page.handed < MaxFrames

ConnectCall == CanDial /\ page' \in Connect(page)
ReconnectCall == CanDial /\ page' \in Reconnect(page)
DisconnectCall == page' \in Disconnect(page, 0)
CreateRoomCall == CanSend /\ page' = SendPayload([page EXCEPT !.stored = FALSE])
JoinRoomCall == CanSend /\ page' = JoinRoom(page)

\* SendMove and the like.
SendCall == CanSend /\ page' = SendPayload(page)

Poll == page.up /\ page' \in Polled(page)

-----------------------------------------------------------------------------
(* Events of the browser, with the handlers that RoomieWS_Connect sets.    *)

\* Mutant: nothing is flushed.
OpenedOnly(s) ==
  /\ page.readyState[s] = "connecting"
  /\ page' = [page EXCEPT !.readyState[s] = "open", !.connected = TRUE]

Opened(s) ==
  /\ page.readyState[s] = "connecting"
  /\ page' = [page EXCEPT !.readyState[s] = "open", !.connected = TRUE,
                          !.sent[s] = @ \o page.sendQueue, !.sendQueue = <<>>]

\* A message is delivered while the socket is open.
Message(s) ==
  /\ page.readyState[s] = "open"
  /\ Len(page.receiveBuffer) < MaxUnread
  /\ page' = [page EXCEPT !.receiveBuffer = Append(@, s)]

\* The server starts to close the connection.
ServerCloses(s) ==
  /\ page.readyState[s] = "open"
  /\ page' = [page EXCEPT !.readyState[s] = "closing"]

\* A socket ends, with onerror if it failed, and onclose.
Ended(s, fails) ==
  page' = [page EXCEPT !.readyState[s] = "closed", !.failing = @ \ {s},
                       !.error = @ \/ fails,
                       !.connected = FALSE,
                       !.disturbed = @ \/ s # page.socket]

\* No connection comes about; one is lost; a closing comes to its end.
HandshakeFails(s) == page.readyState[s] = "connecting" /\ Ended(s, TRUE)
ConnectionLost(s) == page.readyState[s] = "open" /\ \E fails \in BOOLEAN : Ended(s, fails)
Closed(s) == page.readyState[s] = "closing" /\ Ended(s, s \in page.failing)

Call ==
  \/ ConnectCall \/ ReconnectCall \/ DisconnectCall
  \/ CreateRoomCall \/ JoinRoomCall \/ SendCall \/ Poll
Event(s) ==
  \/ Opened(s) \/ HandshakeFails(s)
  \/ Message(s) \/ ServerCloses(s) \/ ConnectionLost(s) \/ Closed(s)

Next == Call \/ \E s \in Sockets : Event(s)

Spec == Init /\ [][Next]_page

\* Polls go on, and the browser brings every handshake and every closing to an end.
FairSpec ==
  /\ Spec
  /\ WF_page(Poll)
  /\ \A s \in Sockets : WF_page(Opened(s) \/ HandshakeFails(s)) /\ WF_page(Closed(s))

-----------------------------------------------------------------------------
(* Properties.                                                             *)

\* What the application hands over for a socket, the browser has taken for this socket
\* or waits in the queue, each frame once and in order; nothing is left over from an
\* earlier socket, in either direction (RoomieWebSocket.jslib:21-54, 89-99 and 119-128).
StreamsApart ==
  /\ \A s \in Sockets : \A i \in DOMAIN page.sent[s] : page.sent[s][i] = [socket |-> s, n |-> i]
  /\ \A i \in DOMAIN page.receiveBuffer : page.receiveBuffer[i] = page.socket
  /\ IF page.socket = 0 THEN page.sendQueue = <<>>
     ELSE page.sent[page.socket] \o page.sendQueue =
            [i \in 1 .. page.handed |-> [socket |-> page.socket, n |-> i]]

\* A poll gives up a socket only if that has ended, or if the end of another one,
\* closed before, was taken for its own (RoomieClient.cs:286-292, RoomieWebSocket.jslib:
\* 56-64: the handlers do not ask whose event it is).
GivenUpWithCause ==
  [][Poll /\ page'.socket # page.socket
       => page.disturbed \/ page.readyState[page.socket] \in {"closing", "closed"}]_page

\* What waits in the queue is sent or given up with its socket, unless the end of
\* another one came in between: then connected is false for as long as the socket is
\* open, and the queue is never flushed (RoomieWebSocket.jslib:42-50, 61-64 and 85-99).
QueueFlushed == page.sendQueue # <<>> ~> page.sendQueue = <<>> \/ page.disturbed

=============================================================================
