--------------------------- MODULE WebBridge_proofs ---------------------------
(***************************************************************************)
(* The frames of a socket stay its own, for every number of sockets and    *)
(* frames, however closings, failures, reconnects from callbacks and late  *)
(* events of old sockets are interleaved; and a poll gives up a socket     *)
(* only with cause.                                                        *)
(*                                                                         *)
(* The handlers of all sockets write to one state.  What keeps the streams *)
(* apart is that only the current socket is ever connecting or open, so    *)
(* only its handlers flush the queue or deliver messages, and that while   *)
(* it is connected and open the queue is empty, so nothing overtakes.      *)
(***************************************************************************)
EXTENDS WebBridge, FiniteSetTheorems, SequenceTheorems, WellFoundedInduction, TLAPS

FrameOf == [socket : Sockets, n : Nat]

ReadyStates == {"none", "connecting", "open", "closing", "closed"}

Page == [socket : 0 .. MaxSockets, connected : BOOLEAN, error : BOOLEAN,
         sendQueue : Seq(FrameOf), receiveBuffer : Seq(Sockets),
         readyState : [Sockets -> ReadyStates], failing : SUBSET Sockets,
         sent : [Sockets -> Seq(FrameOf)], up : BOOLEAN, stored : BOOLEAN,
         handed : Nat, disturbed : BOOLEAN]

\* StreamsApart of any page.
Apart(p) ==
  /\ \A s \in Sockets : \A i \in DOMAIN p.sent[s] : p.sent[s][i] = [socket |-> s, n |-> i]
  /\ \A i \in DOMAIN p.receiveBuffer : p.receiveBuffer[i] = p.socket
  /\ IF p.socket = 0 THEN p.sendQueue = <<>>
     ELSE p.sent[p.socket] \o p.sendQueue =
            [i \in 1 .. p.handed |-> [socket |-> p.socket, n |-> i]]

\* Sockets that may still connect, flush or deliver.
Live(p, s) == p.readyState[s] \in {"connecting", "open"}

Sound(p) ==
  /\ p \in Page /\ Apart(p)
  /\ \A s \in Sockets : p.readyState[s] = "none" => p.sent[s] = <<>>
  /\ \A s \in Sockets : Live(p, s) => s = p.socket
  /\ p.socket # 0 =>
       /\ p.readyState[p.socket] # "none"
       /\ p.connected /\ p.readyState[p.socket] = "open" => p.sendQueue = <<>>
       /\ p.error /\ ~p.disturbed => p.readyState[p.socket] = "closed"

\* The client is up only with a socket.
Fine(p) == Sound(p) /\ (p.up => p.socket # 0)

-----------------------------------------------------------------------------

\* Closing a socket, if there is one.
ClosedFirst(p) == IF p.socket = 0 THEN p ELSE Closing(p, p.socket)

\* Of the old socket only what the browser took remains.
LEMMA ClosingSocket ==
  ASSUME NEW p, Sound(p)
  PROVE  LET q == ClosedFirst(p)
         IN  /\ q \in Page
             /\ q.sent = p.sent /\ q.up = p.up /\ q.stored = p.stored
             /\ q.handed = p.handed
             /\ \A s \in Sockets : /\ ~Live(q, s)
                                   /\ q.readyState[s] = "none" <=> p.readyState[s] = "none"
<1>1. CASE p.socket = 0
  <2>1. \A s \in Sockets : ~Live(p, s)
    BY <1>1 DEF Sound, Sockets
  <2> QED
    BY <1>1, <2>1 DEF ClosedFirst, Sound
<1>2. CASE p.socket # 0
  <2>1. p \in Page /\ p.socket \in Sockets
    BY <1>2 DEF Sound, Page, Sockets
  <2> DEFINE q == Closing(p, p.socket)
             rs == [p.readyState EXCEPT
                      ![p.socket] = IF @ \in {"connecting", "open"} THEN "closing" ELSE @]
             fs == IF p.readyState[p.socket] = "connecting" THEN p.failing \cup {p.socket}
                   ELSE p.failing
  <2>2. q = [p EXCEPT !.readyState = rs, !.failing = fs]
    BY <2>1 DEF Closing, Page
  <2>3. rs \in [Sockets -> ReadyStates] /\ fs \in SUBSET Sockets
    BY <2>1 DEF Page, ReadyStates
  <2>4. \A s \in Sockets : /\ rs[s] \notin {"connecting", "open"}
                           /\ rs[s] = "none" <=> p.readyState[s] = "none"
    BY <2>1 DEF Sound, Live, Page
  <2> HIDE DEF rs, fs
  <2>5. q \in Page /\ q.readyState = rs /\ q.sent = p.sent /\ q.up = p.up
        /\ q.stored = p.stored /\ q.handed = p.handed
    BY <2>1, <2>2, <2>3 DEF Page
  <2>6. ClosedFirst(p) = q
    BY <1>2 DEF ClosedFirst
  <2> HIDE DEF q
  <2> QED
    BY <2>4, <2>5, <2>6 DEF Live
<1> QED
  BY <1>1, <1>2

LEMMA ClosingBridge ==
  ASSUME NEW p, Sound(p)
  PROVE  LET q == RoomieWS_Close(p)
         IN  /\ Sound(q) /\ q.socket = 0 /\ q.up = p.up /\ q.stored = p.stored
             /\ \A s \in Sockets : q.readyState[s] = "none" <=> p.readyState[s] = "none"
<1> DEFINE r == ClosedFirst(p)
           q == RoomieWS_Close(p)
<1>1. /\ r \in Page
      /\ r.sent = p.sent /\ r.up = p.up /\ r.stored = p.stored /\ r.handed = p.handed
      /\ \A s \in Sockets : /\ ~Live(r, s)
                            /\ r.readyState[s] = "none" <=> p.readyState[s] = "none"
  BY ClosingSocket, Zenon
<1>2. q = Cleared([r EXCEPT !.socket = 0])
  BY DEF RoomieWS_Close, ClosedFirst
<1> HIDE DEF r
<1>3. PICK none \in Seq(FrameOf), still \in Seq(Sockets) : none = <<>> /\ still = <<>>
  BY EmptySeq
<1>4. q = [r EXCEPT !.socket = 0, !.connected = FALSE, !.error = FALSE,
                    !.receiveBuffer = still, !.sendQueue = none]
  BY <1>1, <1>2, <1>3 DEF Cleared, Page
<1> HIDE DEF q
<1>5. 0 \in 0 .. MaxSockets
  BY BoundsAssumption
<1>6. /\ q \in Page /\ q.socket = 0 /\ q.sendQueue = none /\ q.receiveBuffer = still
      /\ q.sent = r.sent /\ q.readyState = r.readyState
      /\ q.up = r.up /\ q.stored = r.stored
  BY <1>1, <1>4, <1>5 DEF Page
<1>7. Apart(q)
  <2>1. DOMAIN still = {}
    BY <1>3
  <2> QED
    BY <1>1, <1>3, <1>6, <2>1 DEF Sound, Apart
<1>8. Sound(q)
  BY <1>1, <1>6, <1>7 DEF Sound, Live
<1> QED
  BY <1>1, <1>6, <1>8 DEF q

\* The lowest of some numbers.
LEMMA LowestExists ==
  ASSUME NEW S \in SUBSET Sockets, S # {}
  PROVE  \E u \in S : \A v \in S : u <= v
<1> DEFINE less == {pair \in Nat \X Nat : pair[1] < pair[2]}
<1>1. IsWellFoundedOn(less, Nat)
  BY NatLessThanWellFounded DEF OpToRel
<1>2. S \subseteq Nat
  BY BoundsAssumption DEF Sockets
<1> HIDE DEF less
<1>3. PICK u \in S : \A v \in S : <<v, u>> \notin less
  BY <1>1, <1>2, WFMin
<1>4. ASSUME NEW v \in S PROVE u <= v
  <2>1. u \in Nat /\ v \in Nat /\ ~(v < u)
    BY <1>2, <1>3 DEF less
  <2> QED
    BY <2>1
<1> QED
  BY <1>4

\* A new socket has nothing of an earlier one.
LEMMA Connecting ==
  ASSUME NEW p, Sound(p), Unused(p) # {}
  PROVE  LET q == RoomieWS_Connect(p)
         IN  /\ Sound(q) /\ q.socket # 0 /\ q.up = p.up /\ q.stored = p.stored
             /\ \E s \in Unused(p) : Unused(q) = Unused(p) \ {s}
<1> DEFINE r == RoomieWS_Close(p)
           q == RoomieWS_Connect(p)
<1>1. /\ Sound(r) /\ r.socket = 0 /\ r.up = p.up /\ r.stored = p.stored
      /\ \A s \in Sockets : r.readyState[s] = "none" <=> p.readyState[s] = "none"
  BY ClosingBridge, Zenon
<1>2. PICK s \in Unused(p) :
        s = CHOOSE u \in Unused(p) : \A v \in Unused(p) : u <= v
  <2>1. Unused(p) \in SUBSET Sockets
    BY DEF Unused
  <2> QED
    BY <2>1, LowestExists
<1>3. q = [r EXCEPT !.socket = s, !.readyState[s] = "connecting",
                    !.handed = 0, !.disturbed = FALSE]
  BY <1>2 DEF RoomieWS_Connect
<1>4. /\ s \in Sockets /\ s # 0 /\ r.readyState[s] = "none" /\ r.sent[s] = <<>>
      /\ r \in Page /\ r.sendQueue = <<>>
  <2> HIDE DEF r
  <2>1. s \in Sockets /\ s # 0 /\ p.readyState[s] = "none"
    <3>1. s \in Sockets /\ p.readyState[s] = "none"
      BY DEF Unused
    <3> QED
      BY <3>1, BoundsAssumption DEF Sockets
  <2>2. r.readyState[s] = "none" /\ r.sent[s] = <<>> /\ r \in Page
    BY <1>1, <2>1 DEF Sound
  <2>3. r.sendQueue = <<>>
    BY <1>1 DEF Sound, Apart
  <2> QED
    BY <2>1, <2>2, <2>3
<1> HIDE DEF r, q
<1> DEFINE rs == [r.readyState EXCEPT ![s] = "connecting"]
<1>5. rs \in [Sockets -> ReadyStates] /\ s \in 0 .. MaxSockets
  BY <1>4 DEF Page, ReadyStates, Sockets
<1>6. q = [r EXCEPT !.socket = s, !.readyState = rs, !.handed = 0, !.disturbed = FALSE]
  BY <1>3, <1>4 DEF Page
<1>7. /\ rs[s] = "connecting"
      /\ \A u \in Sockets \ {s} : rs[u] = r.readyState[u]
  BY <1>4 DEF Page
<1> HIDE DEF rs
<1>8. /\ q \in Page /\ q.socket = s /\ q.sendQueue = r.sendQueue
      /\ q.receiveBuffer = r.receiveBuffer /\ q.handed = 0
      /\ q.sent = r.sent /\ q.readyState = rs /\ q.up = r.up /\ q.stored = r.stored
  BY <1>4, <1>5, <1>6 DEF Page
<1>9. Apart(q)
  <2>1. q.sent[q.socket] \o q.sendQueue = <<>>
    <3>1. <<>> \o <<>> = <<>>
      OBVIOUS
    <3> QED
      BY <1>4, <1>8, <3>1
  <2>2. [i \in 1 .. q.handed |-> [socket |-> q.socket, n |-> i]] = <<>>
    BY <1>8
  <2>3. DOMAIN q.receiveBuffer = {}
    <3>1. r.receiveBuffer \in Seq(Sockets)
      BY <1>4 DEF Page
    <3>2. \A i \in DOMAIN r.receiveBuffer : r.receiveBuffer[i] = 0 /\ r.receiveBuffer[i] \in Sockets
      BY <1>1, <3>1, LenProperties, ElementOfSeq DEF Sound, Apart
    <3> QED
      BY <1>8, <3>2 DEF Sockets
  <2> QED
    BY <1>1, <1>4, <1>8, <2>1, <2>2, <2>3 DEF Sound, Apart
<1>10. \A u \in Sockets : rs[u] \in {"connecting", "open"} => u = s
  BY <1>1, <1>4, <1>7 DEF Sound, Live, Sockets
<1>11. Sound(q)
  <2>1. \A u \in Sockets : rs[u] = "none" => r.readyState[u] = "none"
    BY <1>7
  <2>2. ~(q.error /\ ~q.disturbed)
    <3>1. r.error = FALSE
      BY DEF r, RoomieWS_Close, Cleared
    <3>2. q.error = r.error
      BY <1>4, <1>6 DEF Page
    <3> QED
      BY <3>1, <3>2
  <2> QED
    BY <1>1, <1>7, <1>8, <1>9, <1>10, <2>1, <2>2 DEF Sound, Live
<1>12. Unused(q) = Unused(p) \ {s}
  BY <1>1, <1>4, <1>7, <1>8 DEF Unused
<1> QED
  BY <1>1, <1>4, <1>8, <1>11, <1>12 DEF q

\* The frames handed over for a socket, one more at a time.
FramesOf(s, n) == [i \in 1 .. n |-> [socket |-> s, n |-> i]]

LEMMA OneFrameMore ==
  ASSUME NEW s \in Sockets, NEW n \in Nat
  PROVE  /\ FramesOf(s, n) \in Seq(FrameOf) /\ Len(FramesOf(s, n)) = n
         /\ FramesOf(s, n + 1) = Append(FramesOf(s, n), [socket |-> s, n |-> n + 1])
<1> DEFINE f == [socket |-> s, n |-> n + 1]
<1>1. ASSUME NEW m \in Nat
      PROVE  FramesOf(s, m) \in Seq(FrameOf) /\ Len(FramesOf(s, m)) = m
  <2>1. FramesOf(s, m) \in [1 .. m -> FrameOf]
    BY DEF FramesOf, FrameOf
  <2> QED
    BY <2>1
<1>2. f \in FrameOf
  BY DEF FrameOf
<1>3. PICK a \in Seq(FrameOf), b \in Seq(FrameOf) :
        a = FramesOf(s, n + 1) /\ b = FramesOf(s, n) /\ Len(a) = n + 1 /\ Len(b) = n
  BY <1>1
<1> HIDE DEF f
<1>4. PICK c \in Seq(FrameOf) : c = Append(b, f)
  BY <1>2, AppendProperties
<1>5. Len(c) = n + 1 /\ c[n + 1] = f /\ \A i \in 1 .. n : c[i] = b[i]
  BY <1>2, <1>3, <1>4, AppendProperties
<1>6. ASSUME NEW i \in 1 .. n + 1 PROVE a[i] = c[i]
  <2>1. a[i] = [socket |-> s, n |-> i]
    BY <1>3 DEF FramesOf
  <2>2. CASE i = n + 1
    BY <1>5, <2>1, <2>2 DEF f
  <2>3. CASE i \in 1 .. n
    <3>1. b[i] = [socket |-> s, n |-> i]
      BY <1>3, <2>3 DEF FramesOf
    <3> QED
      BY <1>5, <2>1, <2>3, <3>1
  <2> QED
    BY <2>2, <2>3
<1>7. a = c
  BY <1>3, <1>5, <1>6, SeqEqual
<1> QED
  BY <1>1, <1>3, <1>4, <1>7 DEF f

\* What is handed over follows everything that was handed over for the socket.
LEMMA Sending ==
  ASSUME NEW p, Fine(p)
  PROVE  LET q == SendPayload(p)
         IN  Fine(q) /\ q.socket = p.socket /\ q.up = p.up /\ Unused(q) = Unused(p)
<1> SUFFICES ASSUME NEW q, q = SendPayload(p)
             PROVE  Fine(q) /\ q.socket = p.socket /\ q.up = p.up /\ Unused(q) = Unused(p)
  BY Zenon
<1>1. CASE ~p.up
  BY <1>1 DEF SendPayload
<1>2. CASE p.up
  <2>1. p \in Page /\ p.socket \in Sockets /\ p.socket # 0 /\ p.handed \in Nat /\ p.handed + 1 \in Nat
    BY <1>2, BoundsAssumption DEF Fine, Sound, Page, Sockets
  <2> DEFINE s == p.socket
             f == [socket |-> s, n |-> p.handed + 1]
  <2>2. f \in FrameOf
    BY <2>1 DEF FrameOf
  <2>3. /\ p.sent \in [Sockets -> Seq(FrameOf)] /\ p.sent[s] \in Seq(FrameOf)
        /\ p.sendQueue \in Seq(FrameOf)
        /\ p.sent[s] \o p.sendQueue = FramesOf(s, p.handed)
    BY <2>1 DEF Fine, Sound, Page, Apart, FramesOf
  <2>4. FramesOf(s, p.handed + 1) = Append(FramesOf(s, p.handed), f)
        /\ FramesOf(s, p.handed) \in Seq(FrameOf)
    BY <2>1, OneFrameMore
  <2>5. CASE p.connected /\ p.readyState[s] = "open"
    <3> DEFINE more == Append(p.sent[s], f)
               sent == [p.sent EXCEPT ![s] = more]
    <3>1. q = [p EXCEPT !.handed = p.handed + 1, !.sent = sent]
      BY <1>2, <2>1, <2>5 DEF SendPayload, RoomieWS_Send, Page
    <3>2. p.sendQueue = <<>> /\ p.sent[s] = FramesOf(s, p.handed)
      <4>1. p.sendQueue = <<>>
        BY <2>1, <2>5 DEF Fine, Sound
      <4>2. p.sent[s] \o <<>> = p.sent[s]
        BY <2>3, ConcatEmptySeq
      <4> QED
        BY <2>3, <4>1, <4>2
    <3>3. more \in Seq(FrameOf) /\ more = FramesOf(s, p.handed + 1)
      <4>1. more \in Seq(FrameOf)
        BY <2>2, <2>3, AppendProperties
      <4> QED
        BY <2>4, <3>2, <4>1
    <3> HIDE DEF more, f
    <3>4. /\ sent \in [Sockets -> Seq(FrameOf)] /\ sent[s] = more
          /\ \A u \in Sockets \ {s} : sent[u] = p.sent[u]
      BY <2>1, <2>3, <3>3
    <3> HIDE DEF sent
    <3>5. /\ q \in Page /\ q.socket = s /\ q.handed = p.handed + 1 /\ q.sent = sent
          /\ q.sendQueue = p.sendQueue /\ q.receiveBuffer = p.receiveBuffer
          /\ q.readyState = p.readyState /\ q.connected = p.connected /\ q.error = p.error
          /\ q.disturbed = p.disturbed /\ q.up = p.up
      BY <2>1, <3>1, <3>4 DEF Page
    <3>6. Apart(q)
      <4>1. ASSUME NEW u \in Sockets, NEW i \in DOMAIN sent[u]
            PROVE  sent[u][i] = [socket |-> u, n |-> i]
        <5>1. CASE u = s
          BY <3>3, <3>4, <5>1 DEF FramesOf
        <5>2. CASE u # s
          <6>1. sent[u] = p.sent[u]
            BY <3>4, <5>2
          <6>2. \A k \in DOMAIN p.sent[u] : p.sent[u][k] = [socket |-> u, n |-> k]
            BY DEF Fine, Sound, Apart
          <6> QED
            BY <6>1, <6>2
        <5> QED
          BY <5>1, <5>2
      <4>2. sent[s] \o <<>> = sent[s]
        BY <3>3, <3>4, ConcatEmptySeq
      <4>3. q.sent[s] \o q.sendQueue = [i \in 1 .. q.handed |-> [socket |-> s, n |-> i]]
        BY <3>2, <3>3, <3>4, <3>5, <4>2 DEF FramesOf
      <4> QED
        BY <2>1, <3>5, <4>1, <4>3 DEF Fine, Sound, Apart
    <3>7. \A u \in Sockets : p.readyState[u] = "none" => sent[u] = p.sent[u]
      BY <2>5, <3>4
    <3> QED
      BY <3>5, <3>6, <3>7 DEF Fine, Sound, Live, Unused
  <2>6. CASE ~(p.connected /\ p.readyState[s] = "open")
    <3> DEFINE more == Append(p.sendQueue, f)
    <3>1. q = [p EXCEPT !.handed = p.handed + 1, !.sendQueue = more]
      BY <1>2, <2>1, <2>6 DEF SendPayload, RoomieWS_Send, Page
    <3>2. more \in Seq(FrameOf) /\ p.sent[s] \o more = FramesOf(s, p.handed + 1)
      <4>1. more \in Seq(FrameOf) /\ more = p.sendQueue \o <<f>> /\ <<f>> \in Seq(FrameOf)
        BY <2>2, <2>3, AppendProperties, AppendIsConcat
      <4>2. Append(FramesOf(s, p.handed), f) = FramesOf(s, p.handed) \o <<f>>
        BY <2>2, <2>4, AppendIsConcat
      <4>3. p.sent[s] \o (p.sendQueue \o <<f>>) = (p.sent[s] \o p.sendQueue) \o <<f>>
        <5>1. ASSUME NEW a \in Seq(FrameOf), NEW b \in Seq(FrameOf), NEW c \in Seq(FrameOf)
              PROVE  a \o (b \o c) = (a \o b) \o c
          BY ConcatAssociative
        <5> QED
          BY <2>3, <4>1, <5>1
      <4> QED
        BY <2>3, <2>4, <4>1, <4>2, <4>3
    <3> HIDE DEF more, f
    <3>3. /\ q \in Page /\ q.socket = s /\ q.handed = p.handed + 1 /\ q.sent = p.sent
          /\ q.sendQueue = more /\ q.receiveBuffer = p.receiveBuffer
          /\ q.readyState = p.readyState /\ q.connected = p.connected /\ q.error = p.error
          /\ q.disturbed = p.disturbed /\ q.up = p.up
      BY <2>1, <3>1, <3>2 DEF Page
    <3>4. Apart(q)
      <4>1. q.sent[s] \o q.sendQueue = [i \in 1 .. q.handed |-> [socket |-> s, n |-> i]]
        BY <3>2, <3>3 DEF FramesOf
      <4> QED
        BY <2>1, <3>3, <4>1 DEF Fine, Sound, Apart
    <3> QED
      BY <2>1, <2>6, <3>3, <3>4 DEF Fine, Sound, Live, Unused
  <2> QED
    BY <2>5, <2>6
<1> QED
  BY <1>1, <1>2

-----------------------------------------------------------------------------

\* Nothing but `up` and `stored` has changed.
Same(p, q) ==
  /\ q.socket = p.socket /\ q.handed = p.handed /\ q.sent = p.sent
  /\ q.sendQueue = p.sendQueue /\ q.receiveBuffer = p.receiveBuffer
  /\ q.readyState = p.readyState /\ q.connected = p.connected /\ q.error = p.error
  /\ q.disturbed = p.disturbed

LEMMA SameIsSound ==
  ASSUME NEW p, Sound(p), NEW q \in Page, Same(p, q)
  PROVE  Sound(q) /\ Unused(q) = Unused(p)
<1>1. Apart(q)
  <2>1. Apart(p)
    BY DEF Sound
  <2> QED
    BY <2>1 DEF Apart, Same
<1>2. \A s \in Sockets : /\ q.readyState[s] = "none" => q.sent[s] = <<>>
                         /\ Live(q, s) => s = q.socket
  BY DEF Sound, Same, Live
<1>3. q.socket # 0 =>
        /\ q.readyState[q.socket] # "none"
        /\ q.connected /\ q.readyState[q.socket] = "open" => q.sendQueue = <<>>
        /\ q.error /\ ~q.disturbed => q.readyState[q.socket] = "closed"
  BY DEF Sound, Same
<1> QED
  BY <1>1, <1>2, <1>3 DEF Sound, Same, Unused

LEMMA Storing ==
  ASSUME NEW p, Fine(p), NEW b \in BOOLEAN
  PROVE  LET q == [p EXCEPT !.stored = b]
         IN  Fine(q) /\ q.socket = p.socket /\ q.up = p.up /\ Unused(q) = Unused(p)
<1> DEFINE q == [p EXCEPT !.stored = b]
<1>1. p \in Page
  BY DEF Fine, Sound
<1>2. q \in Page /\ Same(p, q) /\ q.up = p.up /\ q.socket = p.socket
  BY <1>1 DEF Page, Same
<1> HIDE DEF q
<1>3. Sound(q) /\ Unused(q) = Unused(p)
  BY <1>2, SameIsSound DEF Fine
<1> QED
  BY <1>2, <1>3 DEF q, Fine

LEMMA Joining ==
  ASSUME NEW p, Fine(p)
  PROVE  LET q == JoinRoom(p)
         IN  Fine(q) /\ q.socket = p.socket /\ q.up = p.up /\ Unused(q) = Unused(p)
<1> DEFINE r == [p EXCEPT !.stored = TRUE]
<1>1. Fine(r) /\ r.socket = p.socket /\ r.up = p.up /\ Unused(r) = Unused(p)
  BY Storing, Zenon
<1> HIDE DEF r
<1> SUFFICES ASSUME NEW q, q = SendPayload(r)
             PROVE  Fine(q) /\ q.socket = p.socket /\ q.up = p.up /\ Unused(q) = Unused(p)
  BY Zenon DEF JoinRoom, r
<1> QED
  BY <1>1, Sending

\* Setting _connected.
LEMMA Raising ==
  ASSUME NEW p, Sound(p), NEW b \in BOOLEAN, b => p.socket # 0
  PROVE  LET q == [p EXCEPT !.up = b]
         IN  /\ Fine(q) /\ q.up = b /\ q.socket = p.socket /\ q.stored = p.stored
             /\ Unused(q) = Unused(p)
<1> DEFINE q == [p EXCEPT !.up = b]
<1>1. p \in Page
  BY DEF Sound
<1>2. q \in Page /\ Same(p, q) /\ q.up = b /\ q.socket = p.socket /\ q.stored = p.stored
  BY <1>1 DEF Page, Same
<1> HIDE DEF q
<1>3. Sound(q) /\ Unused(q) = Unused(p)
  BY <1>2, SameIsSound
<1> QED
  BY <1>2, <1>3 DEF q, Fine

\* Dialling takes one unused socket.
LEMMA Dialling ==
  ASSUME NEW p, Sound(p), Unused(p) # {}
  PROVE  /\ Fine(Dials(p))
         /\ \E s \in Unused(p) : Unused(Dials(p)) = Unused(p) \ {s}
<1> DEFINE r == RoomieWS_Connect(p)
           q == [r EXCEPT !.up = TRUE]
<1>1. /\ Sound(r) /\ r.socket # 0
      /\ \E s \in Unused(p) : Unused(r) = Unused(p) \ {s}
  BY Connecting, Zenon
<1>2. Dials(p) = q
  BY DEF Dials
<1> HIDE DEF r
<1>3. Fine(q) /\ Unused(q) = Unused(r)
  BY <1>1, Raising, Zenon
<1> QED
  BY <1>1, <1>2, <1>3, Zenon

\* Sockets can be counted.
LEMMA UnusedFinite ==
  ASSUME NEW p
  PROVE  /\ IsFiniteSet(Unused(p)) /\ Cardinality(Unused(p)) \in Nat
         /\ Cardinality(Unused(p)) > 0 => Unused(p) # {}
         /\ Cardinality(Unused(p)) > 1 => \A s \in Unused(p) : Unused(p) \ {s} # {}
<1> DEFINE S == Unused(p)
<1>1. IsFiniteSet(Sockets)
  BY BoundsAssumption, FS_Interval DEF Sockets
<1>2. IsFiniteSet(S)
  BY <1>1, FS_Subset DEF Unused
<1> HIDE DEF S
<1>3. Cardinality(S) \in Nat
  BY <1>2, FS_CardinalityType
<1>4. Cardinality({}) = 0
  BY FS_EmptySet
<1>5. ASSUME Cardinality(S) > 1, NEW s \in S PROVE S \ {s} # {}
  <2>1. IsFiniteSet(S \ {s}) /\ Cardinality(S \ {s}) = Cardinality(S) - 1
    BY <1>2, FS_RemoveElement
  <2> QED
    BY <1>3, <1>4, <1>5, <2>1
<1> QED
  BY <1>2, <1>3, <1>4, <1>5 DEF S

\* Reconnecting from the callback leaves the spare socket.
LEMMA CallingBack ==
  ASSUME NEW p, Fine(p), NEW spare \in {0, 1}, NEW q \in OnDisconnected(p, spare)
  PROVE  Fine(q) /\ (spare = 1 /\ Unused(p) # {} => Unused(q) # {})
<1>1. CASE q = p
  BY <1>1
<1>2. CASE q # p
  <2>1. q = JoinRoom(Dials(p)) /\ Cardinality(Unused(p)) > spare
    BY <1>2 DEF OnDisconnected
  <2>2. Unused(p) # {} /\ Sound(p)
    BY <2>1, UnusedFinite DEF Fine
  <2>3. Fine(Dials(p)) /\ \E s \in Unused(p) : Unused(Dials(p)) = Unused(p) \ {s}
    BY <2>2, Dialling
  <2>4. Fine(q) /\ Unused(q) = Unused(Dials(p))
    BY <2>1, <2>3, Joining
  <2>5. spare = 1 => Unused(q) # {}
    BY <2>1, <2>3, <2>4, UnusedFinite
  <2> QED
    BY <2>4, <2>5
<1> QED
  BY <1>1, <1>2

\* The page when the client has closed its socket.
LEMMA ClosingDown ==
  ASSUME NEW p, Fine(p)
  PROVE  LET q == [RoomieWS_Close(p) EXCEPT !.up = FALSE]
         IN  Fine(q) /\ Unused(q) = Unused(p)
<1> DEFINE r == RoomieWS_Close(p)
           q == [r EXCEPT !.up = FALSE]
<1>1. /\ Sound(r)
      /\ \A s \in Sockets : r.readyState[s] = "none" <=> p.readyState[s] = "none"
  BY ClosingBridge, Zenon DEF Fine
<1> HIDE DEF r
<1>2. Fine(q) /\ Unused(q) = Unused(r)
  <2>1. FALSE \in BOOLEAN /\ (FALSE => r.socket # 0)
    OBVIOUS
  <2> QED
    BY <1>1, <2>1, Raising, Zenon
<1>3. Unused(r) = Unused(p)
  BY <1>1 DEF Unused
<1> QED
  BY <1>2, <1>3 DEF r

LEMMA Disconnecting ==
  ASSUME NEW p, Fine(p), NEW spare \in {0, 1}, NEW q \in Disconnect(p, spare)
  PROVE  Fine(q) /\ (spare = 1 /\ Unused(p) # {} => Unused(q) # {})
<1> DEFINE closed == [RoomieWS_Close(p) EXCEPT !.up = FALSE]
<1>1. Fine(closed) /\ Unused(closed) = Unused(p)
  BY ClosingDown, Zenon
<1>2. q = closed \/ q \in OnDisconnected(closed, spare)
  BY DEF Disconnect
<1> HIDE DEF closed
<1> QED
  BY <1>1, <1>2, CallingBack

LEMMA HandlingDisconnect ==
  ASSUME NEW p, Fine(p), NEW q \in HandleDisconnect(p)
  PROVE  Fine(q)
<1> DEFINE closed == [RoomieWS_Close(p) EXCEPT !.up = FALSE]
<1>1. Fine(closed)
  BY ClosingDown, Zenon
<1>2. q \in OnDisconnected(closed, 0)
  BY DEF HandleDisconnect
<1> HIDE DEF closed
<1> QED
  BY <1>1, <1>2, CallingBack

LEMMA ConnectingAnew ==
  ASSUME NEW p, Fine(p), Unused(p) # {}
  PROVE  (\A q \in Connect(p) : Fine(q)) /\ (\A q \in Reconnect(p) : Fine(q))
<1>1. ASSUME NEW q \in Connect(p) PROVE Fine(q)
  <2>1. PICK r \in Disconnect(p, 1) : q = Dials(r)
    BY DEF Connect
  <2>2. Fine(r) /\ Unused(r) # {}
    BY Disconnecting
  <2> QED
    BY <2>1, <2>2, Dialling DEF Fine
<1>2. ASSUME NEW q \in Reconnect(p) PROVE Fine(q)
  <2>1. q = p \/ \E r \in Connect(p) : q = JoinRoom(r)
    BY DEF Reconnect
  <2> QED
    BY <1>1, <2>1, Joining
<1> QED
  BY <1>1, <1>2

\* What the bridge tells of the socket of a client that is up.
LEMMA StateTold ==
  ASSUME NEW p, Fine(p), p.up
  PROVE  /\ RoomieWS_GetState(p) \in {"closed", "error", "connecting", "open"}
         /\ RoomieWS_GetState(p) \in {"closed", "error"} =>
              p.disturbed \/ p.readyState[p.socket] \in {"closing", "closed"}
<1>1. p.socket # 0 /\ p.socket \in Sockets /\ p.readyState[p.socket] \in ReadyStates
  BY BoundsAssumption DEF Fine, Sound, Page, Sockets
<1>2. p.readyState[p.socket] # "none" /\ (p.error /\ ~p.disturbed => p.readyState[p.socket] = "closed")
  BY <1>1 DEF Fine, Sound
<1> QED
  BY <1>1, <1>2 DEF RoomieWS_GetState, ReadyStates

\* Reading the messages that came in.
LEMMA Draining ==
  ASSUME NEW p, Fine(p)
  PROVE  LET q == [p EXCEPT !.receiveBuffer = <<>>]
         IN  Fine(q) /\ q.socket = p.socket
<1>1. PICK still \in Seq(Sockets) : still = <<>>
  BY EmptySeq
<1>2. DOMAIN still = {}
  BY <1>1
<1> DEFINE q == [p EXCEPT !.receiveBuffer = still]
<1>3. p \in Page
  BY DEF Fine, Sound
<1>4. /\ q \in Page /\ q.socket = p.socket /\ q.handed = p.handed /\ q.sent = p.sent
      /\ q.sendQueue = p.sendQueue /\ q.receiveBuffer = still
      /\ q.readyState = p.readyState /\ q.connected = p.connected /\ q.error = p.error
      /\ q.disturbed = p.disturbed /\ q.up = p.up
  BY <1>3 DEF Page
<1> HIDE DEF q
<1>5. Fine(q)
  <2>1. Apart(q)
    <3>1. Apart(p)
      BY DEF Fine, Sound
    <3>2. \A s \in Sockets : \A i \in DOMAIN q.sent[s] : q.sent[s][i] = [socket |-> s, n |-> i]
      <4>1. \A s \in Sockets : \A i \in DOMAIN p.sent[s] : p.sent[s][i] = [socket |-> s, n |-> i]
        BY <3>1 DEF Apart
      <4>2. q.sent = p.sent
        BY <1>4
      <4> QED
        BY <4>1, <4>2, Zenon
    <3>3. \A i \in DOMAIN q.receiveBuffer : q.receiveBuffer[i] = q.socket
      BY <1>2, <1>4
    <3>4. IF q.socket = 0 THEN q.sendQueue = <<>>
          ELSE q.sent[q.socket] \o q.sendQueue =
                 [i \in 1 .. q.handed |-> [socket |-> q.socket, n |-> i]]
      BY <1>4, <3>1 DEF Apart
    <3> QED
      BY <3>2, <3>3, <3>4 DEF Apart
  <2>2. \A s \in Sockets : /\ q.readyState[s] = "none" => q.sent[s] = <<>>
                           /\ Live(q, s) => s = q.socket
    BY <1>4 DEF Fine, Sound, Live
  <2>3. q.socket # 0 =>
          /\ q.readyState[q.socket] # "none"
          /\ q.connected /\ q.readyState[q.socket] = "open" => q.sendQueue = <<>>
          /\ q.error /\ ~q.disturbed => q.readyState[q.socket] = "closed"
    BY <1>4 DEF Fine, Sound
  <2> QED
    BY <1>4, <2>1, <2>2, <2>3 DEF Fine, Sound
<1> QED
  BY <1>1, <1>4, <1>5 DEF q

\* A poll gives up the socket or reads what came in over it.
LEMMA Polling ==
  ASSUME NEW p, Fine(p), p.up, NEW q \in Polled(p)
  PROVE  /\ Fine(q)
         /\ q.socket # p.socket =>
              p.disturbed \/ p.readyState[p.socket] \in {"closing", "closed"}
<1> DEFINE told == RoomieWS_GetState(p)
<1>1. /\ told \in {"closed", "error", "connecting", "open"}
      /\ told \in {"closed", "error"} =>
           p.disturbed \/ p.readyState[p.socket] \in {"closing", "closed"}
  BY StateTold
<1> HIDE DEF told
<1>2. CASE told \in {"closed", "error"}
  <2>1. q \in HandleDisconnect(p)
    BY <1>2 DEF Polled, told
  <2> QED
    BY <1>1, <1>2, <2>1, HandlingDisconnect
<1>3. CASE told = "connecting"
  BY <1>3 DEF Polled, told
<1>4. CASE told = "open"
  <2>1. q = [p EXCEPT !.receiveBuffer = <<>>]
    BY <1>4 DEF Polled, told
  <2> QED
    BY <2>1, Draining
<1> QED
  BY <1>1, <1>2, <1>3, <1>4

-----------------------------------------------------------------------------
\* The events of the browser.  A socket in `readyState` is described by p and q, the pages
\* before and after.

LEMMA AgreedApart ==
  ASSUME NEW p, Apart(p),
         NEW q, q.socket = p.socket, q.handed = p.handed, q.sent = p.sent,
         q.sendQueue = p.sendQueue,
         \A i \in DOMAIN q.receiveBuffer : q.receiveBuffer[i] = q.socket
  PROVE  Apart(q)
<1>1. \A s \in Sockets : \A i \in DOMAIN q.sent[s] : q.sent[s][i] = [socket |-> s, n |-> i]
  BY DEF Apart
<1>2. IF q.socket = 0 THEN q.sendQueue = <<>>
      ELSE q.sent[q.socket] \o q.sendQueue =
             [i \in 1 .. q.handed |-> [socket |-> q.socket, n |-> i]]
  BY DEF Apart
<1> QED
  BY <1>1, <1>2 DEF Apart

\* The opening of a socket is that of the current one, and flushes what is its own.
LEMMA Opening ==
  ASSUME NEW p, Fine(p), NEW s \in Sockets, p.readyState[s] = "connecting",
         NEW q, q = [p EXCEPT !.readyState[s] = "open", !.connected = TRUE,
                              !.sent[s] = @ \o p.sendQueue, !.sendQueue = <<>>]
  PROVE  Fine(q) /\ q.socket = p.socket
<1>1. p \in Page /\ s = p.socket /\ s # 0
  <2>1. s # 0
    BY BoundsAssumption DEF Sockets
  <2> QED
    BY <2>1 DEF Fine, Sound, Live
<1>2. PICK none \in Seq(FrameOf) : none = <<>>
  BY EmptySeq
<1> DEFINE rs == [p.readyState EXCEPT ![s] = "open"]
           all == p.sent[s] \o p.sendQueue
           sent == [p.sent EXCEPT ![s] = all]
<1>3. q = [p EXCEPT !.readyState = rs, !.connected = TRUE, !.sent = sent, !.sendQueue = none]
  BY <1>1, <1>2 DEF Page
<1>4. /\ p.sent \in [Sockets -> Seq(FrameOf)] /\ p.sent[s] \in Seq(FrameOf)
      /\ p.sendQueue \in Seq(FrameOf) /\ p.readyState \in [Sockets -> ReadyStates]
  BY <1>1 DEF Page
<1>5. all \in Seq(FrameOf) /\ all = FramesOf(s, p.handed)
  <2>1. all \in Seq(FrameOf)
    BY <1>4, ConcatProperties
  <2>2. Apart(p)
    BY DEF Fine, Sound
  <2> QED
    BY <1>1, <2>1, <2>2 DEF Apart, FramesOf
<1> HIDE DEF all
<1>6. /\ rs \in [Sockets -> ReadyStates] /\ rs[s] = "open"
      /\ \A u \in Sockets \ {s} : rs[u] = p.readyState[u]
      /\ sent \in [Sockets -> Seq(FrameOf)] /\ sent[s] = all
      /\ \A u \in Sockets \ {s} : sent[u] = p.sent[u]
  BY <1>4, <1>5 DEF ReadyStates
<1> HIDE DEF rs, sent
<1>7. /\ q \in Page /\ q.socket = s /\ q.handed = p.handed /\ q.sent = sent
      /\ q.sendQueue = none /\ q.receiveBuffer = p.receiveBuffer
      /\ q.readyState = rs /\ q.error = p.error
      /\ q.disturbed = p.disturbed /\ q.up = p.up
  BY <1>1, <1>2, <1>3, <1>6 DEF Page
<1>8. Apart(q)
  <2>1. ASSUME NEW u \in Sockets, NEW i \in DOMAIN sent[u]
        PROVE  sent[u][i] = [socket |-> u, n |-> i]
    <3>1. CASE u = s
      BY <1>5, <1>6, <3>1 DEF FramesOf
    <3>2. CASE u # s
      <4>1. sent[u] = p.sent[u]
        BY <1>6, <3>2
      <4>2. \A k \in DOMAIN p.sent[u] : p.sent[u][k] = [socket |-> u, n |-> k]
        BY DEF Fine, Sound, Apart
      <4> QED
        BY <4>1, <4>2
    <3> QED
      BY <3>1, <3>2
  <2>2. \A i \in DOMAIN q.receiveBuffer : q.receiveBuffer[i] = q.socket
    BY <1>1, <1>7 DEF Fine, Sound, Apart
  <2>3. q.sent[q.socket] \o q.sendQueue = FramesOf(s, q.handed)
    <3>1. all \o <<>> = all
      BY <1>5, ConcatEmptySeq
    <3> QED
      BY <1>2, <1>5, <1>6, <1>7, <3>1
  <2>4. \A u \in Sockets : \A i \in DOMAIN q.sent[u] : q.sent[u][i] = [socket |-> u, n |-> i]
    BY <1>7, <2>1
  <2>5. q.sent[q.socket] \o q.sendQueue =
          [i \in 1 .. q.handed |-> [socket |-> q.socket, n |-> i]]
    <3>1. FramesOf(s, q.handed) = [i \in 1 .. q.handed |-> [socket |-> q.socket, n |-> i]]
      BY <1>7 DEF FramesOf
    <3> QED
      BY <2>3, <3>1, Zenon
  <2>6. IF q.socket = 0 THEN q.sendQueue = <<>>
        ELSE q.sent[q.socket] \o q.sendQueue =
               [i \in 1 .. q.handed |-> [socket |-> q.socket, n |-> i]]
    BY <1>1, <1>7, <2>5
  <2> QED
    BY <2>2, <2>4, <2>6 DEF Apart
<1>9. \A u \in Sockets : /\ rs[u] = "none" => sent[u] = <<>>
                         /\ Live(q, u) => u = s
  BY <1>1, <1>6, <1>7 DEF Fine, Sound, Live
<1>10. q.error /\ ~q.disturbed => FALSE
  BY <1>1, <1>7 DEF Fine, Sound
<1> QED
  BY <1>1, <1>2, <1>6, <1>7, <1>8, <1>9, <1>10 DEF Fine, Sound

\* Only the current socket delivers.
LEMMA Receiving ==
  ASSUME NEW p, Fine(p), NEW s \in Sockets, p.readyState[s] = "open",
         NEW q, q = [p EXCEPT !.receiveBuffer = Append(@, s)]
  PROVE  Fine(q) /\ q.socket = p.socket
<1>1. p \in Page /\ s = p.socket /\ p.receiveBuffer \in Seq(Sockets)
  BY DEF Fine, Sound, Live, Page
<1> DEFINE more == Append(p.receiveBuffer, s)
<1>2. /\ more \in Seq(Sockets)
      /\ \A i \in DOMAIN more : i \in DOMAIN p.receiveBuffer \/ more[i] = s
      /\ \A i \in DOMAIN p.receiveBuffer : more[i] = p.receiveBuffer[i]
  BY <1>1, AppendProperties
<1>3. q = [p EXCEPT !.receiveBuffer = more]
  BY <1>1 DEF Page
<1> HIDE DEF more
<1>4. /\ q \in Page /\ q.socket = p.socket /\ q.handed = p.handed /\ q.sent = p.sent
      /\ q.sendQueue = p.sendQueue /\ q.receiveBuffer = more
      /\ q.readyState = p.readyState /\ q.connected = p.connected /\ q.error = p.error
      /\ q.disturbed = p.disturbed /\ q.up = p.up
  BY <1>1, <1>2, <1>3 DEF Page
<1>5. Apart(q)
  <2>1. Apart(p)
    BY DEF Fine, Sound
  <2>2. \A i \in DOMAIN more : more[i] = s
    BY <1>1, <1>2, <2>1 DEF Apart
  <2>3. \A i \in DOMAIN q.receiveBuffer : q.receiveBuffer[i] = q.socket
    BY <1>1, <1>4, <2>2
  <2> QED
    BY <1>4, <2>1, <2>3, AgreedApart
<1>6. \A u \in Sockets : /\ q.readyState[u] = "none" => q.sent[u] = <<>>
                         /\ Live(q, u) => u = q.socket
  BY <1>4 DEF Fine, Sound, Live
<1>7. q.socket # 0 =>
        /\ q.readyState[q.socket] # "none"
        /\ q.connected /\ q.readyState[q.socket] = "open" => q.sendQueue = <<>>
        /\ q.error /\ ~q.disturbed => q.readyState[q.socket] = "closed"
  BY <1>4 DEF Fine, Sound
<1> QED
  BY <1>4, <1>5, <1>6, <1>7 DEF Fine, Sound

\* A socket that closes or ends: its queue stays what it is.
MayEnd(p, s, state, failing, error, connected, disturbed) ==
  /\ p.readyState[s] # "none" /\ state \in {"closing", "closed"}
  /\ failing \in SUBSET Sockets /\ error \in BOOLEAN /\ disturbed \in BOOLEAN
  /\ connected \in BOOLEAN /\ (connected => p.connected)
  /\ error /\ ~disturbed /\ p.socket # 0 =>
       IF p.socket = s THEN state = "closed" ELSE p.error /\ ~p.disturbed

AfterEnd(p, s, state, failing, error, connected, disturbed) ==
  [p EXCEPT !.readyState[s] = state, !.failing = failing, !.error = error,
            !.connected = connected, !.disturbed = disturbed]

LEMMA Ending ==
  ASSUME NEW p, Fine(p), NEW s \in Sockets, NEW state, NEW failing, NEW error,
         NEW connected, NEW disturbed,
         MayEnd(p, s, state, failing, error, connected, disturbed)
  PROVE  /\ Fine(AfterEnd(p, s, state, failing, error, connected, disturbed))
         /\ AfterEnd(p, s, state, failing, error, connected, disturbed).socket = p.socket
<1> SUFFICES ASSUME NEW q, q = AfterEnd(p, s, state, failing, error, connected, disturbed)
             PROVE  Fine(q) /\ q.socket = p.socket
  BY Zenon
<1> USE DEF MayEnd, AfterEnd
<1>1. p \in Page
  BY DEF Fine, Sound
<1> DEFINE rs == [p.readyState EXCEPT ![s] = state]
<1>2. q = [p EXCEPT !.readyState = rs, !.failing = failing, !.error = error,
                    !.connected = connected, !.disturbed = disturbed]
  BY <1>1 DEF Page
<1>3. /\ rs \in [Sockets -> ReadyStates] /\ rs[s] = state
      /\ \A u \in Sockets \ {s} : rs[u] = p.readyState[u]
  BY <1>1 DEF Page, ReadyStates
<1> HIDE DEF rs
<1>4. /\ q \in Page /\ q.socket = p.socket /\ q.handed = p.handed /\ q.sent = p.sent
      /\ q.sendQueue = p.sendQueue /\ q.receiveBuffer = p.receiveBuffer
      /\ q.readyState = rs /\ q.connected = connected /\ q.error = error
      /\ q.disturbed = disturbed /\ q.up = p.up
  BY <1>1, <1>2, <1>3 DEF Page
<1>5. Apart(q)
  <2>1. Apart(p)
    BY DEF Fine, Sound
  <2>2. \A i \in DOMAIN q.receiveBuffer : q.receiveBuffer[i] = q.socket
    BY <1>4, <2>1 DEF Apart
  <2> QED
    BY <1>4, <2>1, <2>2, AgreedApart
<1>6. \A u \in Sockets : /\ rs[u] = "none" => p.sent[u] = <<>>
                         /\ Live(q, u) => u = p.socket
  BY <1>3, <1>4 DEF Fine, Sound, Live
<1>7. ASSUME p.socket # 0
      PROVE  /\ rs[p.socket] # "none"
             /\ connected /\ rs[p.socket] = "open" => p.sendQueue = <<>>
             /\ error /\ ~disturbed => rs[p.socket] = "closed"
  <2>1. p.socket \in Sockets
    BY <1>1, <1>7 DEF Page, Sockets
  <2>2. /\ p.readyState[p.socket] # "none"
        /\ p.connected /\ p.readyState[p.socket] = "open" => p.sendQueue = <<>>
        /\ p.error /\ ~p.disturbed => p.readyState[p.socket] = "closed"
    BY <1>7 DEF Fine, Sound
  <2> QED
    BY <1>3, <1>7, <2>1, <2>2
<1> QED
  BY <1>4, <1>5, <1>6, <1>7 DEF Fine, Sound

-----------------------------------------------------------------------------

LEMMA InitFine == Init => Fine(page)
<1> SUFFICES ASSUME Init PROVE Fine(page)
  OBVIOUS
<1>1. PICK none \in Seq(FrameOf), still \in Seq(Sockets) : none = <<>> /\ still = <<>>
  BY EmptySeq
<1> DEFINE rs == [s \in Sockets |-> "none"]
           sent == [s \in Sockets |-> none]
<1>2. page = [socket |-> 0, connected |-> FALSE, error |-> FALSE, sendQueue |-> none,
              receiveBuffer |-> still, readyState |-> rs, failing |-> {}, sent |-> sent,
              up |-> FALSE, stored |-> FALSE, handed |-> 0, disturbed |-> FALSE]
  BY <1>1 DEF Init
<1>3. rs \in [Sockets -> ReadyStates] /\ sent \in [Sockets -> Seq(FrameOf)]
  BY <1>1 DEF ReadyStates
<1>4. /\ DOMAIN none = {} /\ DOMAIN still = {}
      /\ \A s \in Sockets : rs[s] = "none" /\ sent[s] = none
  BY <1>1
<1> HIDE DEF rs, sent
<1>5. 0 \in 0 .. MaxSockets
  BY BoundsAssumption
<1>6. /\ page \in Page /\ page.socket = 0 /\ page.sent = sent /\ page.sendQueue = none
      /\ page.receiveBuffer = still /\ page.readyState = rs /\ page.up = FALSE
  BY <1>2, <1>3, <1>5 DEF Page
<1>7. Apart(page)
  <2>1. \A s \in Sockets : DOMAIN page.sent[s] = {}
    BY <1>4, <1>6
  <2>2. DOMAIN page.receiveBuffer = {} /\ page.sendQueue = <<>>
    BY <1>1, <1>4, <1>6
  <2> QED
    BY <1>6, <2>1, <2>2 DEF Apart
<1> QED
  BY <1>1, <1>4, <1>6, <1>7 DEF Fine, Sound, Live

\* The end of a socket, with or without an error.
LEMMA EndedIsFine ==
  ASSUME Fine(page), NEW s \in Sockets, page.readyState[s] # "none",
         NEW fails \in BOOLEAN, Ended(s, fails)
  PROVE  Fine(page') /\ page'.socket = page.socket
<1>1. page \in Page
  BY DEF Fine, Sound
<1> DEFINE failing == page.failing \ {s}
           error == page.error \/ fails
           disturbed == page.disturbed \/ s # page.socket
<1>2. PICK connected \in BOOLEAN : ~connected
  BY Zenon
<1>3. MayEnd(page, s, "closed", failing, error, connected, disturbed)
  BY <1>2, <1>1 DEF Page, MayEnd
<1>4. page' = AfterEnd(page, s, "closed", failing, error, connected, disturbed)
  BY <1>2 DEF Ended, AfterEnd
<1> HIDE DEF failing, error, disturbed
<1>5. /\ Fine(AfterEnd(page, s, "closed", failing, error, connected, disturbed))
      /\ AfterEnd(page, s, "closed", failing, error, connected, disturbed).socket = page.socket
  BY <1>3, Ending
<1> QED
  BY <1>4, <1>5, Zenon

LEMMA EventIsFine ==
  ASSUME Fine(page), NEW s \in Sockets, Event(s)
  PROVE  Fine(page') /\ page'.socket = page.socket
<1>1. CASE Opened(s)
  BY <1>1, Opening DEF Opened
<1>2. CASE HandshakeFails(s)
  BY <1>2, EndedIsFine DEF HandshakeFails
<1>3. CASE Message(s)
  BY <1>3, Receiving DEF Message
<1>4. CASE ServerCloses(s)
  <2>1. page \in Page /\ page.readyState[s] = "open"
    BY <1>4 DEF Fine, Sound, ServerCloses
  <2>2. /\ page.failing \in SUBSET Sockets /\ page.error \in BOOLEAN
        /\ page.connected \in BOOLEAN /\ page.disturbed \in BOOLEAN
    BY <2>1 DEF Page
  <2>3. ~(page.error /\ ~page.disturbed /\ page.socket # 0)
    BY <2>1 DEF Fine, Sound, Live
  <2>4. page' = AfterEnd(page, s, "closing", page.failing, page.error, page.connected,
                         page.disturbed)
    BY <1>4, <2>1 DEF ServerCloses, Page, AfterEnd
  <2>5. MayEnd(page, s, "closing", page.failing, page.error, page.connected, page.disturbed)
    BY <2>1, <2>2, <2>3 DEF MayEnd
  <2>6. /\ Fine(AfterEnd(page, s, "closing", page.failing, page.error, page.connected,
                         page.disturbed))
        /\ AfterEnd(page, s, "closing", page.failing, page.error, page.connected,
                    page.disturbed).socket = page.socket
    BY <2>5, Ending
  <2> QED
    BY <2>4, <2>6, Zenon
<1>5. CASE ConnectionLost(s)
  BY <1>5, EndedIsFine DEF ConnectionLost
<1>6. CASE Closed(s)
  <2>1. (s \in page.failing) \in BOOLEAN
    OBVIOUS
  <2> QED
    BY <1>6, <2>1, EndedIsFine DEF Closed
<1> QED
  BY <1>1, <1>2, <1>3, <1>4, <1>5, <1>6 DEF Event

LEMMA CallIsFine ==
  ASSUME Fine(page), Call
  PROVE  Fine(page')
<1>1. CASE ConnectCall
  BY <1>1, ConnectingAnew DEF ConnectCall, CanDial
<1>2. CASE ReconnectCall
  BY <1>2, ConnectingAnew DEF ReconnectCall, CanDial
<1>3. CASE DisconnectCall
  BY <1>3, Disconnecting DEF DisconnectCall
<1>4. CASE CreateRoomCall
  <2> DEFINE r == [page EXCEPT !.stored = FALSE]
  <2>1. Fine(r)
    BY Storing, Zenon
  <2>2. page' = SendPayload(r)
    BY <1>4 DEF CreateRoomCall
  <2> HIDE DEF r
  <2> QED
    BY <2>1, <2>2, Sending
<1>5. CASE JoinRoomCall
  BY <1>5, Joining DEF JoinRoomCall
<1>6. CASE SendCall
  BY <1>6, Sending DEF SendCall
<1>7. CASE Poll
  BY <1>7, Polling DEF Poll
<1> QED
  BY <1>1, <1>2, <1>3, <1>4, <1>5, <1>6, <1>7 DEF Call

PageFine == Fine(page)

LEMMA StepIsFine == PageFine /\ [Next]_page => PageFine'
<1> SUFFICES ASSUME Fine(page), [Next]_page PROVE Fine(page')
  BY DEF PageFine
<1>1. CASE Call
  BY <1>1, CallIsFine
<1>2. CASE \E s \in Sockets : Event(s)
  BY <1>2, EventIsFine
<1>3. CASE page' = page
  BY <1>3
<1> QED
  BY <1>1, <1>2, <1>3 DEF Next

THEOREM BridgeInvariance == Spec => []PageFine
<1>1. Init => PageFine
  BY InitFine DEF PageFine
<1> QED
  BY <1>1, StepIsFine, PTL DEF Spec

\* No frame is lost, repeated or sent over a socket it was not handed over for, and no message
\* is read as one of another socket, however often the client reconnects.
THEOREM StreamsStayApart == Spec => []StreamsApart
<1>1. PageFine => StreamsApart
  BY DEF PageFine, Fine, Sound, Apart, StreamsApart
<1> QED
  BY <1>1, BridgeInvariance, PTL

\* A poll that gives up its socket has found it ending, or was told of the end of another.
THEOREM SocketsGivenUpWithCause == Spec => GivenUpWithCause
<1>1. PageFine /\ [Next]_page =>
        [Poll /\ page'.socket # page.socket
           => page.disturbed \/ page.readyState[page.socket] \in {"closing", "closed"}]_page
  BY Polling DEF Poll, PageFine
<1> QED
  BY <1>1, BridgeInvariance, PTL DEF Spec, GivenUpWithCause
=============================================================================
