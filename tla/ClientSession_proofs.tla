------------------------ MODULE ClientSession_proofs ------------------------
(***************************************************************************)
(* No client ever shows a room of an earlier connection, and none loses,   *)
(* repeats or mixes the units of frames, for any sizes of frames and       *)
(* chunks and any number of connections.                                   *)
(*                                                                         *)
(* What is dispatched sets the view to the current connection, so nothing  *)
(* may be dispatched without one: C# has then emptied its buffer, C++ has  *)
(* no socket, and in GML the one connection that keeps its socket without  *)
(* being connected is one that could not be established, on which nothing  *)
(* arrives.                                                                *)
(*                                                                         *)
(* The stream is the concatenation of the frames that are due.  The lemmas *)
(* about concatenation go by induction, on sets of numbers, because the    *)
(* provers cannot instantiate an induction rule with a predicate.          *)
(***************************************************************************)
EXTENDS ClientSession, SequenceTheorems, WellFoundedInduction, TLAPS

Shaped(c) == DOMAIN c = {"sock", "connected", "view", "buf", "pos"}

\* What a client's own fields say of each other.
Consistent(c) ==
  /\ Shaped(c)
  /\ c.sock \in BOOLEAN /\ c.connected \in BOOLEAN
  /\ c.connected => c.sock
  /\ lib = "cpp" /\ c.sock => c.connected
  /\ lib # "gml" => c.pos = 0
  /\ InCSharp /\ ~c.connected => c.buf = <<>>
  /\ IF c.connected THEN c.view \in {0, epoch} ELSE InCSharp \/ c.view = 0

\* A client that has read nothing.
Blank(c) == c.buf = <<>> /\ c.pos = 0 /\ c.view = 0

\* Nothing to read while a connection is being established, or when that has failed.
NothingComes == wire = <<>> /\ ready = 0

SessionInv ==
  /\ lib \in {"cpp", "cs", "ws", "gml"}
  /\ Consistent(cl)
  /\ opening => lib \in {"ws", "gml"}
  /\ opening /\ cl.sock => Blank(cl) /\ NothingComes
  /\ lib = "gml" /\ cl.sock /\ ~cl.connected =>
       Blank(cl) /\ NothingComes /\ ~open /\ ~opening

-----------------------------------------------------------------------------

\* Leaving a room resets the view and no more.
LEMMA LeavingRoom ==
  ASSUME NEW c, Consistent(c)
  PROVE  /\ Consistent(LeftRoom(c))
         /\ LeftRoom(c).sock = c.sock /\ LeftRoom(c).connected = c.connected
         /\ LeftRoom(c).buf = c.buf /\ LeftRoom(c).pos = c.pos /\ LeftRoom(c).view = 0
  BY DEF Consistent, Shaped, LeftRoom

\* Disconnecting gives up the socket; only C++ keeps its buffer.
LEMMA Disconnecting ==
  ASSUME NEW c, Consistent(c)
  PROVE  /\ Consistent(Disconnected(c))
         /\ ~Disconnected(c).sock /\ ~Disconnected(c).connected /\ Disconnected(c).view = 0
         /\ lib # "cpp" => Disconnected(c).buf = <<>> /\ Disconnected(c).pos = 0
<1> DEFINE d == LeftRoom(ClosesSocket(c))
<1>1. /\ Shaped(d)
      /\ d.sock = FALSE /\ d.connected = FALSE /\ d.view = 0
      /\ d.buf = c.buf /\ d.pos = c.pos
  BY DEF Consistent, Shaped, LeftRoom, ClosesSocket
<1> HIDE DEF d
<1>2. CASE lib = "cpp"
  <2>1. Disconnected(c) = d
    BY <1>2 DEF Disconnected, d
  <2> QED
    BY <1>1, <1>2, <2>1 DEF Consistent, InCSharp
<1>3. CASE lib # "cpp"
  <2>1. Disconnected(c) = [d EXCEPT !.buf = <<>>, !.pos = 0]
    BY <1>3 DEF Disconnected, d
  <2> QED
    BY <1>1, <1>3, <2>1 DEF Consistent, Shaped
<1> QED
  BY <1>2, <1>3

\* So does finding the connection gone.
LEMMA Losing ==
  ASSUME NEW c, Consistent(c), lib \in {"cpp", "cs", "ws", "gml"}
  PROVE  Consistent(Lost(c)) /\ ~Lost(c).sock
<1> DEFINE d == ClosesSocket(c)
<1>1. /\ Shaped(d)
      /\ d.sock = FALSE /\ d.connected = FALSE /\ d.view = c.view
      /\ d.buf = c.buf /\ d.pos = c.pos
  BY DEF Consistent, Shaped, ClosesSocket
<1> HIDE DEF d
<1>2. CASE lib = "cpp"
  <2>1. Lost(c) = [LeftRoom(d) EXCEPT !.buf = <<>>]
    BY <1>2 DEF Lost, d
  <2> QED
    BY <1>1, <1>2, <2>1 DEF Consistent, Shaped, LeftRoom, InCSharp
<1>3. CASE InCSharp
  <2>1. Lost(c) = [d EXCEPT !.buf = <<>>]
    BY <1>3 DEF Lost, d, InCSharp
  <2> QED
    BY <1>1, <1>3, <2>1 DEF Consistent, Shaped, InCSharp
<1>4. CASE lib = "gml"
  <2>1. Lost(c) = LeftRoom(d)
    BY <1>4 DEF Lost, d, InCSharp
  <2> QED
    BY <1>1, <1>4, <2>1 DEF Consistent, Shaped, LeftRoom, InCSharp
<1> QED
  BY <1>2, <1>3, <1>4 DEF InCSharp

\* A client without bytes has no frame.
LEMMA NoBytesNoFrame ==
  ASSUME NEW c, c.buf = <<>>, c.pos = 0
  PROVE  ~HasFrame(c)
  BY DEF HasFrame, Unread

\* What a callback makes of a client is consistent, and connected as before or without
\* its socket.
LEMMA Reacting ==
  ASSUME NEW c, Consistent(c), NEW d \in Reactions(c)
  PROVE  Consistent(d) /\ (d.sock => c.sock /\ (d.connected <=> c.connected))
<1>1. CASE d = c
  BY <1>1
<1>2. CASE d = LeftRoom(c)
  BY <1>2, LeavingRoom
<1>3. CASE d = Disconnected(c)
  BY <1>3, Disconnecting
<1> QED
  BY <1>1, <1>2, <1>3 DEF Reactions

\* A connected client may show the room of its connection.
LEMMA Seeing ==
  ASSUME NEW c, Consistent(c), c.connected, NEW unit
  PROVE  Consistent(Seen(c, unit)) /\ Seen(c, unit).connected /\ Seen(c, unit).sock
  BY DEF Consistent, Shaped, Seen

\* Dispatching a frame of a connected client keeps it consistent, and connected or
\* without its socket.
LEMMA Dispatching ==
  ASSUME NEW c, Consistent(c), c.connected, NEW d \in Dispatched(c),
         lib \in {"cpp", "cs", "ws", "gml"}
  PROVE  Consistent(d) /\ (d.sock => d.connected)
<1> DEFINE unit == Head(Unread(c))
<1>1. CASE lib = "cpp"
  <2>1. PICK r \in Reactions(Seen(c, unit)) : d = Cut(r, unit.size)
    BY <1>1 DEF Dispatched
  <2>2. Consistent(r) /\ (r.sock => r.connected)
    BY Seeing, Reacting
  <2> QED
    BY <1>1, <2>1, <2>2 DEF Cut, Consistent, Shaped, InCSharp
<1>2. CASE InCSharp
  <2> DEFINE rest == Cut(c, unit.size)
  <2>1. d \in Reactions(Seen(rest, unit))
    BY <1>2 DEF Dispatched, InCSharp
  <2>2. Consistent(rest) /\ rest.connected
    BY <1>2 DEF Cut, Consistent, Shaped
  <2> QED
    BY <2>1, <2>2, Seeing, Reacting
<1>3. CASE lib = "gml"
  <2> DEFINE rest == [c EXCEPT !.pos = @ + unit.size]
  <2>1. PICK r \in Reactions(Seen(rest, unit)) : d = Compacted(r, Len(c.buf))
    BY <1>3 DEF Dispatched, InCSharp
  <2>2. Consistent(rest) /\ rest.connected
    BY <1>3 DEF Consistent, Shaped, InCSharp
  <2>3. Consistent(r) /\ (r.sock => r.connected)
    BY <2>2, Seeing, Reacting
  <2> QED
    BY <1>3, <2>1, <2>3 DEF Compacted, Consistent, Shaped, InCSharp
<1> QED
  BY <1>1, <1>2, <1>3 DEF InCSharp

-----------------------------------------------------------------------------

\* Consistency outlives a step that keeps the connection and makes a consistent client.
LEMMA Staying ==
  ASSUME Consistent(cl'), lib' = lib, epoch' = epoch
  PROVE  Consistent(cl)'
  BY DEF Consistent, Shaped, InCSharp

\* The calls of the application between polls.
LEMMA CallStep ==
  ASSUME SessionInv, ConnectFails \/ Disconnect \/ Leave \/ SendFails
  PROVE  SessionInv'
<1> USE DEF SessionInv
<1>1. /\ cl' \in {Disconnected(cl), LeftRoom(cl), Lost(cl)}
      /\ UNCHANGED <<lib, epoch, opening, open, frames, wire, ready, at, taken>>
  BY DEF ConnectFails, Disconnect, Leave, SendFails, Calls
<1>2. Consistent(cl') /\ (cl'.sock => cl' = LeftRoom(cl))
  BY <1>1, LeavingRoom, Disconnecting, Losing
<1>3. Consistent(cl)'
  BY <1>1, <1>2, Staying
<1>4. cl'.sock => /\ cl.sock /\ (cl'.connected <=> cl.connected)
                  /\ Blank(cl) => Blank(cl')
  BY <1>2, LeavingRoom DEF Blank
<1> QED
  BY <1>1, <1>3, <1>4 DEF Blank, NothingComes

\* A new connection starts without a view, and where it is still to be established,
\* with nothing read.
LEMMA ConnectStep ==
  ASSUME SessionInv, Connect
  PROVE  SessionInv'
<1> USE DEF SessionInv
<1>1. /\ cl' = [Disconnected(cl) EXCEPT !.sock = TRUE, !.connected = TRUE, !.buf = <<>>]
      /\ UNCHANGED lib
      /\ opening' = (lib \in {"ws", "gml"})
      /\ wire' = <<>> /\ ready' = 0
  BY DEF Connect, Connected
<1>2. /\ Consistent(Disconnected(cl)) /\ Disconnected(cl).view = 0
      /\ lib # "cpp" => Disconnected(cl).pos = 0
  BY Disconnecting
<1>3. /\ Shaped(cl') /\ cl'.sock /\ cl'.connected /\ cl'.sock = TRUE /\ cl'.connected = TRUE
      /\ cl'.view = 0 /\ cl'.buf = <<>> /\ cl'.pos = Disconnected(cl).pos
  BY <1>1, <1>2 DEF Consistent, Shaped
<1>4. Consistent(cl)'
  BY <1>1, <1>2, <1>3 DEF Consistent, Shaped, InCSharp
<1> QED
  BY <1>1, <1>2, <1>3, <1>4 DEF Blank, NothingComes

\* The network: nothing is sent, hence nothing arrives, before the connection is
\* established.
LEMMA NetworkStep ==
  ASSUME SessionInv,
         Opens \/ ServerCloses \/ Arrive \/ \E f \in Frame : ServerSends(f)
  PROVE  SessionInv'
<1> USE DEF SessionInv
<1>1. UNCHANGED <<lib, epoch, cl>> /\ Consistent(cl)'
  BY Staying DEF Opens, ServerCloses, Arrive, ServerSends
<1>2. CASE Opens
  BY <1>1, <1>2 DEF Opens, Blank, NothingComes
<1>3. CASE ServerCloses
  BY <1>1, <1>3 DEF ServerCloses, Blank, NothingComes
<1>4. CASE Arrive
  BY <1>1, <1>4 DEF Arrive, Blank, NothingComes
<1>5. ASSUME NEW f \in Frame, ServerSends(f)
      PROVE  SessionInv'
  BY <1>1, <1>5 DEF ServerSends, Blank, NothingComes
<1> QED
  BY <1>2, <1>3, <1>4, <1>5

\* A connection that fails to be established has brought nothing.
LEMMA OpeningFailsStep ==
  ASSUME SessionInv, OpeningFails
  PROVE  SessionInv'
<1> USE DEF SessionInv
<1>1. UNCHANGED <<lib, epoch, wire, ready>> /\ opening' = FALSE /\ open' = FALSE
  BY DEF OpeningFails
<1>2. Blank(cl) /\ NothingComes
  BY DEF OpeningFails
<1>3. CASE lib = "gml"
  <2>1. cl' = [cl EXCEPT !.connected = FALSE]
    BY <1>3 DEF OpeningFails
  <2>2. Consistent(cl') /\ Blank(cl')
    BY <1>2, <1>3, <2>1 DEF Consistent, Shaped, Blank, InCSharp
  <2> QED
    BY <1>1, <1>2, <2>2, Staying DEF NothingComes
<1>4. CASE lib # "gml"
  <2>1. cl' = cl
    BY <1>4 DEF OpeningFails
  <2> QED
    BY <1>1, <1>4, <2>1, Staying
<1> QED
  BY <1>3, <1>4

\* Reading into the buffer of a connected client, or one whose connection is not C#'s.
LEMMA Reading ==
  ASSUME NEW c, Consistent(c), ~InCSharp \/ c.connected, NEW read
  PROVE  LET d == [c EXCEPT !.buf = read]
         IN  /\ Consistent(d)
             /\ d.sock = c.sock /\ d.connected = c.connected /\ d.view = c.view
  BY DEF Consistent, Shaped

\* A poll begins by reading what has arrived, or finds the connection gone.
LEMMA StartStep ==
  ASSUME SessionInv, StartPoll \/ DataEvent \/ DisconnectEvent
  PROVE  SessionInv'
<1> USE DEF SessionInv, Goes
<1>1. CASE StartPollCpp
  BY <1>1, Staying DEF StartPollCpp, Blank, NothingComes
<1>2. CASE StartPollCs
  <2>1. cl' = [cl EXCEPT !.buf = @ \o SubSeq(wire, 1, ready)] /\ cl.connected
    BY <1>2 DEF StartPollCs, Reads
  <2>2. Consistent(cl')
    BY <2>1, Reading
  <2> QED
    BY <1>2, <2>2, Staying DEF StartPollCs
<1>3. CASE StartPollWs
  <2>1. lib = "ws" /\ opening' = FALSE /\ UNCHANGED <<lib, epoch>>
    BY <1>3 DEF StartPollWs
  <2>2. cl' \in {Lost(cl), [cl EXCEPT !.buf = @ \o Messages]}
    BY <1>3 DEF StartPollWs
  <2>3. Consistent(Lost(cl)) /\ Consistent([cl EXCEPT !.buf = @ \o Messages])
    BY <1>3, Reading, Losing DEF StartPollWs
  <2>4. Consistent(cl')
    BY <2>2, <2>3
  <2> QED
    BY <2>1, <2>4, Staying
<1>4. CASE StartPollGml
  BY <1>4, Staying DEF StartPollGml, Blank, NothingComes
<1>5. CASE DataEvent
  <2>1. lib = "gml" /\ cl.sock /\ UNCHANGED <<lib, epoch, opening, open>>
    BY <1>5 DEF DataEvent
  <2>2. ~opening /\ cl.connected
    BY <1>5, <2>1 DEF DataEvent, NothingComes
  <2>3. cl' = [cl EXCEPT !.buf = @ \o SubSeq(wire, 1, ready)]
    BY <1>5 DEF DataEvent, Reads
  <2>4. Consistent(cl') /\ cl'.connected
    BY <2>2, <2>3, Reading
  <2> QED
    BY <2>1, <2>2, <2>4, Staying
<1>6. CASE DisconnectEvent
  BY <1>6, Losing, Staying DEF DisconnectEvent
<1> QED
  BY <1>1, <1>2, <1>3, <1>4, <1>5, <1>6 DEF StartPoll

\* A client in C# or GML that has a frame to dispatch is connected, and so is a C++
\* client that still has its socket.
LEMMA DispatchStep ==
  ASSUME SessionInv, PollStep
  PROVE  SessionInv'
<1> USE DEF SessionInv, Goes
<1>1. UNCHANGED <<lib, epoch, opening, open>>
  BY DEF PollStep, TryRecvFrame, ProcessFrame
<1>2. CASE TryRecvFrame
  <2>1. lib = "cpp" /\ ~opening
    BY <1>2 DEF TryRecvFrame
  <2>2. CASE RecvFails
    <3>1. cl' = Lost(cl)
      BY <1>2, <2>2 DEF TryRecvFrame
    <3> QED
      BY <1>1, <2>1, <3>1, Losing, Staying
  <2>3. CASE ~RecvFails
    <3> DEFINE n == IF ready < Chunk THEN ready ELSE Chunk
               c == Reads(cl, n)
    <3>1. cl' = c \/ cl' \in Dispatched(c)
      BY <1>2, <2>3 DEF TryRecvFrame
    <3>2. cl.connected
      BY <2>1, <2>3 DEF RecvFails, Consistent
    <3>3. Consistent(c) /\ c.connected
      BY <3>2, Reading DEF Reads
    <3>4. Consistent(cl')
      BY <3>1, <3>3, Dispatching
    <3> QED
      BY <1>1, <2>1, <3>4, Staying
  <2> QED
    BY <2>2, <2>3
<1>3. CASE ProcessFrame
  <2>1. CASE HasFrame(cl) /\ (lib = "gml" => cl.sock)
    <3>1. cl' \in Dispatched(cl) /\ lib # "cpp"
      BY <1>3, <2>1 DEF ProcessFrame
    <3>2. cl.connected /\ cl.sock /\ ~opening
      BY <2>1, <3>1, NoBytesNoFrame DEF Consistent, Blank, InCSharp
    <3>3. Consistent(cl') /\ (cl'.sock => cl'.connected)
      BY <3>1, <3>2, Dispatching
    <3> QED
      BY <1>1, <3>2, <3>3, Staying
  <2>2. CASE ~(HasFrame(cl) /\ (lib = "gml" => cl.sock))
    <3>1. cl' = cl /\ UNCHANGED <<wire, ready>>
      BY <1>3, <2>2 DEF ProcessFrame
    <3> QED
      BY <1>1, <3>1, Staying DEF Blank, NothingComes
  <2> QED
    BY <2>1, <2>2
<1> QED
  BY <1>2, <1>3 DEF PollStep

-----------------------------------------------------------------------------

\* The invariant, for every library, all sizes and chunks, and any number of connections.
THEOREM SessionInvariance == Spec => []SessionInv
<1>1. Init => SessionInv
  BY LibrariesAssumption
     DEF Init, SessionInv, Consistent, Shaped, Blank, NothingComes, InCSharp
<1>2. SessionInv /\ [Next]_vars => SessionInv'
  <2> SUFFICES ASSUME SessionInv, [Next]_vars
               PROVE  SessionInv'
    OBVIOUS
  <2>1. CASE Next
    BY <2>1, ConnectStep, CallStep, NetworkStep, OpeningFailsStep, StartStep, DispatchStep
       DEF Next
  <2>2. CASE UNCHANGED vars
    BY <2>2, Staying DEF vars, SessionInv, Blank, NothingComes
  <2> QED
    BY <2>1, <2>2
<1> QED
  BY <1>1, <1>2, PTL DEF Spec

\* The room a client shows is never one of an earlier connection, and without a
\* connection the C++ and GML clients show none: each library's connect, disconnect and
\* loss reset what the others leave (roomie_client.cpp:411-423 and 545-563,
\* RoomieClient.cs:182-208, roomie_client.gml:35-45 and 128-140).
THEOREM ViewsAreCurrent == Spec => []ViewCurrent
<1>1. SessionInv => ViewCurrent
  BY DEF SessionInv, Consistent, ViewCurrent
<1> QED
  BY <1>1, SessionInvariance, PTL

-----------------------------------------------------------------------------
(* Concatenation of any number of sequences, by induction on the sets of    *)
(* numbers for which a lemma holds.                                        *)

\* A set of numbers that has zero, and the successor of each of its numbers, has all.
LEMMA AllNumbers ==
  ASSUME NEW S, 0 \in S, \A n \in Nat : n \in S => n + 1 \in S
  PROVE  \A n \in Nat : n \in S
<1> SUFFICES ASSUME Nat \ S # {} PROVE FALSE
  OBVIOUS
<1> DEFINE less == {pair \in Nat \X Nat : pair[1] < pair[2]}
<1>1. IsWellFoundedOn(less, Nat)
  BY NatLessThanWellFounded DEF OpToRel
<1> HIDE DEF less
<1>2. PICK n \in Nat \ S : \A m \in Nat \ S : <<m, n>> \notin less
  BY <1>1, WFMin
<1>3. n # 0 /\ n - 1 \in Nat
  BY <1>2
<1>4. n - 1 \notin S
  BY <1>2, <1>3
<1>5. <<n - 1, n>> \in less
  BY <1>3 DEF less
<1> QED
  BY <1>2, <1>3, <1>4, <1>5

\* What is on the way to the concatenation of the first n of the sequences in s.
Steps(g, s, n) == g = [i \in 1 .. n |-> IF i = 1 THEN s[i] ELSE g[i-1] \o s[i]]

\* The equation that defines them.
LEMMA StepsAre ==
  ASSUME NEW g, NEW s, NEW n \in Nat, Steps(g, s, n), NEW i \in 1 .. n
  PROVE  g[i] = IF i = 1 THEN s[i] ELSE g[i-1] \o s[i]
<1> DEFINE f == [k \in 1 .. n |-> IF k = 1 THEN s[k] ELSE g[k-1] \o s[k]]
<1>1. f[i] = IF i = 1 THEN s[i] ELSE g[i-1] \o s[i]
  OBVIOUS
<1>2. g = f
  BY Zenon DEF Steps
<1> QED
  BY <1>1, <1>2, Zenon

\* There are such steps for every length.
LEMMA StepsExist ==
  ASSUME NEW s
  PROVE  \A n \in Nat : \E g : Steps(g, s, n)
<1> DEFINE S == {n \in Nat : \E g : Steps(g, s, n)}
<1>1. 0 \in S
  <2>1. Steps([i \in {} |-> s], s, 0)
    BY DEF Steps
  <2> QED
    BY <2>1
<1>2. ASSUME NEW n \in Nat, n \in S PROVE n + 1 \in S
  <2>1. PICK g : Steps(g, s, n)
    BY <1>2
  <2> DEFINE h == [i \in 1 .. n + 1 |-> IF i = 1 THEN s[i] ELSE g[i-1] \o s[i]]
  <2>2. ASSUME NEW i \in 1 .. n PROVE h[i] = g[i]
    BY <2>1, StepsAre
  <2>3. h = [i \in 1 .. n + 1 |-> IF i = 1 THEN s[i] ELSE h[i-1] \o s[i]]
    <3>1. ASSUME NEW i \in 1 .. n + 1, i # 1 PROVE g[i-1] = h[i-1]
      <4>1. i - 1 \in 1 .. n
        BY <3>1
      <4> HIDE DEF h
      <4> QED
        BY <2>2, <4>1
    <3> DEFINE e == [i \in 1 .. n + 1 |-> IF i = 1 THEN s[i] ELSE h[i-1] \o s[i]]
    <3>2. ASSUME NEW i \in 1 .. n + 1 PROVE h[i] = e[i]
      BY <3>1
    <3> QED
      BY <3>2
  <2> HIDE DEF h
  <2>4. Steps(h, s, n + 1)
    BY <2>3 DEF Steps
  <2> QED
    BY <2>4
<1> HIDE DEF S
<1>3. \A n \in Nat : n \in S
  BY <1>1, <1>2, AllNumbers
<1> QED
  BY <1>3 DEF S

\* They only depend on those sequences.
LEMMA StepsAgree ==
  ASSUME NEW s, NEW t, NEW n \in Nat, NEW g, NEW h, NEW m \in Nat, n <= m,
         Steps(g, s, n), Steps(h, t, m), \A i \in 1 .. n : s[i] = t[i]
  PROVE  \A i \in 1 .. n : g[i] = h[i]
<1>1. ASSUME NEW i \in 1 .. n
      PROVE  /\ g[i] = IF i = 1 THEN s[i] ELSE g[i-1] \o s[i]
             /\ h[i] = IF i = 1 THEN t[i] ELSE h[i-1] \o t[i]
  <2>1. i \in 1 .. m
    OBVIOUS
  <2> QED
    BY <2>1, StepsAre
<1> DEFINE S == {k \in Nat : k \in 1 .. n => g[k] = h[k]}
<1>2. 0 \in S
  OBVIOUS
<1>3. ASSUME NEW k \in Nat, k \in S PROVE k + 1 \in S
  <2> SUFFICES ASSUME NEW i \in 1 .. n, i = k + 1 PROVE g[i] = h[i]
    OBVIOUS
  <2>1. CASE i = 1
    BY <1>1, <2>1
  <2>2. CASE i # 1
    <3>1. k = i - 1 /\ g[k] = h[k]
      BY <1>3, <2>2
    <3> QED
      BY <1>1, <2>2, <3>1
  <2> QED
    BY <2>1, <2>2
<1> HIDE DEF S
<1>4. \A k \in Nat : k \in S
  BY <1>2, <1>3, AllNumbers
<1> QED
  BY <1>4 DEF S

\* The last step is what FlattenSeq gives.
LEMMA FlattenIs ==
  ASSUME NEW s, Len(s) \in Nat \ {0}
  PROVE  \E g : Steps(g, s, Len(s)) /\ FlattenSeq(s) = g[Len(s)]
<1> DEFINE f == CHOOSE g : g = [i \in 1 .. Len(s) |-> IF i = 1 THEN s[i] ELSE g[i-1] \o s[i]]
<1>1. FlattenSeq(s) = f[Len(s)]
  BY DEF FlattenSeq
<1>2. f = CHOOSE g : Steps(g, s, Len(s))
  BY DEF Steps
<1>3. \E g : Steps(g, s, Len(s))
  BY StepsExist
<1>4. Steps(f, s, Len(s))
  BY <1>2, <1>3
<1> QED
  BY <1>1, <1>4

\* The concatenation of no sequences is empty.
LEMMA FlattenNone ==
  ASSUME NEW s, Len(s) = 0
  PROVE  FlattenSeq(s) = s
  BY DEF FlattenSeq

\* t is s, of length n, with e behind it.
Longer(t, s, n, e) ==
  /\ Len(s) = n /\ Len(t) = n + 1
  /\ n = 0 => s = <<>>
  /\ \A i \in 1 .. n : t[i] = s[i]
  /\ t[n + 1] = e

\* The last of the sequences comes last.
LEMMA FlattenLast ==
  ASSUME NEW X, NEW e \in Seq(X), NEW n \in Nat, NEW s, NEW t, Longer(t, s, n, e)
  PROVE  FlattenSeq(t) = FlattenSeq(s) \o e
<1> USE DEF Longer
<1>1. PICK g : Steps(g, t, n + 1) /\ FlattenSeq(t) = g[n + 1]
  BY FlattenIs
<1>2. g[n + 1] = IF n = 0 THEN e ELSE g[n] \o e
  <2> SUFFICES ASSUME NEW i \in 1 .. n + 1, i = n + 1
               PROVE  g[i] = IF i = 1 THEN t[i] ELSE g[i - 1] \o t[i]
    <3>1. /\ n + 1 = 1 <=> n = 0
          /\ n + 1 - 1 = n
          /\ n + 1 \in 1 .. n + 1
      OBVIOUS
    <3> QED
      BY <3>1
  <2>1. n + 1 \in Nat
    OBVIOUS
  <2> QED
    BY <1>1, <2>1, StepsAre
<1>3. CASE n = 0
  <2>1. FlattenSeq(s) = <<>>
    BY <1>3, FlattenNone
  <2>2. <<>> \o e = e
    BY ConcatEmptySeq
  <2> QED
    BY <1>1, <1>2, <1>3, <2>1, <2>2
<1>4. CASE n # 0
  <2>1. PICK h : Steps(h, s, n) /\ FlattenSeq(s) = h[n]
    BY <1>4, FlattenIs
  <2>2. h[n] = g[n]
    <3>1. n + 1 \in Nat /\ n <= n + 1 /\ n \in 1 .. n
      BY <1>4
    <3>2. \A i \in 1 .. n : h[i] = g[i]
      BY <1>1, <2>1, <3>1, StepsAgree
    <3> QED
      BY <3>1, <3>2
  <2> QED
    BY <1>1, <1>2, <1>4, <2>1, <2>2
<1> QED
  BY <1>3, <1>4

\* Appending a sequence to those that are concatenated.
LEMMA FlattenAppend ==
  ASSUME NEW X, NEW s \in Seq(Seq(X)), NEW e \in Seq(X)
  PROVE  FlattenSeq(Append(s, e)) = FlattenSeq(s) \o e
<1> DEFINE t == Append(s, e)
<1>1. PICK n \in Nat : n = Len(s)
  BY LenProperties
<1>2. Longer(t, s, n, e)
  BY <1>1, AppendProperties, EmptySeq DEF Longer
<1> HIDE DEF t
<1>3. FlattenSeq(t) = FlattenSeq(s) \o e
  BY <1>2, FlattenLast, Zenon
<1> QED
  BY <1>3 DEF t

\* The sequences of sequences of each length.
LEMMA Shorter ==
  ASSUME NEW Y, NEW n \in Nat, NEW s \in Seq(Y), Len(s) = n + 1
  PROVE  \E t \in Seq(Y), e \in Y : s = Append(t, e) /\ Len(t) = n
<1>1. s # <<>>
  BY EmptySeq
<1>2. PICK t \in Seq(Y), e \in Y : s = Append(t, e)
  BY <1>1, SequenceEmptyOrAppend
<1>3. Len(s) = Len(t) + 1 /\ Len(t) \in Nat
  BY <1>2, AppendProperties
<1> QED
  BY <1>2, <1>3

\* Sequences over a set make a sequence over that set.
LEMMA FlattenType ==
  ASSUME NEW X
  PROVE  \A s \in Seq(Seq(X)) : FlattenSeq(s) \in Seq(X)
<1> DEFINE S == {n \in Nat : \A s \in Seq(Seq(X)) : Len(s) = n => FlattenSeq(s) \in Seq(X)}
<1>1. 0 \in S
  <2> SUFFICES ASSUME NEW s \in Seq(Seq(X)), Len(s) = 0
               PROVE  FlattenSeq(s) \in Seq(X)
    OBVIOUS
  <2>1. s = <<>>
    BY EmptySeq
  <2> QED
    BY <2>1, FlattenNone, EmptySeq
<1>2. ASSUME NEW n \in Nat, n \in S PROVE n + 1 \in S
  <2> SUFFICES ASSUME NEW s \in Seq(Seq(X)), Len(s) = n + 1
               PROVE  FlattenSeq(s) \in Seq(X)
    OBVIOUS
  <2>1. PICK t \in Seq(Seq(X)), e \in Seq(X) : s = Append(t, e) /\ Len(t) = n
    BY Shorter
  <2>2. FlattenSeq(t) \in Seq(X)
    BY <1>2, <2>1
  <2>3. FlattenSeq(s) = FlattenSeq(t) \o e
    BY <2>1, FlattenAppend
  <2> QED
    BY <2>2, <2>3, ConcatProperties
<1> HIDE DEF S
<1>3. \A n \in Nat : n \in S
  BY <1>1, <1>2, AllNumbers
<1>4. \A s \in Seq(Seq(X)) : Len(s) \in S
  BY <1>3, LenProperties
<1> QED
  BY <1>4 DEF S

\* The first of the sequences comes first.
LEMMA FlattenFirst ==
  ASSUME NEW X, NEW a \in Seq(X)
  PROVE  \A s \in Seq(Seq(X)) : FlattenSeq(<<a>> \o s) = a \o FlattenSeq(s)
<1> DEFINE S == {n \in Nat : \A s \in Seq(Seq(X)) : Len(s) = n =>
                   FlattenSeq(<<a>> \o s) = a \o FlattenSeq(s)}
<1>0. <<a>> \in Seq(Seq(X)) /\ <<>> \in Seq(Seq(X)) /\ <<>> \in Seq(X)
  BY EmptySeq
<1>1. 0 \in S
  <2> SUFFICES ASSUME NEW s \in Seq(Seq(X)), Len(s) = 0
               PROVE  FlattenSeq(<<a>> \o s) = a \o FlattenSeq(s)
    OBVIOUS
  <2>1. s = <<>>
    BY EmptySeq
  <2>2. <<a>> \o s = <<a>> /\ <<a>> = Append(<<>>, a)
    BY <1>0, <2>1, ConcatEmptySeq
  <2>3. FlattenSeq(<<>>) = <<>>
    BY FlattenNone
  <2>4. FlattenSeq(Append(<<>>, a)) = <<>> \o a
    BY <1>0, <2>3, FlattenAppend
  <2>5. <<>> \o a = a /\ a \o <<>> = a
    BY ConcatEmptySeq
  <2> QED
    BY <2>1, <2>2, <2>3, <2>4, <2>5
<1>2. ASSUME NEW n \in Nat, n \in S PROVE n + 1 \in S
  <2>0. n + 1 \in Nat
    OBVIOUS
  <2> SUFFICES ASSUME NEW s \in Seq(Seq(X)), Len(s) = n + 1
               PROVE  FlattenSeq(<<a>> \o s) = a \o FlattenSeq(s)
    BY <2>0, Zenon
  <2>1. PICK t \in Seq(Seq(X)), e \in Seq(X) : s = Append(t, e) /\ Len(t) = n
    BY Shorter
  <2> DEFINE u == <<a>> \o t
  <2>2. FlattenSeq(u) = a \o FlattenSeq(t)
    BY <1>2, <2>1
  <2>3. u \in Seq(Seq(X)) /\ <<a>> \o s = Append(u, e)
    <3>1. s = t \o <<e>> /\ <<e>> \in Seq(Seq(X))
      BY <2>1, AppendIsConcat
    <3>2. u \in Seq(Seq(X))
      BY <1>0, ConcatProperties
    <3>3. Append(u, e) = u \o <<e>>
      BY <3>2, AppendIsConcat
    <3>4. u \o <<e>> = <<a>> \o (t \o <<e>>)
      BY <1>0, <3>1, ConcatAssociative
    <3> QED
      BY <3>1, <3>2, <3>3, <3>4
  <2> HIDE DEF u
  <2>4. FlattenSeq(<<a>> \o s) = FlattenSeq(u) \o e
    BY <2>3, FlattenAppend
  <2>5. FlattenSeq(s) = FlattenSeq(t) \o e
    BY <2>1, FlattenAppend
  <2>6. FlattenSeq(t) \in Seq(X)
    BY FlattenType
  <2>7. ASSUME NEW f \in Seq(X) PROVE (a \o f) \o e = a \o (f \o e)
    BY ConcatAssociative
  <2>8. (a \o FlattenSeq(t)) \o e = a \o (FlattenSeq(t) \o e)
    BY <2>6, <2>7
  <2> QED
    BY <2>2, <2>4, <2>5, <2>8
<1> HIDE DEF S
<1>3. \A n \in Nat : n \in S
  BY <1>1, <1>2, AllNumbers
<1>4. \A s \in Seq(Seq(X)) : Len(s) \in S
  BY <1>3, LenProperties
<1> QED
  BY <1>4 DEF S

\* A sequence is the concatenation of its elements, one by one.
LEMMA FlattenSingles ==
  ASSUME NEW X
  PROVE  \A s \in Seq(X) : FlattenSeq([i \in 1 .. Len(s) |-> <<s[i]>>]) = s
<1> DEFINE Singles(s) == [i \in 1 .. Len(s) |-> <<s[i]>>]
           S == {n \in Nat : \A s \in Seq(X) : Len(s) = n => FlattenSeq(Singles(s)) = s}
<1>0. ASSUME NEW s \in Seq(X) PROVE Singles(s) \in Seq(Seq(X)) /\ Len(Singles(s)) = Len(s)
  <2>1. Len(s) \in Nat /\ \A i \in 1 .. Len(s) : <<s[i]>> \in Seq(X)
    BY LenProperties, ElementOfSeq
  <2>2. Singles(s) \in [1 .. Len(s) -> Seq(X)]
    BY <2>1
  <2> QED
    BY <2>1, <2>2
<1>1. 0 \in S
  <2> SUFFICES ASSUME NEW s \in Seq(X), Len(s) = 0
               PROVE  FlattenSeq(Singles(s)) = s
    OBVIOUS
  <2>1. s = <<>> /\ Singles(s) = <<>>
    BY <1>0, EmptySeq
  <2> HIDE DEF Singles
  <2> QED
    BY <2>1, FlattenNone
<1>2. ASSUME NEW n \in Nat, n \in S PROVE n + 1 \in S
  <2> SUFFICES ASSUME NEW s \in Seq(X), Len(s) = n + 1
               PROVE  FlattenSeq(Singles(s)) = s
    OBVIOUS
  <2>1. PICK t \in Seq(X), e \in X : s = Append(t, e) /\ Len(t) = n
    BY Shorter
  <2>2. FlattenSeq(Singles(t)) = t
    BY <1>2, <2>1
  <2>3. Singles(s) = Append(Singles(t), <<e>>)
    <3>1. /\ Len(s) = n + 1 /\ s[n + 1] = e /\ \A i \in 1 .. n : s[i] = t[i]
      BY <2>1, AppendProperties
    <3> DEFINE v == Singles(s)
               w == Append(Singles(t), <<e>>)
    <3>2. /\ v \in Seq(Seq(X)) /\ Len(v) = n + 1
          /\ Singles(t) \in Seq(Seq(X)) /\ Len(Singles(t)) = n
          /\ <<e>> \in Seq(X)
      BY <1>0, <2>1
    <3>3. /\ w \in Seq(Seq(X)) /\ Len(w) = n + 1 /\ w[n + 1] = <<e>>
          /\ \A i \in 1 .. n : w[i] = Singles(t)[i]
      <4> HIDE DEF Singles
      <4> QED
        BY <3>2, AppendProperties
    <3>4. ASSUME NEW i \in 1 .. n + 1 PROVE v[i] = w[i]
      <4>1. v[i] = <<s[i]>>
        BY <3>1
      <4> HIDE DEF v, w, S, Singles
      <4>2. CASE i = n + 1
        BY <3>1, <3>3, <4>1, <4>2
      <4>3. CASE i \in 1 .. n
        <5>1. Singles(t)[i] = <<t[i]>>
          BY <2>1, <4>3 DEF Singles
        <5> QED
          BY <3>1, <3>3, <4>1, <4>3, <5>1
      <4> QED
        BY <4>2, <4>3
    <3> HIDE DEF v, w
    <3>5. v = w
      BY <3>2, <3>3, <3>4, SeqEqual
    <3> QED
      BY <3>5 DEF v, w
  <2> HIDE DEF Singles
  <2>4. Singles(t) \in Seq(Seq(X)) /\ <<e>> \in Seq(X)
    BY <1>0
  <2>5. FlattenSeq(Singles(s)) = t \o <<e>>
    BY <2>2, <2>3, <2>4, FlattenAppend
  <2> QED
    BY <2>1, <2>5, AppendIsConcat
<1> HIDE DEF S
<1>3. \A n \in Nat : n \in S
  BY <1>1, <1>2, AllNumbers
<1>4. \A s \in Seq(X) : Len(s) \in S
  BY <1>3, LenProperties
<1> QED
  BY <1>4 DEF S

-----------------------------------------------------------------------------
(* Cutting sequences.                                                      *)

\* What is left of a sequence after its first p elements.
After(s, p) == SubSeq(s, p + 1, Len(s))

\* Its elements.
LEMMA AfterIs ==
  ASSUME NEW X, NEW s \in Seq(X), NEW p \in 0 .. Len(s)
  PROVE  /\ After(s, p) \in Seq(X) /\ Len(After(s, p)) = Len(s) - p
         /\ \A i \in 1 .. Len(s) - p : After(s, p)[i] = s[p + i]
<1>1. Len(s) \in Nat /\ \A i \in 1 .. Len(s) : s[i] \in X
  BY LenProperties, ElementOfSeq
<1>2. ASSUME NEW m \in Int, NEW n \in Int, m = p + 1, n = Len(s)
      PROVE  /\ SubSeq(s, m, n) \in Seq(X)
             /\ Len(SubSeq(s, m, n)) = Len(s) - p
             /\ \A i \in 1 .. Len(s) - p : SubSeq(s, m, n)[i] = s[p + i]
  <2>1. \A i \in m .. n : s[i] \in X
    BY <1>1, <1>2
  <2>2. /\ SubSeq(s, m, n) \in Seq(X)
        /\ Len(SubSeq(s, m, n)) = IF m <= n THEN n - m + 1 ELSE 0
        /\ \A i \in 1 .. n - m + 1 : SubSeq(s, m, n)[i] = s[m + i - 1]
    BY <2>1, SubSeqProperties
  <2>3. ASSUME NEW i \in 1 .. Len(s) - p PROVE SubSeq(s, m, n)[i] = s[p + i]
    <3>1. i \in 1 .. n - m + 1 /\ m + i - 1 = p + i
      BY <1>1, <1>2
    <3> QED
      BY <2>2, <3>1
  <2> QED
    BY <1>1, <1>2, <2>2, <2>3
<1> QED
  BY <1>1, <1>2 DEF After

\* After none, and after all.
LEMMA AfterNone ==
  ASSUME NEW X, NEW s \in Seq(X)
  PROVE  After(s, 0) = s /\ After(s, Len(s)) = <<>>
<1>1. Len(s) \in Nat
  BY LenProperties
<1>2. After(s, 0) = s
  BY <1>1, SubSeqFull DEF After
<1>3. After(s, Len(s)) = <<>>
  BY <1>1, SubSeqEmpty DEF After
<1> QED
  BY <1>2, <1>3

\* The first n elements and the rest.
LEMMA Splitting ==
  ASSUME NEW X, NEW s \in Seq(X), NEW n \in 0 .. Len(s)
  PROVE  /\ SubSeq(s, 1, n) \in Seq(X) /\ Len(SubSeq(s, 1, n)) = n
         /\ \A i \in 1 .. n : SubSeq(s, 1, n)[i] = s[i]
         /\ SubSeq(s, 1, n) \o After(s, n) = s
<1>1. Len(s) \in Nat /\ \A i \in 1 .. Len(s) : s[i] \in X
  BY LenProperties, ElementOfSeq
<1>2. SubSeq(s, 1, n) \in Seq(X) /\ Len(SubSeq(s, 1, n)) = n
      /\ \A i \in 1 .. n : SubSeq(s, 1, n)[i] = s[i]
  BY <1>1, SubSeqProperties
<1>3. SubSeq(s, 1, n) \o SubSeq(s, n + 1, Len(s)) = SubSeq(s, 1, Len(s))
  <2>1. PICK m \in Nat, l \in Nat : m = 1 /\ l = Len(s)
    BY <1>1
  <2>2. m \in 1 .. Len(s) + 1 /\ n \in m - 1 .. Len(s) /\ l \in n .. Len(s)
    BY <1>1, <2>1
  <2>3. SubSeq(s, m, n) \o SubSeq(s, n + 1, l) = SubSeq(s, m, l)
    BY <2>2, ConcatAdjacentSubSeq
  <2> QED
    BY <2>1, <2>3
<1> QED
  BY <1>2, <1>3, SubSeqFull DEF After

\* What is left of a concatenation.
LEMMA AfterConcat ==
  ASSUME NEW X, NEW s \in Seq(X), NEW t \in Seq(X), NEW p \in 0 .. Len(s)
  PROVE  After(s \o t, p) = After(s, p) \o t
<1> DEFINE u == s \o t
           v == After(s, p)
<1>1. Len(s) \in Nat /\ Len(t) \in Nat
  BY LenProperties
<1>2. /\ u \in Seq(X) /\ Len(u) = Len(s) + Len(t)
      /\ \A i \in 1 .. Len(s) + Len(t) :
           u[i] = IF i <= Len(s) THEN s[i] ELSE t[i - Len(s)]
  BY ConcatProperties
<1>3. /\ v \in Seq(X) /\ Len(v) = Len(s) - p
      /\ \A i \in 1 .. Len(s) - p : v[i] = s[p + i]
  BY AfterIs
<1> HIDE DEF u, v
<1> DEFINE a == After(u, p)
           b == v \o t
<1>4. p \in 0 .. Len(u)
  BY <1>1, <1>2
<1>5. /\ a \in Seq(X) /\ Len(a) = Len(u) - p
      /\ \A i \in 1 .. Len(u) - p : a[i] = u[p + i]
  BY <1>2, <1>4, AfterIs
<1>6. /\ b \in Seq(X) /\ Len(b) = Len(v) + Len(t)
      /\ \A i \in 1 .. Len(v) + Len(t) :
           b[i] = IF i <= Len(v) THEN v[i] ELSE t[i - Len(v)]
  BY <1>3, ConcatProperties
<1> HIDE DEF a, b
<1>7. ASSUME NEW i \in 1 .. Len(a) PROVE a[i] = b[i]
  <2> DEFINE k == p + i
  <2>1. k \in 1 .. Len(s) + Len(t) /\ a[i] = u[k] /\ i \in 1 .. Len(v) + Len(t)
    BY <1>1, <1>2, <1>3, <1>5
  <2>2. u[k] = IF k <= Len(s) THEN s[k] ELSE t[k - Len(s)]
    <3> HIDE DEF k
    <3> QED
      BY <1>2, <2>1
  <2>3. b[i] = IF i <= Len(v) THEN v[i] ELSE t[i - Len(v)]
    BY <1>6, <2>1
  <2>4. CASE k <= Len(s)
    <3>1. i <= Len(v) /\ i \in 1 .. Len(s) - p
      BY <1>1, <1>3, <2>4
    <3> QED
      BY <1>3, <2>1, <2>2, <2>3, <2>4, <3>1
  <2>5. CASE ~(k <= Len(s))
    <3>1. ~(i <= Len(v)) /\ i - Len(v) = k - Len(s)
      BY <1>1, <1>3, <2>5
    <3> QED
      BY <2>1, <2>2, <2>3, <2>5, <3>1
  <2> QED
    BY <2>4, <2>5
<1>8. Len(a) = Len(b)
  BY <1>1, <1>2, <1>3, <1>5, <1>6
<1>9. a = b
  BY <1>5, <1>6, <1>7, <1>8, SeqEqual
<1> QED
  BY <1>9 DEF a, b, u, v

\* Cutting twice.
LEMMA AfterAfter ==
  ASSUME NEW X, NEW s \in Seq(X), NEW p \in 0 .. Len(s), NEW k \in 0 .. Len(s) - p
  PROVE  After(After(s, p), k) = After(s, p + k)
<1> DEFINE t == After(s, p)
           q == p + k
<1>1. Len(s) \in Nat /\ q \in 0 .. Len(s)
  BY LenProperties
<1>2. /\ t \in Seq(X) /\ Len(t) = Len(s) - p
      /\ \A i \in 1 .. Len(s) - p : t[i] = s[p + i]
  BY AfterIs
<1> HIDE DEF t, q
<1> DEFINE a == After(t, k)
           b == After(s, q)
<1>3. k \in 0 .. Len(t)
  BY <1>2
<1>4. /\ a \in Seq(X) /\ Len(a) = Len(t) - k
      /\ \A i \in 1 .. Len(t) - k : a[i] = t[k + i]
  BY <1>2, <1>3, AfterIs
<1>5. /\ b \in Seq(X) /\ Len(b) = Len(s) - q
      /\ \A i \in 1 .. Len(s) - q : b[i] = s[q + i]
  BY <1>1, AfterIs
<1> HIDE DEF a, b
<1>6. Len(a) = Len(b)
  BY <1>1, <1>2, <1>4, <1>5 DEF q
<1>7. ASSUME NEW i \in 1 .. Len(a) PROVE a[i] = b[i]
  <2> DEFINE m == k + i
  <2>1. m \in 1 .. Len(s) - p /\ i \in 1 .. Len(t) - k /\ i \in 1 .. Len(s) - q
    BY <1>1, <1>2, <1>4, <1>5, <1>6 DEF q
  <2>2. p + m = q + i
    BY DEF q
  <2>3. a[i] = t[m] /\ b[i] = s[q + i]
    BY <1>4, <1>5, <2>1
  <2>4. t[m] = s[p + m]
    <3> HIDE DEF m
    <3> QED
      BY <1>2, <2>1
  <2> QED
    BY <2>2, <2>3, <2>4
<1>8. a = b
  BY <1>4, <1>5, <1>6, <1>7, SeqEqual
<1> QED
  BY <1>8 DEF a, b, t, q

\* What follows the first of two parts, seen from another cut.
LEMMA Cutting ==
  ASSUME NEW X, NEW a \in Seq(X), NEW b \in Seq(X), NEW u \in Seq(X), NEW v \in Seq(X),
         a \o b = u \o v, Len(u) <= Len(a)
  PROVE  After(a, Len(u)) \o b = v
<1>1. Len(a) \in Nat /\ Len(u) \in Nat
  BY LenProperties
<1>2. After(a \o b, Len(u)) = After(a, Len(u)) \o b
  <2>1. PICK p \in 0 .. Len(a) : p = Len(u)
    BY <1>1
  <2>2. After(a \o b, p) = After(a, p) \o b
    BY AfterConcat
  <2> QED
    BY <2>1, <2>2
<1>3. After(u \o v, Len(u)) = After(u, Len(u)) \o v
  BY <1>1, AfterConcat
<1>4. After(u, Len(u)) = <<>> /\ <<>> \o v = v
  BY AfterNone, ConcatEmptySeq
<1> QED
  BY <1>2, <1>3, <1>4

\* The first element does not depend on where a sequence is divided.
LEMMA SameHead ==
  ASSUME NEW X, NEW a \in Seq(X), NEW b \in Seq(X), NEW u \in Seq(X), NEW v \in Seq(X),
         a \o b = u \o v, a # <<>>, u # <<>>
  PROVE  Head(a) = u[1]
<1>1. Len(a) \in Nat \ {0} /\ Len(u) \in Nat \ {0} /\ Len(b) \in Nat /\ Len(v) \in Nat
  BY EmptySeq, LenProperties
<1>2. (a \o b)[1] = a[1]
  BY <1>1, ConcatProperties
<1>3. (u \o v)[1] = u[1]
  BY <1>1, ConcatProperties
<1>4. Head(a) = a[1]
  OBVIOUS
<1> QED
  BY <1>2, <1>3, <1>4

-----------------------------------------------------------------------------
(* The stream of bytes.                                                    *)

\* The frames of each library fit the messages of the bridge.
FramesFit == "ws" \notin Libraries \/ \A s \in Sizes : s <= MaxMessage

\* A unit within its frame.
WholeUnit == {u \in Unit : u.part <= u.size}

\* The units of each frame of fs after the first t.
PartsOf(fs, t) == [i \in 1 .. Len(fs) - t |-> UnitsOf(t + i, fs[t + i])]
Due(fs, t) == FlattenSeq(PartsOf(fs, t))

\* A client that reads within its buffer.
Held(c) == c \in Client /\ c.pos <= Len(c.buf)

\* The inductive invariant: the stream is intact, and an established connection has its
\* number, so that the units of its frames differ from those of every other one.
BytesInv ==
  /\ TypeOK /\ StreamIntact
  /\ Len(frames) <= MaxFrames
  /\ wire \in Seq(WholeUnit)
  /\ cl.sock => epoch # 0

\* The fields of such a client.
LEMMA HeldFields ==
  ASSUME NEW c, Held(c)
  PROVE  /\ Shaped(c) /\ c.sock \in BOOLEAN /\ c.connected \in BOOLEAN
         /\ c.view \in 0 .. MaxEpochs
         /\ c.buf \in Seq(Unit) /\ c.pos \in Nat /\ c.pos \in 0 .. Len(c.buf)
<1>1. Shaped(c) /\ c.sock \in BOOLEAN /\ c.connected \in BOOLEAN /\ c.view \in 0 .. MaxEpochs
      /\ c.buf \in Seq(Unit) /\ c.pos \in Nat
  BY DEF Held, Client, Shaped
<1>2. Len(c.buf) \in Nat
  BY <1>1, LenProperties
<1> QED
  BY <1>1, <1>2 DEF Held

\* Leaving a room and closing the socket leave buffer and position alone.
LEMMA HeldLeft ==
  ASSUME NEW c, Held(c)
  PROVE  Held(LeftRoom(c)) /\ LeftRoom(c).buf = c.buf /\ LeftRoom(c).pos = c.pos
  BY BoundsAssumption DEF Held, LeftRoom, Client

LEMMA HeldClosed ==
  ASSUME NEW c, Held(c)
  PROVE  LET d == ClosesSocket(c)
         IN  Held(d) /\ d.buf = c.buf /\ d.pos = c.pos /\ ~d.sock
  BY DEF Held, ClosesSocket, Client


\* Another buffer, another position, or both.
LEMMA HeldBuffer ==
  ASSUME NEW c, Held(c), NEW buf \in Seq(Unit), c.pos <= Len(buf)
  PROVE  LET d == [c EXCEPT !.buf = buf]
         IN  Held(d) /\ d.buf = buf /\ d.pos = c.pos /\ d.sock = c.sock
  BY DEF Held, Client

LEMMA HeldPosition ==
  ASSUME NEW c, Held(c), NEW pos \in Nat, pos <= Len(c.buf)
  PROVE  LET d == [c EXCEPT !.pos = pos]
         IN  Held(d) /\ d.buf = c.buf /\ d.pos = pos /\ d.sock = c.sock
  BY DEF Held, Client

LEMMA HeldCompact ==
  ASSUME NEW c, Held(c), NEW buf \in Seq(Unit)
  PROVE  LET d == [c EXCEPT !.buf = buf, !.pos = 0]
         IN  Held(d) /\ d.buf = buf /\ d.pos = 0 /\ d.sock = c.sock
<1>1. Len(buf) \in Nat
  BY LenProperties
<1>2. 0 \in Nat /\ 0 <= Len(buf)
  BY <1>1
<1>3. ASSUME NEW pos \in Nat, pos <= Len(buf)
      PROVE  LET d == [c EXCEPT !.buf = buf, !.pos = pos]
             IN  Held(d) /\ d.buf = buf /\ d.pos = pos /\ d.sock = c.sock
  BY <1>3 DEF Held, Client
<1> QED
  BY <1>2, <1>3

LEMMA HeldEmptied ==
  ASSUME NEW c, Held(c)
  PROVE  /\ Held([c EXCEPT !.buf = <<>>, !.pos = 0])
         /\ c.pos = 0 => Held([c EXCEPT !.buf = <<>>])
<1>1. ASSUME NEW buf \in Seq(Unit), Len(buf) = 0
      PROVE  /\ Held([c EXCEPT !.buf = buf, !.pos = 0])
             /\ c.pos = 0 => Held([c EXCEPT !.buf = buf])
  <2>1. Held([c EXCEPT !.buf = buf, !.pos = 0])
    BY HeldCompact, Zenon
  <2>2. ASSUME c.pos = 0 PROVE Held([c EXCEPT !.buf = buf])
    <3>1. c.pos <= Len(buf)
      BY <1>1, <2>2
    <3> QED
      BY <3>1, HeldBuffer, Zenon
  <2> QED
    BY <2>1, <2>2
<1>2. <<>> \in Seq(Unit) /\ Len(<<>>) = 0
  BY EmptySeq
<1> QED
  BY <1>1, <1>2, Zenon

\* Disconnecting and losing a connection keep the position within the buffer.
LEMMA HeldDisconnected ==
  ASSUME NEW c, Held(c)
  PROVE  /\ Held(Disconnected(c)) /\ ~Disconnected(c).sock
         /\ IF lib = "cpp" THEN Disconnected(c).buf = c.buf /\ Disconnected(c).pos = c.pos
            ELSE Disconnected(c).buf = <<>> /\ Disconnected(c).pos = 0
<1> DEFINE d == LeftRoom(ClosesSocket(c))
<1>1. Held(d) /\ d.buf = c.buf /\ d.pos = c.pos /\ ~d.sock
  <2>1. Held(ClosesSocket(c)) /\ ~ClosesSocket(c).sock
    BY HeldClosed
  <2>2. Held(d)
    BY <2>1, HeldLeft
  <2> QED
    BY <2>2, <2>1, HeldClosed, HeldLeft DEF LeftRoom, Held, Client, ClosesSocket
<1> HIDE DEF d
<1>2. CASE lib = "cpp"
  <2>1. Disconnected(c) = d
    BY <1>2 DEF Disconnected, d
  <2> QED
    BY <1>1, <1>2, <2>1
<1>3. CASE lib # "cpp"
  <2>1. Disconnected(c) = [d EXCEPT !.buf = <<>>, !.pos = 0]
    BY <1>3 DEF Disconnected, d
  <2>2. PICK buf \in Seq(Unit) : buf = <<>>
    BY EmptySeq
  <2> DEFINE e == [d EXCEPT !.buf = buf, !.pos = 0]
  <2>3. Held(e) /\ e.buf = buf /\ e.pos = 0 /\ e.sock = d.sock
    BY <1>1, HeldCompact, Zenon
  <2>4. Disconnected(c) = e
    BY <2>1, <2>2
  <2> HIDE DEF e
  <2> QED
    BY <1>1, <1>3, <2>2, <2>3, <2>4
<1> QED
  BY <1>2, <1>3

LEMMA HeldLost ==
  ASSUME NEW c, Held(c), Consistent(c), lib \in {"cpp", "cs", "ws", "gml"}
  PROVE  Held(Lost(c))
<1> DEFINE d == ClosesSocket(c)
<1>1. Held(d) /\ d.pos = c.pos
  BY HeldClosed
<1> HIDE DEF d
<1>2. CASE lib = "cpp"
  <2>1. Lost(c) = [LeftRoom(d) EXCEPT !.buf = <<>>]
    BY <1>2 DEF Lost, d
  <2> QED
    BY <1>1, <1>2, <2>1, HeldLeft, HeldEmptied DEF Consistent
<1>3. CASE InCSharp
  <2>1. Lost(c) = [d EXCEPT !.buf = <<>>]
    BY <1>3 DEF Lost, d, InCSharp
  <2> QED
    BY <1>1, <1>3, <2>1, HeldEmptied DEF Consistent, InCSharp
<1>4. CASE lib = "gml"
  <2>1. Lost(c) = LeftRoom(d)
    BY <1>4 DEF Lost, d, InCSharp
  <2> QED
    BY <1>1, <2>1, HeldLeft
<1> QED
  BY <1>2, <1>3, <1>4 DEF InCSharp

\* Reading w appends it to what is unread.
LEMMA UnreadIs ==
  ASSUME NEW c, Held(c)
  PROVE  Unread(c) = After(c.buf, c.pos) /\ Unread(c) \in Seq(Unit)
         /\ Len(Unread(c)) = Len(c.buf) - c.pos /\ Len(c.buf) \in Nat
         /\ (c.pos = 0 => Unread(c) = c.buf)
<1>1. c.buf \in Seq(Unit) /\ c.pos \in 0 .. Len(c.buf) /\ c.pos \in Nat
  BY HeldFields
<1>2. Unread(c) = After(c.buf, c.pos)
  BY DEF Unread, After
<1>3. ASSUME NEW s \in Seq(Unit), NEW p \in 0 .. Len(s)
      PROVE  /\ After(s, p) \in Seq(Unit) /\ Len(After(s, p)) = Len(s) - p /\ Len(s) \in Nat
             /\ p = 0 => After(s, p) = s
  BY AfterIs, AfterNone, LenProperties
<1> QED
  BY <1>1, <1>2, <1>3

LEMMA HeldReading ==
  ASSUME NEW c, Held(c), NEW w \in Seq(Unit)
  PROVE  LET d == [c EXCEPT !.buf = @ \o w]
         IN  Held(d) /\ Unread(d) = Unread(c) \o w /\ d.sock = c.sock
<1>1. c.buf \in Seq(Unit) /\ c.pos \in 0 .. Len(c.buf) /\ c.pos \in Nat
  BY HeldFields
<1>2. ASSUME NEW s \in Seq(Unit), NEW p \in 0 .. Len(s)
      PROVE  /\ s \o w \in Seq(Unit) /\ p <= Len(s \o w)
             /\ After(s \o w, p) = After(s, p) \o w
  <2>1. s \o w \in Seq(Unit) /\ Len(s \o w) = Len(s) + Len(w)
    BY ConcatProperties
  <2>2. Len(s) \in Nat /\ Len(w) \in Nat
    BY LenProperties
  <2>3. After(s \o w, p) = After(s, p) \o w
    BY AfterConcat
  <2> QED
    BY <2>1, <2>2, <2>3
<1>3. PICK b \in Seq(Unit) : b = c.buf \o w
  BY <1>1, <1>2
<1>4. c.pos <= Len(b) /\ After(b, c.pos) = After(c.buf, c.pos) \o w
  BY <1>1, <1>2, <1>3
<1> DEFINE d == [c EXCEPT !.buf = b]
<1>5. Held(d) /\ d.buf = b /\ d.pos = c.pos /\ d.sock = c.sock
  BY <1>4, HeldBuffer, Zenon
<1>6. d = [c EXCEPT !.buf = @ \o w]
  BY <1>3
<1> HIDE DEF d
<1>7. Unread(d) = Unread(c) \o w
  BY <1>4, <1>5, UnreadIs
<1> QED
  BY <1>5, <1>6, <1>7

\* Cutting off the first n units that are unread, in a buffer read from its start.
LEMMA HeldCut ==
  ASSUME NEW c, Held(c), c.pos = 0, NEW n \in 0 .. Len(Unread(c))
  PROVE  Held(Cut(c, n)) /\ Unread(Cut(c, n)) = After(Unread(c), n)
         /\ Cut(c, n).sock = c.sock
<1>1. Unread(c) = c.buf /\ c.buf \in Seq(Unit)
  BY UnreadIs, HeldFields
<1>2. PICK b \in Seq(Unit) : b = After(c.buf, n)
  BY <1>1, AfterIs
<1>3. c.pos <= Len(b)
  BY <1>2, LenProperties
<1> DEFINE d == [c EXCEPT !.buf = b]
<1>4. Held(d) /\ d.buf = b /\ d.pos = c.pos /\ d.sock = c.sock
  BY <1>3, HeldBuffer, Zenon
<1>5. d = Cut(c, n)
  BY <1>2 DEF Cut, After
<1> HIDE DEF d
<1>6. Unread(d) = b
  BY <1>4, UnreadIs
<1> QED
  BY <1>1, <1>2, <1>4, <1>5, <1>6

\* Advancing the position by the first n units that are unread.
LEMMA HeldAdvance ==
  ASSUME NEW c, Held(c), NEW n \in 0 .. Len(Unread(c))
  PROVE  LET d == [c EXCEPT !.pos = @ + n]
         IN  /\ Held(d) /\ Unread(d) = After(Unread(c), n)
             /\ d.sock = c.sock /\ d.buf = c.buf
<1>1. c.buf \in Seq(Unit) /\ c.pos \in 0 .. Len(c.buf) /\ c.pos \in Nat
  BY HeldFields
<1>2. Len(Unread(c)) = Len(c.buf) - c.pos /\ Len(c.buf) \in Nat
  BY UnreadIs
<1>3. PICK p \in Nat : p = c.pos + n
  BY <1>1, <1>2
<1>4. p <= Len(c.buf)
  BY <1>1, <1>2, <1>3
<1> DEFINE d == [c EXCEPT !.pos = p]
<1>5. Held(d) /\ d.buf = c.buf /\ d.pos = p /\ d.sock = c.sock
  BY <1>4, HeldPosition, Zenon
<1>6. d = [c EXCEPT !.pos = @ + n]
  BY <1>3
<1> HIDE DEF d
<1>7. After(After(c.buf, c.pos), n) = After(c.buf, p)
  <2>1. ASSUME NEW s \in Seq(Unit), NEW q \in 0 .. Len(s), NEW k \in 0 .. Len(s) - q
        PROVE  After(After(s, q), k) = After(s, q + k)
    BY AfterAfter
  <2> QED
    BY <1>1, <1>2, <1>3, <2>1
<1>8. Unread(d) = After(Unread(c), n)
  BY <1>5, <1>7, UnreadIs
<1> QED
  BY <1>5, <1>6, <1>8

\* What GML compacts, by the size its buffer really has or without having read anything.
LEMMA HeldCompacted ==
  ASSUME NEW c, Held(c), NEW total, total = Len(c.buf) \/ c.pos = 0
  PROVE  Held(Compacted(c, total)) /\ Unread(Compacted(c, total)) = Unread(c)
         /\ Compacted(c, total).sock = c.sock
<1>1. CASE c.pos < Threshold
  BY <1>1 DEF Compacted
<1>2. CASE ~(c.pos < Threshold)
  <2>1. c.pos # 0
    BY <1>2, ThresholdAssumption
  <2>2. PICK b \in Seq(Unit) : b = Unread(c)
    BY UnreadIs
  <2> DEFINE d == [c EXCEPT !.buf = b, !.pos = 0]
  <2>3. Held(d) /\ d.buf = b /\ d.pos = 0 /\ d.sock = c.sock
    BY HeldCompact, Zenon
  <2>4. d = Compacted(c, total)
    BY <1>2, <2>1, <2>2 DEF Compacted, Unread
  <2> HIDE DEF d
  <2> QED
    BY <2>2, <2>3, <2>4, UnreadIs
<1> QED
  BY <1>1, <1>2

\* What a callback makes of a client: the bytes are as they were, or it has no socket.
LEMMA HeldReacting ==
  ASSUME NEW c, Held(c), NEW d \in Reactions(c)
  PROVE  /\ Held(d) /\ (d.sock => c.sock)
         /\ \/ d.buf = c.buf /\ d.pos = c.pos
            \/ lib # "cpp" /\ ~d.sock /\ d.buf = <<>> /\ d.pos = 0
<1>1. CASE d = c
  BY <1>1
<1>2. CASE d = LeftRoom(c)
  <2>1. LeftRoom(c).sock = c.sock
    BY HeldFields DEF LeftRoom, Shaped
  <2> QED
    BY <1>2, <2>1, HeldLeft
<1>3. CASE d = Disconnected(c)
  BY <1>3, HeldDisconnected
<1> QED
  BY <1>1, <1>2, <1>3 DEF Reactions

\* A Joined leaves the bytes alone.
LEMMA HeldSeen ==
  ASSUME NEW c, Held(c), epoch \in 0 .. MaxEpochs, NEW unit
  PROVE  /\ Held(Seen(c, unit)) /\ Seen(c, unit).sock = c.sock
         /\ Seen(c, unit).buf = c.buf /\ Seen(c, unit).pos = c.pos
  BY DEF Held, Client, Seen

\* Dispatching a frame takes its units off what is unread, by whichever library.
LEMMA Taking ==
  ASSUME NEW c, Held(c), Consistent(c), epoch \in 0 .. MaxEpochs, HasFrame(c),
         lib \in {"cpp", "cs", "ws", "gml"},
         Head(Unread(c)).size \in Nat, NEW d \in Dispatched(c)
  PROVE  /\ Held(d) /\ (d.sock => c.sock)
         /\ d.sock => Unread(d) = After(Unread(c), Head(Unread(c)).size)
<1> DEFINE unit == Head(Unread(c))
           n == unit.size
<1>1. Unread(c) \in Seq(Unit) /\ n \in 0 .. Len(Unread(c))
  <2>1. Unread(c) \in Seq(Unit) /\ Len(Unread(c)) \in Nat
    BY UnreadIs, LenProperties
  <2> QED
    BY <2>1 DEF HasFrame
<1>2. CASE lib = "cpp"
  <2> DEFINE seen == Seen(c, unit)
  <2>1. PICK r \in Reactions(seen) : d = Cut(r, n)
    BY <1>2 DEF Dispatched
  <2>2. Held(seen) /\ seen.sock = c.sock /\ seen.buf = c.buf /\ seen.pos = c.pos
    BY HeldSeen
  <2> HIDE DEF seen, unit, n
  <2>3. Held(r) /\ (r.sock => c.sock) /\ r.buf = c.buf /\ r.pos = c.pos /\ c.pos = 0
    BY <1>2, <2>2, HeldReacting DEF Consistent
  <2>4. Unread(r) = Unread(c)
    BY <2>3, UnreadIs
  <2>5. Held(d) /\ Unread(d) = After(Unread(r), n) /\ d.sock = r.sock
    BY <1>1, <2>1, <2>3, <2>4, HeldCut
  <2> QED
    BY <2>3, <2>4, <2>5 DEF n, unit
<1>3. CASE InCSharp
  <2> DEFINE rest == Cut(c, n)
             seen == Seen(rest, unit)
  <2>1. d \in Reactions(seen)
    BY <1>3 DEF Dispatched, InCSharp
  <2> HIDE DEF unit, n
  <2>2. Held(rest) /\ Unread(rest) = After(Unread(c), n) /\ rest.sock = c.sock
    BY <1>1, <1>3, HeldCut DEF Consistent, InCSharp
  <2> HIDE DEF rest
  <2>3. Held(seen) /\ seen.sock = rest.sock /\ seen.buf = rest.buf /\ seen.pos = rest.pos
    BY <2>2, HeldSeen
  <2> HIDE DEF seen
  <2>4. Held(d) /\ (d.sock => seen.sock /\ d.buf = seen.buf /\ d.pos = seen.pos)
    BY <2>1, <2>3, HeldReacting
  <2>5. d.sock => Unread(d) = Unread(rest)
    BY <2>2, <2>3, <2>4, UnreadIs
  <2> QED
    BY <2>2, <2>3, <2>4, <2>5 DEF n, unit
<1>4. CASE lib = "gml"
  <2> DEFINE rest == [c EXCEPT !.pos = @ + n]
             seen == Seen(rest, unit)
  <2>1. PICK r \in Reactions(seen) : d = Compacted(r, Len(c.buf))
    BY <1>4 DEF Dispatched, InCSharp
  <2> HIDE DEF unit, n
  <2>2. /\ Held(rest) /\ Unread(rest) = After(Unread(c), n)
        /\ rest.sock = c.sock /\ rest.buf = c.buf
    BY <1>1, HeldAdvance
  <2> HIDE DEF rest
  <2>3. Held(seen) /\ seen.sock = rest.sock /\ seen.buf = rest.buf /\ seen.pos = rest.pos
    BY <2>2, HeldSeen
  <2> HIDE DEF seen
  <2>4. /\ Held(r) /\ (r.sock => seen.sock /\ r.buf = seen.buf /\ r.pos = seen.pos)
        /\ Len(c.buf) = Len(r.buf) \/ r.pos = 0
    BY <2>1, <2>2, <2>3, HeldReacting
  <2>5. r.sock => Unread(r) = Unread(rest)
    BY <2>2, <2>3, <2>4, UnreadIs
  <2>6. Held(d) /\ Unread(d) = Unread(r) /\ d.sock = r.sock
    BY <2>1, <2>4, HeldCompacted
  <2> QED
    BY <2>2, <2>3, <2>4, <2>5, <2>6 DEF n, unit
<1> QED
  BY <1>2, <1>3, <1>4 DEF InCSharp

-----------------------------------------------------------------------------

\* A frame is sent whole, its first unit tells its size.
LEMMA UnitsOfFrame ==
  ASSUME epoch \in 1 .. MaxEpochs, NEW n \in 1 .. MaxFrames, NEW f \in Frame
  PROVE  /\ UnitsOf(n, f) \in Seq(WholeUnit) /\ Len(UnitsOf(n, f)) = f.size
         /\ UnitsOf(n, f) # <<>> /\ UnitsOf(n, f)[1].size = f.size
         /\ f.size \in Nat \ {0}
<1>1. f.size \in Nat \ {0} /\ f.size \in Sizes
  BY SizesAssumption DEF Frame
<1>2. ASSUME NEW p \in 1 .. f.size
      PROVE  [epoch |-> epoch, frame |-> n, part |-> p, size |-> f.size,
              joined |-> f.joined] \in WholeUnit
  BY <1>1 DEF WholeUnit, Unit, Frame
<1>3. UnitsOf(n, f) \in [1 .. f.size -> WholeUnit]
  BY <1>2 DEF UnitsOf
<1>4. UnitsOf(n, f) \in Seq(WholeUnit) /\ Len(UnitsOf(n, f)) = f.size
  BY <1>1, <1>3
<1>5. UnitsOf(n, f) # <<>>
  BY <1>1, <1>4, EmptySeq
<1>6. UnitsOf(n, f)[1].size = f.size
  BY <1>1 DEF UnitsOf
<1> QED
  BY <1>1, <1>4, <1>5, <1>6

\* What is due is a sequence of whole units.
LEMMA PartsType ==
  ASSUME epoch \in 1 .. MaxEpochs, NEW fs \in Seq(Frame), Len(fs) <= MaxFrames,
         NEW t \in 0 .. Len(fs)
  PROVE  /\ PartsOf(fs, t) \in Seq(Seq(WholeUnit)) /\ Len(PartsOf(fs, t)) = Len(fs) - t
         /\ Due(fs, t) \in Seq(WholeUnit)
<1>1. Len(fs) \in Nat /\ Len(fs) - t \in Nat
  BY LenProperties
<1>2. ASSUME NEW i \in 1 .. Len(fs) - t
      PROVE  UnitsOf(t + i, fs[t + i]) \in Seq(WholeUnit)
  <2>1. PICK k \in 1 .. Len(fs) : k = t + i
    BY <1>1
  <2>2. k \in 1 .. MaxFrames /\ fs[k] \in Frame
    BY <1>1, ElementOfSeq, BoundsAssumption
  <2>3. UnitsOf(k, fs[k]) \in Seq(WholeUnit)
    BY <2>2, UnitsOfFrame
  <2> QED
    BY <2>1, <2>3
<1>3. PartsOf(fs, t) \in [1 .. Len(fs) - t -> Seq(WholeUnit)]
  BY <1>2 DEF PartsOf
<1>4. PartsOf(fs, t) \in Seq(Seq(WholeUnit)) /\ Len(PartsOf(fs, t)) = Len(fs) - t
  BY <1>1, <1>3
<1> QED
  BY <1>4, FlattenType DEF Due

\* An element before a sequence.
LEMMA Preceding ==
  ASSUME NEW Y, NEW e \in Y, NEW s \in Seq(Y), NEW t \in Seq(Y), Len(t) = Len(s) + 1,
         \A i \in 1 .. Len(t) : t[i] = IF i = 1 THEN e ELSE s[i - 1]
  PROVE  t = <<e>> \o s
<1>1. Len(s) \in Nat
  BY LenProperties
<1>2. PICK one \in Seq(Y) : one = <<e>> /\ Len(one) = 1 /\ one[1] = e
  <2>1. <<e>> \in Seq(Y) /\ Len(<<e>>) = 1 /\ <<e>>[1] = e
    OBVIOUS
  <2> QED
    BY <2>1, Zenon
<1>3. PICK both \in Seq(Y) :
        /\ both = one \o s /\ Len(both) = 1 + Len(s)
        /\ \A i \in 1 .. 1 + Len(s) : both[i] = IF i <= 1 THEN one[i] ELSE s[i - 1]
  <2>1. /\ one \o s \in Seq(Y) /\ Len(one \o s) = Len(one) + Len(s)
        /\ \A i \in 1 .. Len(one) + Len(s) :
             (one \o s)[i] = IF i <= Len(one) THEN one[i] ELSE s[i - Len(one)]
    BY ConcatProperties
  <2>2. /\ Len(one \o s) = 1 + Len(s)
        /\ \A i \in 1 .. 1 + Len(s) : (one \o s)[i] = IF i <= 1 THEN one[i] ELSE s[i - 1]
    BY <1>2, <2>1, Zenon
  <2> QED
    BY <2>1, <2>2, Zenon
<1>4. ASSUME NEW i \in 1 .. Len(t) PROVE t[i] = both[i]
  BY <1>1, <1>2, <1>3
<1>5. t = both
  BY <1>3, <1>4, SeqEqual
<1> QED
  BY <1>2, <1>3, <1>5

\* Nothing is due when all frames are dispatched.
LEMMA NothingDue ==
  ASSUME NEW fs \in Seq(Frame)
  PROVE  Due(fs, Len(fs)) = <<>>
<1>1. Len(fs) \in Nat
  BY LenProperties
<1>2. PartsOf(fs, Len(fs)) = <<>>
  BY <1>1 DEF PartsOf
<1> QED
  BY <1>2, FlattenNone DEF Due

\* What is due begins with the next frame.
LEMMA FirstDue ==
  ASSUME epoch \in 1 .. MaxEpochs, NEW fs \in Seq(Frame), Len(fs) <= MaxFrames,
         NEW t \in 0 .. Len(fs), t # Len(fs)
  PROVE  Due(fs, t) = UnitsOf(t + 1, fs[t + 1]) \o Due(fs, t + 1)
<1>1. Len(fs) \in Nat
  BY LenProperties
<1>2. PICK n \in 1 .. Len(fs) : n = t + 1
  BY <1>1
<1> DEFINE e == UnitsOf(n, fs[n])
           rest == PartsOf(fs, n)
           all == PartsOf(fs, t)
<1>3. e \in Seq(WholeUnit)
  <2>1. n \in 1 .. MaxFrames /\ fs[n] \in Frame
    BY <1>1, ElementOfSeq, BoundsAssumption
  <2> QED
    BY <2>1, UnitsOfFrame
<1>4. n \in 0 .. Len(fs)
  BY <1>1
<1>5. /\ rest \in Seq(Seq(WholeUnit)) /\ Len(rest) = Len(fs) - n
      /\ all \in Seq(Seq(WholeUnit)) /\ Len(all) = Len(fs) - t
  BY <1>4, PartsType
<1>6. ASSUME NEW i \in 1 .. Len(fs) - t
      PROVE  all[i] = IF i = 1 THEN e ELSE rest[i - 1]
  <2>1. all[i] = UnitsOf(t + i, fs[t + i])
    BY DEF PartsOf
  <2>2. CASE i = 1
    BY <1>2, <2>1, <2>2
  <2>3. CASE i # 1
    <3>1. i - 1 \in 1 .. Len(fs) - n /\ n + (i - 1) = t + i
      BY <1>1, <1>2, <2>3
    <3>2. rest[i - 1] = UnitsOf(n + (i - 1), fs[n + (i - 1)])
      BY <3>1 DEF PartsOf
    <3> QED
      BY <2>1, <2>3, <3>1, <3>2
  <2> QED
    BY <2>2, <2>3
<1>7. all = <<e>> \o rest
  <2> HIDE DEF e, rest, all
  <2>1. Len(all) = Len(rest) + 1 /\ Len(all) = Len(fs) - t
    BY <1>1, <1>2, <1>5
  <2>2. \A i \in 1 .. Len(all) : all[i] = IF i = 1 THEN e ELSE rest[i - 1]
    BY <1>6, <2>1
  <2> QED
    BY <1>3, <1>5, <2>1, <2>2, Preceding
<1> HIDE DEF e, rest
<1>8. FlattenSeq(all) = e \o FlattenSeq(rest)
  <2> HIDE DEF all
  <2> QED
    BY <1>3, <1>5, <1>7, FlattenFirst, Zenon
<1> QED
  BY <1>2, <1>8 DEF Due, e, rest

\* A frame that is sent is due last.
LEMMA SentDue ==
  ASSUME epoch \in 1 .. MaxEpochs, NEW fs \in Seq(Frame), Len(fs) < MaxFrames,
         NEW t \in 0 .. Len(fs), NEW f \in Frame
  PROVE  Due(Append(fs, f), t) = Due(fs, t) \o UnitsOf(Len(fs) + 1, f)
<1>1. PICK n \in Nat : n = Len(fs) /\ t \in 0 .. n
  BY LenProperties
<1>2. PICK gs \in Seq(Frame) : gs = Append(fs, f)
  BY AppendProperties
<1>3. Len(gs) = n + 1 /\ gs[n + 1] = f /\ \A i \in 1 .. n : gs[i] = fs[i]
  BY <1>1, <1>2, AppendProperties
<1> DEFINE e == UnitsOf(n + 1, f)
           old == PartsOf(fs, t)
           new == PartsOf(gs, t)
<1>4. e \in Seq(WholeUnit)
  <2>1. n + 1 \in 1 .. MaxFrames
    BY <1>1, BoundsAssumption
  <2> QED
    BY <2>1, UnitsOfFrame
<1>5. /\ old \in Seq(Seq(WholeUnit)) /\ Len(old) = n - t
      /\ new \in Seq(Seq(WholeUnit)) /\ Len(new) = n + 1 - t
  <2>1. Len(fs) <= MaxFrames /\ Len(gs) <= MaxFrames /\ t \in 0 .. Len(gs)
    BY <1>1, <1>3, BoundsAssumption
  <2>2. old \in Seq(Seq(WholeUnit)) /\ Len(old) = n - t
    BY <1>1, <2>1, PartsType
  <2>3. new \in Seq(Seq(WholeUnit)) /\ Len(new) = Len(gs) - t
    BY <2>1, PartsType
  <2> QED
    BY <1>3, <2>2, <2>3
<1>6. ASSUME NEW i \in 1 .. n + 1 - t
      PROVE  new[i] = IF i = n + 1 - t THEN e ELSE old[i]
  <2>1. new[i] = UnitsOf(t + i, gs[t + i])
    BY <1>3 DEF PartsOf
  <2>2. CASE i = n + 1 - t
    <3>1. t + i = n + 1
      BY <1>1, <2>2
    <3> QED
      BY <1>3, <2>1, <2>2, <3>1
  <2>3. CASE i # n + 1 - t
    <3>1. i \in 1 .. n - t /\ t + i \in 1 .. n
      BY <1>1, <2>3
    <3>2. old[i] = UnitsOf(t + i, fs[t + i])
      BY <1>1, <3>1 DEF PartsOf
    <3> QED
      BY <1>3, <2>1, <2>3, <3>1, <3>2
  <2> QED
    BY <2>2, <2>3
<1> HIDE DEF e, old, new
<1>7. new = Append(old, e)
  <2>0. n - t \in Nat
    BY <1>1
  <2>1. PICK k \in Nat : k = n - t
    BY <2>0, Zenon
  <2>2. PICK both \in Seq(Seq(WholeUnit)) : both = Append(old, e)
    BY <1>4, <1>5, AppendProperties
  <2>3. Len(both) = k + 1 /\ both[k + 1] = e /\ \A i \in 1 .. k : both[i] = old[i]
    BY <1>4, <1>5, <2>1, <2>2, AppendProperties
  <2>4. Len(new) = k + 1 /\ \A i \in 1 .. k + 1 : new[i] = IF i = k + 1 THEN e ELSE old[i]
    <3>1. n + 1 - t = k + 1
      BY <1>1, <2>1
    <3> QED
      BY <1>5, <1>6, <3>1
  <2>5. ASSUME NEW i \in 1 .. Len(new) PROVE new[i] = both[i]
    <3>1. CASE i = k + 1
      BY <2>3, <2>4, <3>1
    <3>2. CASE i # k + 1
      <4>1. i \in 1 .. k
        BY <2>4, <3>2
      <4> QED
        BY <2>3, <2>4, <3>2, <4>1
    <3> QED
      BY <3>1, <3>2
  <2>6. new \in Seq(Seq(WholeUnit)) /\ Len(new) = Len(both)
    BY <1>5, <2>3, <2>4
  <2>7. new = both
    BY <2>2, <2>5, <2>6, SeqEqual
  <2> QED
    BY <2>2, <2>7
<1>8. FlattenSeq(new) = FlattenSeq(old) \o e
  BY <1>4, <1>5, <1>7, FlattenAppend, Zenon
<1> QED
  BY <1>1, <1>2, <1>8 DEF Due, e, old, new

-----------------------------------------------------------------------------

\* Whole units are units.
LEMMA WholeUnits ==
  ASSUME NEW w \in Seq(WholeUnit)
  PROVE  w \in Seq(Unit)
<1>1. WholeUnit \subseteq Unit
  BY DEF WholeUnit
<1> QED
  BY <1>1, SeqMonotonic

\* What the invariant says of a client with a connection.
LEMMA Flowing ==
  ASSUME BytesInv, cl.sock
  PROVE  /\ epoch \in 1 .. MaxEpochs /\ Held(cl) /\ frames \in Seq(Frame)
         /\ Len(frames) \in Nat /\ taken \in 0 .. Len(frames)
         /\ Unread(cl) \o wire = Due(frames, taken)
<1>1. epoch \in 1 .. MaxEpochs
  BY BoundsAssumption DEF BytesInv, TypeOK
<1>2. Len(frames) \in Nat
  BY LenProperties DEF BytesInv, TypeOK
<1>3. Unread(cl) \o wire = Due(frames, taken)
  BY DEF BytesInv, StreamIntact, Due, PartsOf
<1> QED
  BY <1>1, <1>2, <1>3 DEF BytesInv, TypeOK, Held

\* A step of one connection that keeps the stream whole.
LEMMA Flows ==
  ASSUME BytesInv, UNCHANGED <<lib, epoch, frames>>,
         opening' \in BOOLEAN, open' \in BOOLEAN, at' \in {"idle", "polling"},
         Held(cl'), wire' \in Seq(WholeUnit), ready' \in 0 .. Len(wire'),
         taken' \in 0 .. Len(frames),
         cl'.sock => cl.sock /\ Unread(cl') \o wire' = Due(frames, taken')
  PROVE  BytesInv'
<1>1. StreamIntact'
  BY DEF StreamIntact, Due, PartsOf, UnitsOf, Unread
<1>2. wire' \in Seq(Unit)
  BY WholeUnits
<1>3. TypeOK'
  BY <1>2 DEF BytesInv, TypeOK, Held, Client, Unit
<1> QED
  BY <1>1, <1>3 DEF BytesInv, WholeUnit, Unit

\* The application's calls leave the bytes alone or give up the socket.
LEMMA CallFlows ==
  ASSUME SessionInv, BytesInv, ConnectFails \/ Disconnect \/ Leave \/ SendFails
  PROVE  BytesInv'
<1>1. /\ cl' \in {Disconnected(cl), LeftRoom(cl), Lost(cl)}
      /\ UNCHANGED <<lib, epoch, opening, open, frames, wire, ready, at, taken>>
  BY DEF ConnectFails, Disconnect, Leave, SendFails, Calls
<1>2. Held(cl)
  BY DEF BytesInv, TypeOK, Held
<1>3. Held(Disconnected(cl)) /\ ~Disconnected(cl).sock
  BY <1>2, HeldDisconnected
<1>4. Held(Lost(cl)) /\ ~Lost(cl).sock
  BY <1>2, HeldLost, Losing DEF SessionInv
<1>5. /\ Held(LeftRoom(cl)) /\ Unread(LeftRoom(cl)) = Unread(cl)
      /\ LeftRoom(cl).sock = cl.sock
  BY <1>2, HeldLeft, LeavingRoom, UnreadIs DEF SessionInv
<1>6. Held(cl') /\ (cl'.sock => cl.sock /\ Unread(cl') = Unread(cl))
  BY <1>1, <1>3, <1>4, <1>5
<1>7. cl.sock => Unread(cl) \o wire = Due(frames, taken)
  BY Flowing
<1> QED
  BY <1>1, <1>6, <1>7, Flows DEF BytesInv, TypeOK

\* So does the network, as long as the server sends nothing.
LEMMA NetworkFlows ==
  ASSUME SessionInv, BytesInv, Opens \/ ServerCloses \/ Arrive \/ OpeningFails
  PROVE  BytesInv'
<1>1. UNCHANGED <<lib, epoch, frames, wire, at, taken>>
  BY DEF Opens, ServerCloses, Arrive, OpeningFails
<1>2. opening' \in BOOLEAN /\ open' \in BOOLEAN
  BY DEF Opens, ServerCloses, Arrive, OpeningFails, BytesInv, TypeOK
<1>3. Len(wire) \in Nat /\ ready \in 0 .. Len(wire)
  BY LenProperties DEF BytesInv, TypeOK
<1>4. ready' \in 0 .. Len(wire)
  BY <1>3 DEF Opens, ServerCloses, Arrive, OpeningFails
<1>5. Held(cl)
  BY DEF BytesInv, TypeOK, Held
<1>6. Held(cl') /\ (cl'.sock => cl.sock /\ Unread(cl') = Unread(cl))
  <2>1. cl' = cl \/ cl' = [cl EXCEPT !.connected = FALSE]
    BY DEF Opens, ServerCloses, Arrive, OpeningFails
  <2>2. ASSUME NEW d, d = [cl EXCEPT !.connected = FALSE]
        PROVE  Held(d) /\ d.sock = cl.sock /\ Unread(d) = Unread(cl)
    BY <1>5, <2>2 DEF Held, Client, Unread
  <2> QED
    BY <1>5, <2>1, <2>2
<1>7. cl.sock => Unread(cl) \o wire = Due(frames, taken)
  BY Flowing
<1> QED
  BY <1>1, <1>2, <1>4, <1>6, <1>7, Flows DEF BytesInv, TypeOK

\* A new connection starts with nothing read, whatever the last one left behind.
LEMMA ConnectFlows ==
  ASSUME SessionInv, BytesInv, Connect
  PROVE  BytesInv'
<1>1. /\ cl' = [Disconnected(cl) EXCEPT !.sock = TRUE, !.connected = TRUE, !.buf = <<>>]
      /\ UNCHANGED <<lib, at>> /\ epoch' = epoch + 1 /\ epoch < MaxEpochs
      /\ opening' = (lib \in {"ws", "gml"}) /\ open' = TRUE
      /\ frames' = <<>> /\ wire' = <<>> /\ ready' = 0 /\ taken' = 0
  BY DEF Connect, Connected
<1>2. Held(cl)
  BY DEF BytesInv, TypeOK, Held
<1>3. Held(Disconnected(cl)) /\ Disconnected(cl).pos = 0
  BY <1>2, HeldDisconnected DEF SessionInv, Consistent
<1>4. epoch' \in 0 .. MaxEpochs /\ epoch' # 0
  BY <1>1, BoundsAssumption DEF BytesInv, TypeOK
<1>5. /\ <<>> \in Seq(Frame) /\ <<>> \in Seq(Unit) /\ <<>> \in Seq(WholeUnit)
      /\ Len(<<>>) = 0
  BY EmptySeq
<1>6. Held(cl') /\ Unread(cl') = <<>>
  <2>1. ASSUME NEW buf \in Seq(Unit), Len(buf) = 0, NEW c, Held(c), c.pos = 0, NEW d,
               d = [c EXCEPT !.sock = TRUE, !.connected = TRUE, !.buf = buf]
        PROVE  Held(d) /\ d.buf = buf /\ d.pos = 0
    <3>1. c \in Client
      BY <2>1 DEF Held
    <3>2. d \in Client
      BY <2>1, <3>1 DEF Client
    <3>3. d.buf = buf /\ d.pos = c.pos
      BY <2>1, <3>1 DEF Client
    <3>4. d.pos <= Len(d.buf)
      BY <2>1, <3>3
    <3> QED
      BY <2>1, <3>2, <3>3, <3>4 DEF Held
  <2>2. Held(cl') /\ cl'.buf = <<>> /\ cl'.pos = 0
    BY <1>1, <1>3, <1>5, <2>1
  <2> QED
    BY <2>2, UnreadIs
<1>7. TypeOK'
  BY <1>1, <1>4, <1>5, <1>6 DEF BytesInv, TypeOK, Held, Client, Unit
<1>8. StreamIntact'
  <2>1. [i \in 1 .. Len(frames') - taken' |-> UnitsOf(taken + i, frames[taken + i])'] = <<>>
    BY <1>1, <1>5
  <2>2. <<>> \o <<>> = <<>>
    BY <1>5, ConcatEmptySeq
  <2>3. FlattenSeq(<<>>) = <<>>
    BY <1>5, FlattenNone
  <2> QED
    BY <1>1, <1>6, <2>1, <2>2, <2>3 DEF StreamIntact, Unread
<1> QED
  BY <1>1, <1>4, <1>5, <1>7, <1>8, BoundsAssumption DEF BytesInv, WholeUnit, Unit

\* What the server sends is due after all that was due.
LEMMA SendFlows ==
  ASSUME BytesInv, NEW f \in Frame, ServerSends(f)
  PROVE  BytesInv'
<1>1. /\ cl.sock /\ Len(frames) < MaxFrames
      /\ UNCHANGED <<lib, epoch, opening, open, ready, cl, at, taken>>
      /\ frames' = Append(frames, f) /\ wire' = wire \o UnitsOf(Len(frames) + 1, f)
  BY DEF ServerSends
<1>2. /\ epoch \in 1 .. MaxEpochs /\ frames \in Seq(Frame) /\ Len(frames) \in Nat
      /\ taken \in 0 .. Len(frames) /\ Held(cl)
      /\ Unread(cl) \o wire = Due(frames, taken)
  BY <1>1, Flowing
<1>3. PICK u \in Seq(WholeUnit) : u = UnitsOf(Len(frames) + 1, f)
  <2>1. Len(frames) + 1 \in 1 .. MaxFrames
    BY <1>1, <1>2, BoundsAssumption
  <2> QED
    BY <1>2, <2>1, UnitsOfFrame
<1>4. Due(frames', taken) = Due(frames, taken) \o u
  BY <1>1, <1>2, <1>3, SentDue
<1>5. Unread(cl) \o wire' = Due(frames', taken)
  <2>1. Unread(cl) \in Seq(Unit) /\ wire \in Seq(Unit) /\ u \in Seq(Unit)
    BY <1>2, UnreadIs, WholeUnits DEF BytesInv, TypeOK
  <2>2. (Unread(cl) \o wire) \o u = Unread(cl) \o (wire \o u)
    BY <2>1, ConcatAssociative
  <2> QED
    BY <1>1, <1>2, <1>3, <1>4, <2>2
<1>6. StreamIntact'
  <2>1. Unread(cl') \o wire' = Due(frames', taken')
    BY <1>1, <1>5
  <2> QED
    BY <1>1, <2>1 DEF StreamIntact, Due, PartsOf, UnitsOf, Unread
<1>7. /\ wire \in Seq(WholeUnit) /\ wire' \in Seq(WholeUnit) /\ Len(wire') = Len(wire) + Len(u)
      /\ Len(wire) \in Nat /\ Len(u) \in Nat
  BY <1>1, <1>3, ConcatProperties, LenProperties DEF BytesInv
<1>8. frames' \in Seq(Frame) /\ Len(frames') = Len(frames) + 1
  BY <1>1, <1>2, AppendProperties
<1>9. wire' \in Seq(Unit)
  BY <1>7, WholeUnits
<1>10. TypeOK'
  BY <1>1, <1>2, <1>7, <1>8, <1>9 DEF BytesInv, TypeOK, Client, Unit, Frame
<1> QED
  BY <1>1, <1>2, <1>6, <1>7, <1>8, <1>10, BoundsAssumption DEF BytesInv, WholeUnit, Unit

\* Reading what has arrived moves it from the wire to what is unread.
LEMMA ReadingOn ==
  ASSUME BytesInv, cl.sock, NEW n \in 0 .. ready
  PROVE  /\ Held(Reads(cl, n)) /\ Reads(cl, n).sock
         /\ After(wire, n) \in Seq(WholeUnit)
         /\ ready - n \in 0 .. Len(After(wire, n))
         /\ Unread(Reads(cl, n)) \o After(wire, n) = Due(frames, taken)
<1>1. Held(cl) /\ Unread(cl) \o wire = Due(frames, taken)
  BY Flowing
<1>2. /\ wire \in Seq(WholeUnit) /\ Len(wire) \in Nat
      /\ n \in 0 .. Len(wire) /\ ready \in 0 .. Len(wire)
  BY LenProperties DEF BytesInv, TypeOK
<1>3. PICK first \in Seq(WholeUnit), rest \in Seq(WholeUnit) :
        /\ first = SubSeq(wire, 1, n) /\ rest = After(wire, n) /\ Len(rest) = Len(wire) - n
        /\ first \o rest = wire
  <2>1. SubSeq(wire, 1, n) \in Seq(WholeUnit) /\ SubSeq(wire, 1, n) \o After(wire, n) = wire
    BY <1>2, Splitting
  <2>2. After(wire, n) \in Seq(WholeUnit) /\ Len(After(wire, n)) = Len(wire) - n
    BY <1>2, AfterIs
  <2> QED
    BY <2>1, <2>2
<1>4. first \in Seq(Unit) /\ rest \in Seq(Unit)
  BY WholeUnits
<1> DEFINE d == [cl EXCEPT !.buf = @ \o first]
<1>5. Held(d) /\ Unread(d) = Unread(cl) \o first /\ d.sock = cl.sock
  BY <1>1, <1>4, HeldReading, Zenon
<1>6. d = Reads(cl, n)
  BY <1>3 DEF Reads
<1> HIDE DEF d
<1>7. (Unread(cl) \o first) \o rest = Unread(cl) \o (first \o rest)
  <2>1. Unread(cl) \in Seq(Unit)
    BY <1>1, UnreadIs
  <2> QED
    BY <1>4, <2>1, ConcatAssociative
<1>8. Unread(d) \o rest = Due(frames, taken)
  BY <1>1, <1>3, <1>5, <1>7
<1>9. ready - n \in 0 .. Len(rest)
  BY <1>2, <1>3
<1> QED
  BY <1>3, <1>5, <1>6, <1>8, <1>9

\* Dispatching a frame takes from what is due exactly the frame that is next.
LEMMA TakingOn ==
  ASSUME BytesInv, cl.sock, lib \in {"cpp", "cs", "ws", "gml"},
         NEW c, Held(c), Consistent(c), HasFrame(c), NEW w \in Seq(WholeUnit),
         Unread(c) \o w = Due(frames, taken), NEW d \in Dispatched(c)
  PROVE  /\ Held(d) /\ (d.sock => c.sock)
         /\ taken + 1 \in 0 .. Len(frames)
         /\ d.sock => Unread(d) \o w = Due(frames, taken + 1)
<1>1. /\ epoch \in 1 .. MaxEpochs /\ frames \in Seq(Frame) /\ Len(frames) \in Nat
      /\ taken \in 0 .. Len(frames) /\ Len(frames) <= MaxFrames
  BY Flowing DEF BytesInv
<1>2. w \in Seq(Unit) /\ Unread(c) \in Seq(Unit) /\ Unread(c) # <<>>
  BY WholeUnits, UnreadIs DEF HasFrame
<1>3. taken # Len(frames)
  <2> SUFFICES ASSUME taken = Len(frames) PROVE FALSE
    OBVIOUS
  <2>1. Unread(c) \o w = <<>>
    BY <1>1, NothingDue
  <2> QED
    BY <1>2, <2>1, ConcatEqualIffEmpty
<1>4. PICK k \in 1 .. Len(frames) : k = taken + 1
  BY <1>1, <1>3
<1>5. k \in 1 .. MaxFrames /\ frames[k] \in Frame
  BY <1>1, ElementOfSeq, BoundsAssumption
<1>6. PICK u \in Seq(WholeUnit) :
        /\ u = UnitsOf(k, frames[k]) /\ u # <<>> /\ Len(u) = frames[k].size
        /\ u[1].size = frames[k].size /\ frames[k].size \in Nat
  BY <1>1, <1>5, UnitsOfFrame
<1>7. PICK rest \in Seq(WholeUnit) : rest = Due(frames, taken + 1)
  <2>1. k \in 0 .. Len(frames)
    BY <1>1
  <2>2. Due(frames, k) \in Seq(WholeUnit)
    BY <1>1, <2>1, PartsType
  <2> QED
    BY <1>4, <2>2
<1>8. Unread(c) \o w = u \o rest
  BY <1>1, <1>3, <1>4, <1>6, <1>7, FirstDue
<1>9. u \in Seq(Unit) /\ rest \in Seq(Unit)
  BY WholeUnits
<1>10. Head(Unread(c)) = u[1]
  <2>1. ASSUME NEW a \in Seq(Unit), NEW b \in Seq(Unit), NEW x \in Seq(Unit),
               NEW y \in Seq(Unit), a \o b = x \o y, a # <<>>, x # <<>>
        PROVE  Head(a) = x[1]
    BY <2>1, SameHead
  <2> QED
    BY <1>2, <1>6, <1>8, <1>9, <2>1
<1>11. Head(Unread(c)).size = Len(u) /\ Len(u) \in Nat
  BY <1>6, <1>10
<1>12. Len(u) <= Len(Unread(c))
  <2>1. Len(Unread(c)) >= Len(u) /\ Len(Unread(c)) \in Nat
    BY <1>2, <1>11, LenProperties DEF HasFrame
  <2> QED
    BY <1>11, <2>1
<1>13. After(Unread(c), Len(u)) \o w = rest
  BY <1>2, <1>8, <1>9, <1>12, Cutting
<1>14. /\ Held(d) /\ (d.sock => c.sock)
       /\ d.sock => Unread(d) = After(Unread(c), Len(u))
  <2>1. epoch \in 0 .. MaxEpochs /\ Head(Unread(c)).size \in Nat
    BY <1>1, <1>11
  <2> QED
    BY <1>11, <2>1, Taking
<1>15. taken + 1 \in 0 .. Len(frames)
  BY <1>1, <1>4
<1>16. d.sock => Unread(d) \o w = rest
  BY <1>13, <1>14
<1> QED
  BY <1>7, <1>14, <1>15, <1>16

\* The bridge hands over what has arrived, if its messages hold every frame.
LEMMA MessagesWhole ==
  ASSUME FramesFit, BytesInv, lib = "ws"
  PROVE  Messages = SubSeq(wire, 1, ready)
<1>1. wire \in Seq(WholeUnit) /\ ready \in 0 .. Len(wire) /\ Len(wire) \in Nat
  BY LenProperties DEF BytesInv, TypeOK
<1>2. PICK w \in Seq(WholeUnit) :
        w = SubSeq(wire, 1, ready) /\ Len(w) = ready /\ \A i \in 1 .. ready : w[i] = wire[i]
  BY <1>1, Splitting
<1>3. ASSUME NEW i \in 1 .. ready PROVE wire[i].part <= MaxMessage
  <2>1. wire[i] \in WholeUnit
    BY <1>1, ElementOfSeq
  <2>2. /\ wire[i].part \in Nat /\ wire[i].size \in Sizes /\ wire[i].size \in Nat
        /\ wire[i].part <= wire[i].size
    BY <2>1, SizesAssumption DEF WholeUnit, Unit
  <2>3. wire[i].size <= MaxMessage
    BY <2>2 DEF FramesFit, BytesInv, TypeOK
  <2> QED
    BY <2>2, <2>3, BoundsAssumption
<1>4. [i \in 1 .. ready |-> IF wire[i].part <= MaxMessage THEN <<wire[i]>> ELSE <<>>] =
        [i \in 1 .. Len(w) |-> <<w[i]>>]
  BY <1>2, <1>3
<1> QED
  BY <1>2, <1>4, FlattenSingles DEF Messages

\* Reading before the frames are dispatched.
LEMMA StartFlows ==
  ASSUME FramesFit, SessionInv, BytesInv, StartPoll \/ DataEvent \/ DisconnectEvent
  PROVE  BytesInv'
<1> USE DEF Goes
<1>1. /\ Held(cl) /\ wire \in Seq(WholeUnit) /\ ready \in 0 .. Len(wire)
      /\ taken \in 0 .. Len(frames) /\ opening \in BOOLEAN /\ open \in BOOLEAN
      /\ Len(wire) \in Nat /\ ready \in 0 .. ready
  BY LenProperties DEF BytesInv, TypeOK, Held
<1>2. CASE StartPollCpp \/ StartPollGml
  <2>1. UNCHANGED <<lib, epoch, opening, open, frames, wire, ready, cl, taken>>
    BY <1>2 DEF StartPollCpp, StartPollGml
  <2>2. at' \in {"idle", "polling"}
    BY <1>2 DEF StartPollCpp, StartPollGml
  <2>3. cl.sock => Unread(cl) \o wire = Due(frames, taken)
    BY Flowing
  <2> QED
    BY <1>1, <2>1, <2>2, <2>3, Flows
<1>3. ASSUME cl' = Lost(cl), UNCHANGED <<lib, epoch, opening, open, frames, wire, ready, taken>>,
             at' \in {"idle", "polling"}
      PROVE  BytesInv'
  <2>1. Held(Lost(cl)) /\ ~Lost(cl).sock
    BY <1>1, HeldLost, Losing DEF SessionInv
  <2> QED
    BY <1>1, <1>3, <2>1, Flows
<1>4. ASSUME cl' = Reads(cl, ready), cl.sock, Consumed(ready), at' \in {"idle", "polling"},
             UNCHANGED <<lib, epoch, opening, open, frames, taken>>
      PROVE  BytesInv'
  <2>1. /\ Held(Reads(cl, ready)) /\ After(wire, ready) \in Seq(WholeUnit)
        /\ ready - ready \in 0 .. Len(After(wire, ready))
        /\ Unread(Reads(cl, ready)) \o After(wire, ready) = Due(frames, taken)
    BY <1>1, <1>4, ReadingOn
  <2>2. wire' = After(wire, ready) /\ ready' = ready - ready
    BY <1>4 DEF Consumed, After
  <2> QED
    BY <1>1, <1>4, <2>1, <2>2, Flows
<1>5. CASE StartPollCs
  BY <1>4, <1>5 DEF StartPollCs, SessionInv, Consistent
<1>6. CASE StartPollWs
  <2>1. CASE cl' = Lost(cl) /\ UNCHANGED <<wire, ready>>
    BY <1>3, <1>6, <2>1 DEF StartPollWs
  <2>2. CASE cl' = [cl EXCEPT !.buf = @ \o Messages] /\ Consumed(ready)
    <3>1. cl' = Reads(cl, ready)
      BY <1>6, <2>2, MessagesWhole DEF StartPollWs, Reads
    <3> QED
      BY <1>4, <1>6, <2>2, <3>1 DEF StartPollWs, SessionInv, Consistent
  <2> QED
    BY <1>6, <2>1, <2>2 DEF StartPollWs
<1>7. CASE DataEvent
  BY <1>4, <1>7 DEF DataEvent
<1>8. CASE DisconnectEvent
  BY <1>3, <1>8 DEF DisconnectEvent
<1> QED
  BY <1>2, <1>5, <1>6, <1>7, <1>8 DEF StartPoll

\* Dispatching, after one more chunk in C++.
LEMMA DispatchFlows ==
  ASSUME SessionInv, BytesInv, PollStep
  PROVE  BytesInv'
<1> USE DEF Goes
<1>0. lib \in {"cpp", "cs", "ws", "gml"} /\ Consistent(cl)
  BY DEF SessionInv
<1>1. /\ Held(cl) /\ wire \in Seq(WholeUnit) /\ ready \in 0 .. Len(wire)
      /\ taken \in 0 .. Len(frames) /\ opening \in BOOLEAN /\ open \in BOOLEAN
      /\ Len(wire) \in Nat
  BY LenProperties DEF BytesInv, TypeOK, Held
<1>2. UNCHANGED <<lib, epoch, opening, open, frames>> /\ at' \in {"idle", "polling"}
  BY DEF PollStep, TryRecvFrame, ProcessFrame
<1>3. CASE TryRecvFrame
  <2>1. CASE RecvFails
    <3>1. cl' = Lost(cl) /\ UNCHANGED <<wire, ready, taken>>
      BY <1>3, <2>1 DEF TryRecvFrame
    <3>2. Held(Lost(cl)) /\ ~Lost(cl).sock
      BY <1>0, <1>1, HeldLost, Losing
    <3> QED
      BY <1>1, <1>2, <3>1, <3>2, Flows
  <2>2. CASE ~RecvFails
    <3> DEFINE n == IF ready < Chunk THEN ready ELSE Chunk
               c == Reads(cl, n)
    <3>1. /\ Consumed(n)
          /\ \/ HasFrame(c) /\ cl' \in Dispatched(c) /\ taken' = taken + 1
             \/ cl' = c /\ UNCHANGED taken
      BY <1>3, <2>2 DEF TryRecvFrame
    <3>2. n \in 0 .. ready
      BY <1>1, ChunkAssumption
    <3>3. cl.sock /\ cl.connected /\ Consistent(c)
      <4>1. cl.sock /\ cl.connected
        BY <1>0, <1>3, <2>2 DEF RecvFails, TryRecvFrame, Consistent
      <4> QED
        BY <1>0, <4>1, Reading DEF Reads
    <3> HIDE DEF n
    <3>4. /\ Held(c) /\ After(wire, n) \in Seq(WholeUnit)
          /\ ready - n \in 0 .. Len(After(wire, n))
          /\ Unread(c) \o After(wire, n) = Due(frames, taken)
      BY <3>2, <3>3, ReadingOn
    <3>5. wire' = After(wire, n) /\ ready' = ready - n
      BY <3>1 DEF Consumed, After
    <3> HIDE DEF c
    <3>6. CASE cl' = c /\ UNCHANGED taken
      BY <1>1, <1>2, <3>3, <3>4, <3>5, <3>6, Flows
    <3>7. CASE HasFrame(c) /\ cl' \in Dispatched(c) /\ taken' = taken + 1
      <4>1. /\ Held(cl') /\ taken + 1 \in 0 .. Len(frames)
            /\ cl'.sock => Unread(cl') \o After(wire, n) = Due(frames, taken + 1)
        BY <1>0, <3>3, <3>4, <3>7, TakingOn
      <4> QED
        BY <1>1, <1>2, <3>3, <3>4, <3>5, <3>7, <4>1, Flows
    <3> QED
      BY <3>1, <3>6, <3>7
  <2> QED
    BY <2>1, <2>2
<1>4. CASE ProcessFrame
  <2>1. UNCHANGED <<wire, ready>>
    BY <1>4 DEF ProcessFrame
  <2>2. CASE HasFrame(cl) /\ (lib = "gml" => cl.sock)
    <3>1. cl' \in Dispatched(cl) /\ lib # "cpp" /\ taken' = taken + 1
      BY <1>4, <2>2 DEF ProcessFrame
    <3>2. cl.sock
      BY <1>0, <2>2, <3>1, NoBytesNoFrame DEF Consistent, InCSharp
    <3>3. Unread(cl) \o wire = Due(frames, taken)
      BY <3>2, Flowing
    <3>4. /\ Held(cl') /\ taken + 1 \in 0 .. Len(frames)
          /\ cl'.sock => Unread(cl') \o wire = Due(frames, taken + 1)
      BY <1>0, <1>1, <2>2, <3>1, <3>2, <3>3, TakingOn
    <3> QED
      BY <1>1, <1>2, <2>1, <3>1, <3>2, <3>4, Flows
  <2>3. CASE ~(HasFrame(cl) /\ (lib = "gml" => cl.sock))
    <3>1. cl' = cl /\ UNCHANGED taken
      BY <1>4, <2>3 DEF ProcessFrame
    <3>2. cl.sock => Unread(cl) \o wire = Due(frames, taken)
      BY Flowing
    <3> QED
      BY <1>1, <1>2, <2>1, <3>1, <3>2, Flows
  <2> QED
    BY <2>2, <2>3
<1> QED
  BY <1>3, <1>4 DEF PollStep

\* Nothing is read or sent before the first connection.
LEMMA StartsEmpty ==
  ASSUME Init
  PROVE  BytesInv
<1>1. /\ <<>> \in Seq(Frame) /\ <<>> \in Seq(Unit) /\ <<>> \in Seq(WholeUnit)
      /\ Len(<<>>) = 0
  BY EmptySeq
<1>2. cl \in Client /\ cl.pos <= Len(cl.buf)
  <2>1. ASSUME NEW buf \in Seq(Unit), Len(buf) = 0, NEW c,
               c = [sock |-> FALSE, connected |-> FALSE, view |-> 0, buf |-> buf, pos |-> 0]
        PROVE  c \in Client /\ c.pos <= Len(c.buf)
    BY <2>1, BoundsAssumption DEF Client
  <2> QED
    BY <1>1, <2>1 DEF Init
<1>3. TypeOK
  <2>1. /\ frames \in Seq(Frame) /\ wire \in Seq(Unit)
        /\ Len(frames) = 0 /\ Len(wire) = 0
    BY <1>1, Zenon DEF Init
  <2>2. lib \in Libraries /\ opening \in BOOLEAN /\ open \in BOOLEAN /\ at \in {"idle", "polling"}
    BY DEF Init
  <2>3. epoch \in 0 .. MaxEpochs
    BY BoundsAssumption DEF Init
  <2>4. ready = 0 /\ taken = 0
    BY DEF Init
  <2>5. ready \in 0 .. Len(wire) /\ taken \in 0 .. Len(frames)
    BY <2>1, <2>4
  <2> QED
    BY <1>2, <2>1, <2>2, <2>3, <2>5, Zenon DEF TypeOK
<1> QED
  BY <1>1, <1>3, BoundsAssumption DEF Init, BytesInv, StreamIntact

\* The invariant, for all sizes, chunks and thresholds, if the messages of the bridge hold
\* every frame.
THEOREM StreamInvariance == FramesFit => (Spec => [](SessionInv /\ BytesInv))
<1> SUFFICES ASSUME FramesFit PROVE Spec => [](SessionInv /\ BytesInv)
  OBVIOUS
<1>1. Init => BytesInv
  BY StartsEmpty
<1>2. SessionInv /\ BytesInv /\ [Next]_vars => BytesInv'
  <2> SUFFICES ASSUME SessionInv, BytesInv, [Next]_vars
               PROVE  BytesInv'
    OBVIOUS
  <2>1. CASE Next
    BY <2>1, ConnectFlows, CallFlows, NetworkFlows, SendFlows, StartFlows, DispatchFlows
       DEF Next
  <2>2. CASE UNCHANGED vars
    BY <2>2 DEF vars, BytesInv, TypeOK, StreamIntact, Unread, UnitsOf, WholeUnit, Unit,
                Client, Frame
  <2> QED
    BY <2>1, <2>2
<1>3. Spec => []SessionInv
  BY SessionInvariance
<1> QED
  BY <1>1, <1>2, <1>3, PTL DEF Spec

\* No client reads outside its buffer or dispatches more frames than were sent, if the
\* messages of the bridge hold every frame: the position of the GML client never passes
\* the end of its buffer, whatever it compacts (roomie_client.gml:207-293).
THEOREM TypeCorrectness == FramesFit => (Spec => []TypeOK)
<1>1. BytesInv => TypeOK
  BY DEF BytesInv
<1> QED
  BY <1>1, StreamInvariance, PTL

\* No unit of a frame is lost, repeated or mixed with those of an earlier connection, by
\* whichever chunks, callbacks and losses, if the messages of the bridge hold every frame:
\* each library takes off its buffer exactly what it dispatched
\* (roomie_client.cpp:448-480, RoomieClient.cs:386-421, roomie_client.gml:207-293).
THEOREM StreamsAreIntact == FramesFit => (Spec => []StreamIntact)
<1>1. BytesInv => StreamIntact
  BY DEF BytesInv
<1> QED
  BY <1>1, StreamInvariance, PTL

=============================================================================
