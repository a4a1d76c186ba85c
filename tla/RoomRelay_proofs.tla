-------------------------- MODULE RoomRelay_proofs --------------------------
(***************************************************************************)
(* Theorems about RoomRelay, for any numbers of clients, requests and peer *)
(* ids and queues of any length.                                           *)
(*                                                                         *)
(* Told(c) is what client c will believe once it has read its queue and    *)
(* the reply still due to it.  RelayInv says that this is right about the  *)
(* room but for what the client has missed (Knows), so polls and the       *)
(* queueing of replies are steps that change little, and every request has *)
(* one obligation: what it announces is what it has changed.               *)
(*                                                                         *)
(* In order: reading a sequence of messages, a fold, by least              *)
(* counterexample; what comes to a client before a reply that was made     *)
(* earlier; what the operations of RoomState do to a room; the invariant;  *)
(* broadcasts (Prepared rooms, and messages that Prepare their members for *)
(* them); one lemma per action; the theorems.                              *)
(***************************************************************************)
EXTENDS RoomRelay, RoomState_proofs, SequenceTheorems, WellFoundedInduction

\* A view after the messages of a sequence.
Read(v, msgs) == FoldLeft(Applied, v, msgs)

\* The steps of the fold over the sets of the first n positions.
Steps(g, v, msgs, n) ==
  g = [s \in SUBSET (1 .. n) |->
         IF s = {} THEN v ELSE Applied(g[s \ {Max(s)}], msgs[Max(s)])]

\* A set of numbers that has zero, and the successor of each of its numbers, has all.
LEMMA AllNumbers ==
  ASSUME NEW S, 0 \in S, \A n \in Nat : n \in S => n + 1 \in S
  PROVE  \A n \in Nat : n \in S
<1> SUFFICES ASSUME Nat \ S # {} PROVE FALSE
  OBVIOUS
<1> DEFINE less == {pair \in Nat \X Nat : pair[1] < pair[2]}
<1>1. IsWellFoundedOn(less, Nat)
  BY NatLessThanWellFounded DEF OpToRel
<1> HIDE DEF less
<1>2. PICK n \in Nat \ S : \A m \in Nat \ S : <<m, n>> \notin less
  BY <1>1, WFMin
<1>3. n # 0 /\ n - 1 \in Nat
  BY <1>2
<1>4. n - 1 \notin S
  BY <1>2, <1>3
<1>5. <<n - 1, n>> \in less
  BY <1>3 DEF less
<1> QED
  BY <1>2, <1>3, <1>4, <1>5

StepAt(g, v, msgs, s) ==
  /\ s = {} => g[s] = v
  /\ s # {} => g[s] = Applied(g[s \ {Max(s)}], msgs[Max(s)])

\* The equation that defines the steps.
LEMMA StepsAre ==
  ASSUME NEW g, NEW v, NEW msgs, NEW n \in Nat, Steps(g, v, msgs, n),
         NEW s \in SUBSET (1 .. n)
  PROVE  StepAt(g, v, msgs, s)
<1> DEFINE f == [t \in SUBSET (1 .. n) |->
                   IF t = {} THEN v ELSE Applied(g[t \ {Max(t)}], msgs[Max(t)])]
<1>1. f[s] = IF s = {} THEN v ELSE Applied(g[s \ {Max(s)}], msgs[Max(s)])
  OBVIOUS
<1>2. g = f
  BY Zenon DEF Steps
<1>3. g[s] = IF s = {} THEN v ELSE Applied(g[s \ {Max(s)}], msgs[Max(s)])
  BY <1>1, <1>2, Zenon
<1> QED
  BY <1>3 DEF StepAt

\* The largest number of a set of numbers up to n that has n.
LEMMA MaxOf ==
  ASSUME NEW n \in Nat, NEW s \in SUBSET (1 .. n), n \in s
  PROVE  Max(s) = n
<1>1. \A y \in s : y \in 1 .. n
  OBVIOUS
<1>2. \A y \in s : n >= y
  BY <1>1
<1>3. \A x \in s : (\A y \in s : x >= y) => x = n
  BY <1>1
<1> QED
  BY <1>2, <1>3 DEF Max

\* There are such steps for every length.
LEMMA StepsExist ==
  ASSUME NEW v, NEW msgs
  PROVE  \A n \in Nat : \E g : Steps(g, v, msgs, n)
<1> DEFINE S == {n \in Nat : \E g : Steps(g, v, msgs, n)}
<1>1. 0 \in S
  <2> DEFINE h == [s \in SUBSET (1 .. 0) |-> v]
  <2>1. \A s \in SUBSET (1 .. 0) : s = {}
    OBVIOUS
  <2>2. h = [s \in SUBSET (1 .. 0) |->
               IF s = {} THEN v ELSE Applied(h[s \ {Max(s)}], msgs[Max(s)])]
    BY <2>1
  <2> HIDE DEF h
  <2>3. Steps(h, v, msgs, 0)
    BY <2>2 DEF Steps
  <2> QED
    BY <2>3
<1>2. ASSUME NEW n \in Nat, n \in S PROVE n + 1 \in S
  <2>1. PICK g : Steps(g, v, msgs, n)
    BY <1>2
  <2> DEFINE h == [s \in SUBSET (1 .. n + 1) |->
                     IF n + 1 \in s THEN Applied(g[s \ {n + 1}], msgs[n + 1]) ELSE g[s]]
             e == [s \in SUBSET (1 .. n + 1) |->
                     IF s = {} THEN v ELSE Applied(h[s \ {Max(s)}], msgs[Max(s)])]
  <2>2. ASSUME NEW s \in SUBSET (1 .. n) PROVE h[s] = g[s]
    <3>1. s \in SUBSET (1 .. n + 1) /\ n + 1 \notin s
      OBVIOUS
    <3> QED
      BY <3>1
  <2>3. ASSUME NEW s \in SUBSET (1 .. n + 1)
        PROVE  h[s] = IF s = {} THEN v ELSE Applied(h[s \ {Max(s)}], msgs[Max(s)])
    <3>1. CASE n + 1 \in s
      <4>1. Max(s) = n + 1
        BY <3>1, MaxOf
      <4>2. s \ {n + 1} \in SUBSET (1 .. n)
        OBVIOUS
      <4>3. h[s \ {n + 1}] = g[s \ {n + 1}]
        BY <2>2, <4>2
      <4>4. h[s] = Applied(g[s \ {n + 1}], msgs[n + 1])
        BY <3>1
      <4> HIDE DEF h
      <4> QED
        BY <3>1, <4>1, <4>3, <4>4
    <3>2. CASE n + 1 \notin s
      <4>1. ASSUME NEW x PROVE s \ {x} \in SUBSET (1 .. n)
        <5>1. \A y \in s : y \in 1 .. n
          BY <3>2
        <5> QED
          BY <5>1
      <4>2. s \in SUBSET (1 .. n)
        BY <3>2
      <4>3. h[s] = g[s] /\ h[s \ {Max(s)}] = g[s \ {Max(s)}]
        BY <2>2, <4>1, <4>2, Zenon
      <4> HIDE DEF h
      <4>4. StepAt(g, v, msgs, s)
        BY <2>1, <4>2, StepsAre, Zenon
      <4>5. CASE s = {}
        BY <4>3, <4>4, <4>5 DEF StepAt
      <4>6. CASE s # {}
        <5>1. g[s] = Applied(g[s \ {Max(s)}], msgs[Max(s)])
          BY <4>4, <4>6 DEF StepAt
        <5>2. h[s] = Applied(h[s \ {Max(s)}], msgs[Max(s)])
          BY <4>3, <5>1, Zenon
        <5> QED
          BY <4>6, <5>2
      <4> QED
        BY <4>5, <4>6
    <3> QED
      BY <3>1, <3>2
  <2>4. DOMAIN h = SUBSET (1 .. n + 1) /\ h = [s \in DOMAIN h |-> h[s]]
    OBVIOUS
  <2> HIDE DEF h
  <2>5. h = e
    BY <2>3, <2>4
  <2>6. Steps(h, v, msgs, n + 1)
    BY <2>5 DEF Steps
  <2> QED
    BY <2>6
<1> HIDE DEF S
<1>3. \A n \in Nat : n \in S
  BY <1>1, <1>2, AllNumbers
<1> QED
  BY <1>3 DEF S

\* The steps over the positions up to k.
LEMMA StepTo ==
  ASSUME NEW g, NEW v, NEW msgs, NEW n \in Nat, Steps(g, v, msgs, n), NEW k \in 0 .. n
  PROVE  g[1 .. k] = IF k = 0 THEN v ELSE Applied(g[1 .. k - 1], msgs[k])
<1>1. PICK s \in SUBSET (1 .. n) : s = 1 .. k
  OBVIOUS
<1>2. StepAt(g, v, msgs, s)
  BY StepsAre, Zenon
<1>3. CASE k = 0
  <2>1. s = {}
    BY <1>1, <1>3
  <2> QED
    BY <1>1, <1>2, <1>3, <2>1 DEF StepAt
<1>4. CASE k # 0
  <2>1. k \in Nat /\ s \in SUBSET (1 .. k) /\ k \in s
    BY <1>1, <1>4
  <2>2. Max(s) = k
    BY <2>1, MaxOf
  <2>3. s # {} /\ s \ {k} = 1 .. k - 1
    BY <1>1, <2>1
  <2>4. g[s] = Applied(g[s \ {Max(s)}], msgs[Max(s)])
    BY <1>2, <2>3 DEF StepAt
  <2>5. g[1 .. k] = Applied(g[1 .. k - 1], msgs[k])
    BY <1>1, <2>2, <2>3, <2>4, Zenon
  <2> QED
    BY <1>4, <2>5
<1> QED
  BY <1>3, <1>4

\* They only depend on those messages.
LEMMA StepsAgree ==
  ASSUME NEW v, NEW s, NEW t, NEW n \in Nat, NEW g, NEW h, NEW m \in Nat, n <= m,
         Steps(g, v, s, n), Steps(h, v, t, m), \A i \in 1 .. n : s[i] = t[i]
  PROVE  g[1 .. n] = h[1 .. n]
<1> DEFINE S == {k \in Nat : k <= n => g[1 .. k] = h[1 .. k]}
<1>1. ASSUME NEW k \in Nat, k <= n
      PROVE  /\ g[1 .. k] = IF k = 0 THEN v ELSE Applied(g[1 .. k - 1], s[k])
             /\ h[1 .. k] = IF k = 0 THEN v ELSE Applied(h[1 .. k - 1], t[k])
  <2>1. k \in 0 .. n /\ k \in 0 .. m
    BY <1>1
  <2> QED
    BY <2>1, StepTo
<1>2. 0 \in S
  <2>1. 0 \in Nat /\ 0 <= n
    OBVIOUS
  <2> QED
    BY <1>1, <2>1
<1>3. ASSUME NEW k \in Nat, k \in S PROVE k + 1 \in S
  <2> SUFFICES ASSUME NEW j \in Nat, j = k + 1, j <= n PROVE g[1 .. j] = h[1 .. j]
    OBVIOUS
  <2>1. j - 1 = k /\ j # 0 /\ j \in 1 .. n
    OBVIOUS
  <2>2. g[1 .. k] = h[1 .. k] /\ s[j] = t[j]
    BY <1>3, <2>1
  <2> QED
    BY <1>1, <2>1, <2>2
<1> HIDE DEF S
<1>4. n \in S
  BY <1>2, <1>3, AllNumbers
<1> QED
  BY <1>4 DEF S

\* Reading a sequence is the last of the steps of the fold.
LEMMA ReadIs ==
  ASSUME NEW v, NEW msgs, NEW n \in Nat, DOMAIN msgs = 1 .. n
  PROVE  \E g : Steps(g, v, msgs, n) /\ Read(v, msgs) = g[1 .. n]
<1> DEFINE f == CHOOSE g : g = [s \in SUBSET DOMAIN msgs |->
                    IF s = {} THEN v ELSE Applied(g[s \ {Max(s)}], msgs[Max(s)])]
<1>1. Read(v, msgs) = f[DOMAIN msgs]
  BY Zenon DEF Read, FoldLeft, MapThenFoldSet
<1>2. f = CHOOSE g : Steps(g, v, msgs, n)
  BY DEF Steps
<1>3. Steps(f, v, msgs, n)
  BY <1>2, StepsExist
<1> QED
  BY <1>1, <1>3

\* Nothing to read.
LEMMA ReadNone ==
  ASSUME NEW v, NEW msgs, DOMAIN msgs = {}
  PROVE  Read(v, msgs) = v
<1>1. 0 \in Nat /\ DOMAIN msgs = 1 .. 0
  OBVIOUS
<1>2. PICK g : Steps(g, v, msgs, 0) /\ Read(v, msgs) = g[1 .. 0]
  BY <1>1, ReadIs
<1>3. 0 \in 0 .. 0
  OBVIOUS
<1> QED
  BY <1>1, <1>2, <1>3, StepTo

\* The last message is applied last.
LEMMA ReadMore ==
  ASSUME NEW X, NEW v, NEW msgs \in Seq(X), NEW m \in X
  PROVE  Read(v, Append(msgs, m)) = Applied(Read(v, msgs), m)
<1>1. PICK n \in Nat : n = Len(msgs) /\ DOMAIN msgs = 1 .. n
  BY LenProperties
<1>2. PICK more \in Seq(X) : more = Append(msgs, m)
  BY AppendProperties
<1>3. /\ DOMAIN more = 1 .. n + 1 /\ more[n + 1] = m
      /\ \A i \in 1 .. n : msgs[i] = more[i]
  BY <1>1, <1>2, AppendProperties, LenProperties
<1>4. PICK g : Steps(g, v, msgs, n) /\ Read(v, msgs) = g[1 .. n]
  BY <1>1, ReadIs
<1>5. n + 1 \in Nat /\ n <= n + 1
  OBVIOUS
<1>6. PICK h : Steps(h, v, more, n + 1) /\ Read(v, more) = h[1 .. n + 1]
  BY <1>3, <1>5, ReadIs
<1>7. g[1 .. n] = h[1 .. n]
  BY <1>3, <1>4, <1>5, <1>6, StepsAgree
<1>8. h[1 .. n + 1] = Applied(h[1 .. n], more[n + 1])
  <2> SUFFICES ASSUME NEW k \in Nat, k = n + 1 PROVE h[1 .. k] = Applied(h[1 .. n], more[k])
    BY <1>5
  <2>1. k \in 0 .. k /\ k # 0 /\ k - 1 = n
    OBVIOUS
  <2> QED
    BY <1>6, <2>1, StepTo
<1> QED
  BY <1>2, <1>3, <1>4, <1>6, <1>7, <1>8

-----------------------------------------------------------------------------
(* What messages do to a view.                                             *)

\* What is in a message of each type.
LEMMA MessageKinds ==
  ASSUME NEW m \in Message
  PROVE  /\ m.type \in MessageTypes
         /\ m.type = "Joined" => m.peer \in PeerIds /\ m.host \in PeerIdOrNone /\ m.state \in States
         /\ m.type = "StateUpdate" => m.state \in States
         /\ m.type \in {"PeerJoined", "PeerLeft", "HostTransferred"} => m.peer \in PeerIds
BY DEF Message, MessageTypes, Kicked, SettingsChanged, Answer

\* How a message changes a view v into w.
Changes(v, m, w) ==
  /\ m.type = "Joined" => w = Inside(m.peer, m.host, m.state) /\ m.peer # 0
  /\ m.type # "Joined" =>
       /\ w.in = v.in /\ w.peer = v.peer
       /\ w.host = IF m.type = "HostTransferred" THEN m.peer ELSE v.host
       /\ w.state = IF m.type = "StateUpdate" /\ m.state # 0 THEN m.state ELSE v.state
       /\ w.roster = IF m.type = "PeerJoined" THEN v.roster \cup {m.peer}
                     ELSE IF m.type = "PeerLeft" THEN v.roster \ {m.peer} ELSE v.roster

\* What a client's decode_and_dispatch makes of a view, field by field.
LEMMA AppliedChanges ==
  ASSUME NEW v \in View, NEW m \in Message
  PROVE  Applied(v, m) \in View /\ Changes(v, m, Applied(v, m))
<1>1. /\ m.type \in MessageTypes
      /\ m.type = "Joined" => m.peer \in PeerIds /\ m.host \in PeerIdOrNone /\ m.state \in States
      /\ m.type = "StateUpdate" => m.state \in States
      /\ m.type \in {"PeerJoined", "PeerLeft", "HostTransferred"} => m.peer \in PeerIds
  BY MessageKinds
<1>2. PeerIds \subseteq PeerIdOrNone /\ 0 \notin PeerIds
  BY MaxPeerIdAssumption DEF PeerIds, PeerIdOrNone
<1>3. CASE m.type = "Joined"
  BY <1>1, <1>2, <1>3 DEF Applied, Changes, Inside, View
<1>4. CASE m.type = "HostTransferred"
  BY <1>1, <1>2, <1>4 DEF Applied, Changes, View
<1>5. CASE m.type = "StateUpdate" /\ m.state # 0
  BY <1>1, <1>5 DEF Applied, Changes, View
<1>6. CASE m.type = "PeerJoined"
  BY <1>1, <1>6 DEF Applied, Changes, View
<1>7. CASE m.type = "PeerLeft"
  BY <1>1, <1>7 DEF Applied, Changes, View
<1>8. CASE m.type \in {"Kicked", "SettingsChanged", "Answer"}
  BY <1>8 DEF Applied, Changes
<1>9. CASE m.type = "StateUpdate" /\ m.state = 0
  BY <1>9 DEF Applied, Changes
<1> QED
  BY <1>1, <1>3, <1>4, <1>5, <1>6, <1>7, <1>8, <1>9 DEF MessageTypes

\* The peers that messages say have left.
Leavers(msgs) == {msgs[i].peer : i \in {j \in DOMAIN msgs : msgs[j].type = "PeerLeft"}}

\* How messages change a view v into w.
Turns(v, msgs, w) ==
  /\ w \in View
  /\ "Joined" \in Types(msgs) => w.in /\ w.peer # 0
  /\ "Joined" \notin Types(msgs) =>
       /\ w.in = v.in /\ w.peer = v.peer
       /\ "HostTransferred" \notin Types(msgs) => w.host = v.host
       /\ "StateUpdate" \notin Types(msgs) => w.state = v.state
       /\ "PeerJoined" \notin Types(msgs) => w.roster = v.roster \ Leavers(msgs)

\* What one message more adds to the types, and to the peers said to be gone.
LEMMA TypesAppend ==
  ASSUME NEW msgs \in Seq(Message), NEW m \in Message
  PROVE  /\ Types(Append(msgs, m)) = Types(msgs) \cup {m.type}
         /\ Leavers(Append(msgs, m)) =
              Leavers(msgs) \cup (IF m.type = "PeerLeft" THEN {m.peer} ELSE {})
<1>1. PICK n \in Nat : n = Len(msgs) /\ DOMAIN msgs = 1 .. n
  BY LenProperties
<1>2. PICK more \in Seq(Message) : more = Append(msgs, m)
  BY AppendProperties
<1>3. /\ DOMAIN more = DOMAIN msgs \cup {n + 1} /\ more[n + 1] = m
      /\ \A i \in DOMAIN msgs : more[i] = msgs[i]
  BY <1>1, <1>2, AppendProperties, LenProperties
<1>4. Types(more) = Types(msgs) \cup {m.type}
  BY <1>3 DEF Types
<1>5. Leavers(more) = Leavers(msgs) \cup (IF m.type = "PeerLeft" THEN {m.peer} ELSE {})
  BY <1>3 DEF Leavers
<1> QED
  BY <1>2, <1>4, <1>5

\* A message alone, as a sequence.
LEMMA OneOf ==
  ASSUME NEW Y, NEW m \in Y
  PROVE  <<m>> \in Seq(Y) /\ <<m>> = Append(<<>>, m) /\ Len(<<m>>) = 1 /\ <<m>>[1] = m
OBVIOUS

\* Appending to the second of two sequences appends to both.
LEMMA AppendAssociates ==
  ASSUME NEW Y, NEW s \in Seq(Y), NEW u \in Seq(Y), NEW m \in Y
  PROVE  s \o Append(u, m) = Append(s \o u, m) /\ s \o u \in Seq(Y)
<1>1. PICK one \in Seq(Y) : one = <<m>>
  BY OneOf
<1>2. PICK more \in Seq(Y) : more = s \o u
  BY ConcatProperties
<1>3. Append(u, m) = u \o one
  BY <1>1, AppendIsConcat
<1>4. Append(more, m) = more \o one
  BY <1>1, AppendIsConcat
<1>5. more \o one = s \o (u \o one)
  BY <1>2, ConcatAssociative
<1> QED
  BY <1>2, <1>3, <1>4, <1>5

\* Properties of all sequences of messages, by their length.
LEMMA Shorter ==
  ASSUME NEW Y, NEW n \in Nat, NEW s \in Seq(Y), Len(s) = n + 1
  PROVE  \E t \in Seq(Y), e \in Y : s = Append(t, e) /\ Len(t) = n
<1>1. s # <<>>
  BY EmptySeq
<1>2. PICK t \in Seq(Y), e \in Y : s = Append(t, e)
  BY <1>1, SequenceEmptyOrAppend
<1>3. Len(s) = Len(t) + 1 /\ Len(t) \in Nat
  BY <1>2, AppendProperties
<1> QED
  BY <1>2, <1>3

\* What any sequence of messages may do to a view.
LEMMA ReadTurns ==
  ASSUME NEW v \in View
  PROVE  \A msgs \in Seq(Message) : Turns(v, msgs, Read(v, msgs))
<1> DEFINE S == {n \in Nat : \A msgs \in Seq(Message) :
                               Len(msgs) = n => Turns(v, msgs, Read(v, msgs))}
<1>1. 0 \in S
  <2> SUFFICES ASSUME NEW msgs \in Seq(Message), Len(msgs) = 0
               PROVE  Turns(v, msgs, Read(v, msgs))
    OBVIOUS
  <2>1. DOMAIN msgs = {}
    BY LenProperties
  <2>2. Read(v, msgs) = v
    BY <2>1, ReadNone
  <2>3. Types(msgs) = {} /\ Leavers(msgs) = {}
    BY <2>1 DEF Types, Leavers
  <2> QED
    BY <2>2, <2>3 DEF Turns
<1>2. ASSUME NEW n \in Nat, n \in S PROVE n + 1 \in S
  <2> SUFFICES ASSUME NEW msgs \in Seq(Message), Len(msgs) = n + 1
               PROVE  Turns(v, msgs, Read(v, msgs))
    OBVIOUS
  <2>1. PICK s \in Seq(Message), m \in Message : msgs = Append(s, m) /\ Len(s) = n
    BY Shorter
  <2>2. PICK u : u = Read(v, s) /\ Turns(v, s, u)
    BY <1>2, <2>1
  <2>3. PICK w : w = Read(v, msgs) /\ w \in View /\ Changes(u, m, w)
    <3>1. u \in View
      BY <2>2 DEF Turns
    <3> QED
      BY <2>1, <2>2, <3>1, ReadMore, AppliedChanges
  <2>4. /\ Types(msgs) = Types(s) \cup {m.type}
        /\ Leavers(msgs) = Leavers(s) \cup (IF m.type = "PeerLeft" THEN {m.peer} ELSE {})
    BY <2>1, TypesAppend
  <2>5. CASE m.type = "Joined"
    BY <2>3, <2>4, <2>5 DEF Turns, Changes, Inside
  <2>6. CASE m.type # "Joined"
    BY <2>2, <2>3, <2>4, <2>6 DEF Turns, Changes
  <2> QED
    BY <2>5, <2>6
<1> HIDE DEF S
<1>3. \A n \in Nat : n \in S
  BY <1>1, <1>2, AllNumbers
<1> QED
  BY <1>3, LenProperties DEF S

\* The same for all views and sequences, as a formula.
LEMMA ReadNext ==
  \A v : \A msgs \in Seq(Message), m \in Message :
    Read(v, Append(msgs, m)) = Applied(Read(v, msgs), m)
BY ReadMore

\* Messages are read one after the other.
LEMMA ReadBoth ==
  ASSUME NEW v, NEW s \in Seq(Message)
  PROVE  \A t \in Seq(Message) : Read(v, s \o t) = Read(Read(v, s), t)
<1> DEFINE S == {n \in Nat : \A t \in Seq(Message) :
                               Len(t) = n => Read(v, s \o t) = Read(Read(v, s), t)}
<1>1. 0 \in S
  <2> SUFFICES ASSUME NEW t \in Seq(Message), Len(t) = 0
               PROVE  Read(v, s \o t) = Read(Read(v, s), t)
    OBVIOUS
  <2>1. t = <<>> /\ DOMAIN t = {}
    BY EmptySeq, LenProperties
  <2>2. s \o t = s
    BY <2>1, ConcatEmptySeq
  <2> QED
    BY <2>1, <2>2, ReadNone
<1>2. ASSUME NEW n \in Nat, n \in S PROVE n + 1 \in S
  <2> SUFFICES ASSUME NEW t \in Seq(Message), Len(t) = n + 1
               PROVE  Read(v, s \o t) = Read(Read(v, s), t)
    OBVIOUS
  <2>1. PICK u \in Seq(Message), m \in Message : t = Append(u, m) /\ Len(u) = n
    BY Shorter
  <2>2. Read(v, s \o u) = Read(Read(v, s), u)
    BY <1>2, <2>1
  <2>6. s \o t = Append(s \o u, m) /\ s \o u \in Seq(Message)
    BY <2>1, AppendAssociates
  <2>3. PICK both \in Seq(Message) : both = s \o u /\ s \o t = Append(both, m)
    BY <2>6, Zenon
  <2>4. Read(v, Append(both, m)) = Applied(Read(v, both), m)
    BY ReadNext, Zenon
  <2>5. Read(Read(v, s), Append(u, m)) = Applied(Read(Read(v, s), u), m)
    BY ReadMore
  <2> QED
    BY <2>1, <2>2, <2>3, <2>4, <2>5
<1> HIDE DEF S
<1>3. \A n \in Nat : n \in S
  BY <1>1, <1>2, AllNumbers
<1>4. ASSUME NEW t \in Seq(Message) PROVE Read(v, s \o t) = Read(Read(v, s), t)
  <2>1. PICK n \in Nat : n = Len(t)
    BY LenProperties
  <2> QED
    BY <1>3, <2>1 DEF S
<1> QED
  BY <1>4

\* One message.
LEMMA ReadOne ==
  ASSUME NEW v, NEW m \in Message
  PROVE  Read(v, <<m>>) = Applied(v, m)
<1>1. PICK none \in Seq(Message) : none = <<>>
  BY EmptySeq
<1>2. Append(none, m) = <<m>>
  BY <1>1, OneOf
<1>3. Read(v, none) = v
  <2>1. Len(none) = 0
    BY <1>1
  <2>2. DOMAIN none = {}
    BY <2>1, LenProperties
  <2> QED
    BY <2>2, ReadNone
<1>4. Read(v, Append(none, m)) = Applied(Read(v, none), m)
  BY ReadNext, Zenon
<1> QED
  BY <1>2, <1>3, <1>4, Zenon

\* The view after messages is a view.
LEMMA ReadView ==
  \A v \in View : \A s \in Seq(Message) : Read(v, s) \in View /\ Turns(v, s, Read(v, s))
BY ReadTurns DEF Turns

\* The types and the leavers of two sequences, one after the other.
LEMMA TypesBoth ==
  ASSUME NEW s \in Seq(Message), NEW t \in Seq(Message)
  PROVE  /\ Types(s \o t) = Types(s) \cup Types(t)
         /\ Leavers(s \o t) = Leavers(s) \cup Leavers(t)
<1>0. PICK n \in Nat : n = Len(s) /\ DOMAIN s = 1 .. n
  BY LenProperties, Zenon
<1>1. PICK m \in Nat : m = Len(t) /\ DOMAIN t = 1 .. m
  BY LenProperties, Zenon
<1>2. PICK st \in Seq(Message) : st = s \o t
  BY ConcatProperties
<1>3. /\ DOMAIN st = 1 .. n + m
      /\ \A i \in 1 .. n + m : st[i] = IF i <= n THEN s[i] ELSE t[i - n]
  <2>1. Len(st) = n + m /\ DOMAIN st = 1 .. Len(st)
    BY <1>0, <1>1, <1>2, ConcatProperties, LenProperties
  <2> QED
    BY <2>1, <1>0, <1>1, <1>2, ConcatProperties
<1>4. \A i \in 1 .. n : i \in 1 .. n + m /\ st[i] = s[i]
  BY <1>3
<1>5. \A i \in 1 .. m : i + n \in 1 .. n + m /\ st[i + n] = t[i]
  BY <1>3
<1>6. \A i \in 1 .. n + m : (i \in 1 .. n /\ st[i] = s[i]) \/ (i - n \in 1 .. m /\ st[i] = t[i - n])
  BY <1>3
<1>7. \A x : x \in Types(st) <=> x \in Types(s) \/ x \in Types(t)
  <2>1. ASSUME NEW i \in 1 .. n PROVE s[i].type \in Types(st)
    BY <1>3, <1>4 DEF Types
  <2>2. ASSUME NEW i \in 1 .. m PROVE t[i].type \in Types(st)
    BY <1>3, <1>5 DEF Types
  <2>3. ASSUME NEW i \in 1 .. n + m PROVE st[i].type \in Types(s) \cup Types(t)
    BY <1>0, <1>1, <1>6 DEF Types
  <2> QED
    BY <1>0, <1>1, <1>3, <2>1, <2>2, <2>3 DEF Types
<1>8. \A x : x \in Leavers(st) <=> x \in Leavers(s) \/ x \in Leavers(t)
  <2>1. ASSUME NEW i \in 1 .. n, s[i].type = "PeerLeft" PROVE s[i].peer \in Leavers(st)
    BY <1>3, <1>4, <2>1 DEF Leavers
  <2>2. ASSUME NEW i \in 1 .. m, t[i].type = "PeerLeft" PROVE t[i].peer \in Leavers(st)
    BY <1>3, <1>5, <2>2 DEF Leavers
  <2>3. ASSUME NEW i \in 1 .. n + m, st[i].type = "PeerLeft"
        PROVE  st[i].peer \in Leavers(s) \cup Leavers(t)
    BY <1>0, <1>1, <1>6, <2>3 DEF Leavers
  <2> QED
    BY <1>0, <1>1, <1>3, <2>1, <2>2, <2>3 DEF Leavers
<1> QED
  BY <1>2, <1>7, <1>8

\* The types of a single message.
LEMMA TypesOne ==
  ASSUME NEW m \in Message
  PROVE  /\ <<m>> \in Seq(Message) /\ Types(<<m>>) = {m.type}
         /\ Leavers(<<m>>) = IF m.type = "PeerLeft" THEN {m.peer} ELSE {}
<1>1. PICK one : one = <<m>>
  OBVIOUS
<1>2. one \in Seq(Message) /\ DOMAIN one = {1} /\ one[1] = m
  BY <1>1
<1> QED
  BY <1>1, <1>2 DEF Types, Leavers

\* What two views agree on, they still agree on after the same messages.
Same(v, w, u, x) ==
  /\ u \in View /\ x \in View
  /\ v.host = w.host => u.host = x.host
  /\ v.state = w.state => u.state = x.state
  /\ v.roster = w.roster => u.roster = x.roster

\* Two views that agree in a field agree in it after any messages.
LEMMA ReadSame ==
  ASSUME NEW v \in View, NEW w \in View
  PROVE  \A s \in Seq(Message) : Same(v, w, Read(v, s), Read(w, s))
<1> DEFINE S == {n \in Nat : \A s \in Seq(Message) :
                               Len(s) = n => Same(v, w, Read(v, s), Read(w, s))}
<1>1. 0 \in S
  <2> SUFFICES ASSUME NEW s \in Seq(Message), Len(s) = 0
               PROVE  Same(v, w, Read(v, s), Read(w, s))
    OBVIOUS
  <2>1. DOMAIN s = {}
    BY LenProperties
  <2> QED
    BY <2>1, ReadNone DEF Same
<1>2. ASSUME NEW n \in Nat, n \in S PROVE n + 1 \in S
  <2> SUFFICES ASSUME NEW s \in Seq(Message), Len(s) = n + 1
               PROVE  Same(v, w, Read(v, s), Read(w, s))
    OBVIOUS
  <2>1. PICK t \in Seq(Message), m \in Message : s = Append(t, m) /\ Len(t) = n
    BY Shorter
  <2>2. PICK a, b : a = Read(v, t) /\ b = Read(w, t) /\ Same(v, w, a, b)
    BY <1>2, <2>1
  <2>3. PICK c : c = Read(v, s) /\ c \in View /\ Changes(a, m, c)
    BY <2>1, <2>2, ReadMore, AppliedChanges DEF Same
  <2>4. PICK d : d = Read(w, s) /\ d \in View /\ Changes(b, m, d)
    BY <2>1, <2>2, ReadMore, AppliedChanges DEF Same
  <2>5. CASE m.type = "Joined"
    BY <2>3, <2>4, <2>5 DEF Same, Changes
  <2>6. CASE m.type # "Joined"
    BY <2>2, <2>3, <2>4, <2>6 DEF Same, Changes
  <2> QED
    BY <2>3, <2>4, <2>5, <2>6
<1> HIDE DEF S
<1>3. \A n \in Nat : n \in S
  BY <1>1, <1>2, AllNumbers
<1>4. ASSUME NEW s \in Seq(Message) PROVE Same(v, w, Read(v, s), Read(w, s))
  <2>1. PICK n \in Nat : n = Len(s)
    BY LenProperties
  <2> QED
    BY <1>3, <2>1 DEF S
<1> QED
  BY <1>4

\* Without a PeerLeft nobody is said to be gone.
LEMMA NoLeavers ==
  ASSUME NEW msgs, "PeerLeft" \notin Types(msgs)
  PROVE  Leavers(msgs) = {}
BY DEF Types, Leavers

-----------------------------------------------------------------------------
(* What a connection that is being answered makes of what it is sent.      *)

\* What dispatch may have returned and the loop has not queued yet.
Replying(r) ==
  r \in Seq(Message) /\ Len(r) <= 1 /\ Types(r) \subseteq {"Joined", "StateUpdate", "Answer"}

\* The types of msgs that count as missed if they are queued before the reply r.
Late(r, msgs) ==
  IF "Joined" \in Types(r) THEN Types(msgs)
  ELSE Types(msgs) \cap Types(r) \cap {"StateUpdate"}

\* The view v is w, apart from what messages of the types in gap would change.
Matches(v, w, gap) ==
  /\ v \in View /\ w \in View
  /\ v.in = w.in /\ v.peer = w.peer
  /\ "HostTransferred" \notin gap => v.host = w.host
  /\ "StateUpdate" \notin gap => v.state = w.state
  /\ gap \cap {"PeerJoined", "PeerLeft"} = {} => v.roster = w.roster

\* A reply with Joined in it is all that there is to know.
LEMMA JoinedTells ==
  ASSUME NEW v \in View, NEW w \in View, NEW r, Replying(r), "Joined" \in Types(r)
  PROVE  /\ Read(v, r) = Read(w, r)
         /\ \E m \in Message : m.type = "Joined" /\ r = <<m>>
<1>1. r \in Seq(Message) /\ Len(r) = 1 /\ r[1] \in Message
  <2>1. r \in Seq(Message) /\ Len(r) \in Nat /\ Len(r) <= 1 /\ DOMAIN r = 1 .. Len(r)
    BY LenProperties DEF Replying
  <2>2. Len(r) # 0
    BY <2>1 DEF Types
  <2> QED
    BY <2>1, <2>2, ElementOfSeq
<1>2. PICK m \in Message : m = r[1] /\ r = <<m>>
  BY <1>1
<1>3. m.type = "Joined"
  BY <1>2, TypesOne
<1>4. Read(v, r) = Applied(v, m) /\ Read(w, r) = Applied(w, m)
  BY <1>2, ReadOne
<1>5. PICK a, b : a = Applied(v, m) /\ b = Applied(w, m) /\ Changes(v, m, a) /\ Changes(w, m, b)
  BY AppliedChanges
<1> QED
  BY <1>2, <1>3, <1>4, <1>5 DEF Changes

\* Messages that are queued before a reply, apart from those that the queue does not
\* take, do what they would do after it, apart from those that overtake it.
LEMMA Heard ==
  ASSUME NEW v \in View, NEW q \in Seq(Message), NEW f \in Seq(Message),
         NEW d \in Seq(Message), NEW s, s = f \o d,
         NEW r, Replying(r), "Joined" \notin Types(s)
  PROVE  Matches(Read(v, (q \o f) \o r), Read(Read(v, q \o r), s), Types(d) \cup Late(r, s))
<1>1. /\ r \in Seq(Message) /\ s \in Seq(Message) /\ q \o f \in Seq(Message)
      /\ Types(s) = Types(f) \cup Types(d)
  BY ConcatProperties, TypesBoth DEF Replying
<1>2. PICK a : a = Read(v, q) /\ a \in View
  BY ReadView
<1>3. PICK b : b = Read(a, f) /\ b \in View /\ Turns(a, f, b)
  BY <1>2, ReadView
<1>4. PICK t : t = Read(a, r) /\ t \in View /\ Turns(a, r, t)
  BY <1>1, <1>2, ReadView
<1>5. PICK u : u = Read(b, r) /\ u \in View /\ Turns(b, r, u)
  BY <1>1, <1>3, ReadView
<1>12. Same(a, b, t, u)
  BY <1>1, <1>2, <1>3, <1>4, <1>5, ReadSame
<1>6. PICK e : e = Read(b, d) /\ e \in View /\ Turns(b, d, e)
  BY <1>3, ReadView
<1>7. e = Read(a, s)
  BY <1>3, <1>6, ReadBoth
<1>8. PICK w : w = Read(t, s) /\ w \in View /\ Turns(t, s, w)
  BY <1>1, <1>4, ReadView
<1>13. Same(a, t, e, w)
  BY <1>1, <1>2, <1>4, <1>7, <1>8, ReadSame
<1>9. Read(v, q \o r) = t
  BY <1>1, <1>2, <1>4, ReadBoth
<1>10. Read(v, (q \o f) \o r) = u
  <2>1. PICK qf \in Seq(Message) : qf = q \o f
    BY <1>1
  <2>2. Read(v, qf \o r) = Read(Read(v, qf), r)
    BY <1>1, ReadBoth
  <2>3. Read(v, qf) = b
    BY <1>2, <1>3, <2>1, ReadBoth
  <2> QED
    BY <1>5, <2>1, <2>2, <2>3
<1> DEFINE gap == Types(d) \cup Late(r, s)
<1>11. Matches(u, w, gap)
  <2>1. CASE "Joined" \in Types(r)
    <3>1. u = t
      BY <1>2, <1>3, <1>4, <1>5, <2>1, JoinedTells
    <3>2. Types(s) \subseteq gap
      BY <2>1 DEF Late
    <3>3. "PeerLeft" \notin gap => Leavers(s) = {}
      BY <3>2, NoLeavers
    <3> HIDE DEF gap
    <3> QED
      BY <1>4, <1>8, <3>1, <3>2, <3>3 DEF Matches, Turns, View
  <2>2. CASE "Joined" \notin Types(r)
    <3>1. /\ "HostTransferred" \notin Types(r) /\ "PeerJoined" \notin Types(r)
          /\ Leavers(r) = {}
      BY NoLeavers DEF Replying
    <3>2. Types(d) \subseteq gap /\ ("PeerLeft" \notin gap => Leavers(d) = {})
      BY NoLeavers
    <3>3. "StateUpdate" \in Types(r) \cap Types(s) => "StateUpdate" \in gap
      BY <2>2 DEF Late
    <3> HIDE DEF gap
    <3>4. /\ u.in = w.in /\ u.peer = w.peer
      BY <1>1, <1>3, <1>4, <1>5, <1>8, <2>2 DEF Turns
    <3>5. t.host = a.host /\ u.host = b.host /\ e.host = w.host
      BY <1>4, <1>5, <1>13, <2>2, <3>1 DEF Turns, Same
    <3>6. "HostTransferred" \notin gap => u.host = w.host
      BY <1>1, <1>6, <3>2, <3>5 DEF Turns
    <3>7. t.roster = a.roster /\ u.roster = b.roster /\ e.roster = w.roster
      BY <1>4, <1>5, <1>13, <2>2, <3>1 DEF Turns, Same
    <3>8. gap \cap {"PeerJoined", "PeerLeft"} = {} => u.roster = w.roster
      BY <1>1, <1>6, <3>2, <3>7 DEF Turns
    <3>9. ASSUME "StateUpdate" \notin gap PROVE u.state = w.state
      <4>1. CASE "StateUpdate" \in Types(r)
        BY <1>1, <1>3, <1>5, <1>8, <1>12, <3>3, <3>9, <4>1 DEF Turns, Same
      <4>2. CASE "StateUpdate" \notin Types(r)
        BY <1>1, <1>4, <1>5, <1>6, <1>13, <2>2, <3>2, <3>9, <4>2 DEF Turns, Same
      <4> QED
        BY <4>1, <4>2
    <3> QED
      BY <1>5, <1>8, <3>4, <3>6, <3>8, <3>9 DEF Matches
  <2> QED
    BY <2>1, <2>2
<1> QED
  BY <1>8, <1>9, <1>10, <1>11

-----------------------------------------------------------------------------
(* What is sent.                                                           *)

\* What fits in a queue and what does not are the messages.
LEMMA FittingDropped ==
  ASSUME NEW c \in Conns, Len(outbox[c]) \in Nat, Len(outbox[c]) <= Capacity,
         NEW msgs \in Seq(Message)
  PROVE  /\ Fitting(c, msgs) \in Seq(Message) /\ Dropped(c, msgs) \in Seq(Message)
         /\ msgs = Fitting(c, msgs) \o Dropped(c, msgs)
         /\ Len(Fitting(c, msgs)) <= Capacity - Len(outbox[c])
<1>1. PICK n \in Nat : n = Len(msgs)
  BY LenProperties, Zenon
<1>2. PICK space \in Nat : space = Capacity - Len(outbox[c]) /\ space = Space(c)
  <2>1. PICK len \in Nat : len = Len(outbox[c]) /\ len <= Capacity
    OBVIOUS
  <2>2. Capacity - len \in Nat
    BY <2>1, CapacityAssumption
  <2> QED
    BY <2>1, <2>2 DEF Space
<1>3. PICK k \in Nat : k = Min({space, n}) /\ k <= space /\ k <= n
  <2>1. {space, n} \in SUBSET Nat /\ {space, n} # {} /\ IsFiniteSet({space, n})
    <3>1. IsFiniteSet({space} \cup {n}) /\ {space, n} = {space} \cup {n}
      BY FS_AddElement, FS_Singleton
    <3> QED
      BY <3>1
  <2> QED
    BY <2>1, MinOfNats
<1>4. \A i \in 1 .. n : msgs[i] \in Message
  BY <1>1, ElementOfSeq
<1>5. SubSeq(msgs, 1, k) \in Seq(Message) /\ Len(SubSeq(msgs, 1, k)) = k
  <2>1. \A i \in 1 .. k : msgs[i] \in Message
    BY <1>3, <1>4
  <2> QED
    BY <2>1, SubSeqProperties
<1>6. SubSeq(msgs, k + 1, n) \in Seq(Message)
  <2>1. \A i \in k + 1 .. n : msgs[i] \in Message
    BY <1>3, <1>4
  <2> QED
    BY <2>1, SubSeqProperties
<1>7. SubSeq(msgs, 1, k) \o SubSeq(msgs, k + 1, n) = msgs
  <2>1. SubSeq(msgs, 1, k) \o SubSeq(msgs, k + 1, n) = SubSeq(msgs, 1, n)
    <3>1. 1 \in 1 .. Len(msgs) + 1 /\ k \in 1 - 1 .. Len(msgs) /\ n \in k .. Len(msgs)
      BY <1>1, <1>3
    <3> QED
      BY <3>1, ConcatAdjacentSubSeq
  <2> QED
    BY <1>1, <2>1, SubSeqFull
<1>8. Fitting(c, msgs) = SubSeq(msgs, 1, k) /\ Dropped(c, msgs) = SubSeq(msgs, k + 1, n)
  BY <1>1, <1>2, <1>3 DEF Fitting, Dropped
<1>9. k <= Capacity - Len(outbox[c])
  BY <1>2, <1>3
<1> QED
  BY <1>5, <1>6, <1>7, <1>8, <1>9

\* SetToSeq lists a finite set.
LEMMA Listed ==
  ASSUME NEW S, IsFiniteSet(S)
  PROVE  \E n \in Nat : /\ SetToSeq(S) \in [1 .. n -> S]
                        /\ \A x \in S : \E i \in 1 .. n : SetToSeq(S)[i] = x
<1>1. PICK n \in Nat : n = Cardinality(S)
  BY FS_CardinalityType
<1>2. \E f \in [1 .. n -> S] : IsInjective(f)
  BY <1>1, FS_CardinalityType DEF ExistsBijection, Bijection, Injection
<1>3. PICK f : f = SetToSeq(S)
  OBVIOUS
<1>4. f \in Injection(1 .. n, S)
  <2>1. f = CHOOSE g \in [1 .. n -> S] : IsInjective(g)
    BY <1>1, <1>3 DEF SetToSeq
  <2>2. f \in [1 .. n -> S] /\ IsInjective(f)
    BY <1>2, <2>1
  <2> QED
    BY <2>2 DEF Injection
<1>5. Cardinality(1 .. n) = Cardinality(S)
  BY <1>1, FS_Interval
<1>6. f \in Surjection(1 .. n, S)
  BY <1>4, <1>5, FS_Injection
<1> QED
  BY <1>3, <1>6 DEF Surjection

\* The room as a record of its fields: its state is a number, 0 for one without bytes.
RelayRoom == [code : Codes \cup {NoCode}, host : PeerIdOrNone,
              clients : SeatMap, pending : SeatMap, settings : Settings,
              banned : SUBSET Hashes, next : PeerIds, state : States]

\* The peers of a room are finitely many.
LEMMA PeersOfRoom ==
  ASSUME NEW r
  PROVE  Occupied(r) \subseteq PeerIds /\ IsFiniteSet(PeerIds)
BY FS_Interval, MaxPeerIdAssumption DEF Occupied, Peers, PeerIds

\* The messages that carry a peer id.
LEMMA PeerMessages ==
  ASSUME NEW p \in PeerIds, NEW type \in {"PeerJoined", "PeerLeft", "HostTransferred"}
  PROVE  /\ PeerMessage(type, p) \in Message
         /\ PeerMessage(type, p).type = type /\ PeerMessage(type, p).peer = p
BY DEF PeerMessage, Message

\* What the accepted clients learn after a broadcast: who is gone, and who hosts if
\* somebody else does.
Learns(v, w, before, after) ==
  /\ w \in View /\ w.in = v.in /\ w.peer = v.peer /\ w.state = v.state
  /\ w.roster = v.roster \ (Occupied(before) \ Occupied(after))
  /\ after.host \in {before.host, 0} => w.host = v.host
  /\ after.host \notin {before.host, 0} => w.host = after.host

\* broadcast_and_prune tells those who stay of all it removed, and of a new host.
LEMMA AftermathTells ==
  ASSUME NEW before, NEW after, after.host \in PeerIdOrNone
  PROVE  /\ Aftermath(before, after) \in Seq(Message)
         /\ Types(Aftermath(before, after)) \subseteq {"PeerLeft", "HostTransferred"}
         /\ after.host \notin {before.host, 0} =>
              "HostTransferred" \in Types(Aftermath(before, after))
         /\ \A v \in View : Learns(v, Read(v, Aftermath(before, after)), before, after)
<1>1. PICK gone : /\ gone = Occupied(before) \ Occupied(after)
                  /\ gone \subseteq PeerIds /\ IsFiniteSet(gone)
  <2> DEFINE lost == Occupied(before) \ Occupied(after)
  <2>1. Occupied(before) \subseteq PeerIds /\ IsFiniteSet(PeerIds)
    BY PeersOfRoom
  <2>2. lost \in SUBSET PeerIds
    BY <2>1
  <2>3. IsFiniteSet(lost)
    BY <2>1, <2>2, FS_Subset
  <2> QED
    BY <2>2, <2>3
<1> DEFINE list == SetToSeq(gone)
<1>2. PICK n \in Nat : list \in [1 .. n -> gone] /\ \A x \in gone : \E i \in 1 .. n : list[i] = x
  <2>1. IsFiniteSet(gone)
    BY <1>1
  <2> QED
    BY <2>1, Listed, Zenon
<1> DEFINE said == [i \in 1 .. n |-> PeerMessage("PeerLeft", list[i])]
           news == IF after.host \notin {before.host, 0}
                   THEN <<PeerMessage("HostTransferred", after.host)>> ELSE <<>>
<1>3. \A i \in 1 .. n : list[i] \in gone /\ said[i] \in Message
  <2>1. ASSUME NEW i \in 1 .. n PROVE list[i] \in gone /\ said[i] \in Message
    <3>1. list[i] \in gone
      BY <1>2
    <3>2. PICK p \in PeerIds : p = list[i]
      BY <1>1, <3>1
    <3>3. said[i] = PeerMessage("PeerLeft", p)
      BY <3>2
    <3> HIDE DEF said, list
    <3> QED
      BY <3>1, <3>3, PeerMessages
  <2> HIDE DEF said, list
  <2> QED
    BY <2>1
<1>4. said \in Seq(Message) /\ DOMAIN said = 1 .. n
  BY <1>3
<1>5. \A i \in 1 .. n : said[i].type = "PeerLeft" /\ said[i].peer = list[i]
  BY DEF PeerMessage
<1>6. Aftermath(before, after) = said \o news
  BY <1>1, <1>2 DEF Aftermath
<1> HIDE DEF said, list
<1>7. Types(said) \subseteq {"PeerLeft"}
  BY <1>4, <1>5 DEF Types
<1>8. Leavers(said) = gone
  <2>1. Leavers(said) = {said[i].peer : i \in 1 .. n}
    BY <1>4, <1>5 DEF Leavers
  <2>2. \A i \in 1 .. n : said[i].peer \in gone
    BY <1>3, <1>5
  <2>3. \A p \in gone : \E i \in 1 .. n : said[i].peer = p
    BY <1>2, <1>5
  <2> QED
    BY <2>1, <2>2, <2>3, Zenon
<1>9. ASSUME NEW v \in View
      PROVE  LET w == Read(v, said)
             IN  /\ w \in View /\ w.in = v.in /\ w.peer = v.peer /\ w.state = v.state
                 /\ w.host = v.host /\ w.roster = v.roster \ gone
  <2>1. PICK w : w = Read(v, said) /\ w \in View /\ Turns(v, said, w)
    BY <1>4, ReadView
  <2> QED
    BY <1>7, <1>8, <2>1 DEF Turns
<1>10. CASE after.host \in {before.host, 0}
  <2>1. Aftermath(before, after) = said
    BY <1>4, <1>6, <1>10, ConcatEmptySeq
  <2> QED
    BY <1>1, <1>4, <1>7, <1>9, <1>10, <2>1 DEF Learns
<1>11. CASE after.host \notin {before.host, 0}
  <2>1. PICK m \in Message : /\ m = PeerMessage("HostTransferred", after.host)
                             /\ m.type = "HostTransferred" /\ m.peer = after.host
    <3>1. after.host \in PeerIds
      BY <1>11 DEF PeerIdOrNone, PeerIds
    <3> QED
      BY <3>1, PeerMessages
  <2>2. news = <<m>>
    BY <1>11, <2>1
  <2> HIDE DEF news
  <2>3. <<m>> \in Seq(Message) /\ Types(<<m>>) = {"HostTransferred"}
    BY <2>1, TypesOne
  <2>4. PICK one \in Seq(Message) : one = <<m>> /\ Types(one) = {"HostTransferred"}
    BY <2>3
  <2>5. /\ said \o one \in Seq(Message)
        /\ Types(said \o one) = Types(said) \cup {"HostTransferred"}
    BY <1>4, <2>4, ConcatProperties, TypesBoth
  <2>6. Aftermath(before, after) = said \o one
    BY <1>6, <2>2, <2>4
  <2>7. ASSUME NEW v \in View PROVE Learns(v, Read(v, said \o one), before, after)
    <3>1. PICK u : /\ u = Read(v, said) /\ u \in View
                   /\ u.in = v.in /\ u.peer = v.peer /\ u.state = v.state
                   /\ u.roster = v.roster \ gone
      BY <1>9
    <3>2. Read(v, said \o one) = Read(u, one)
      BY <1>4, <3>1, ReadBoth
    <3>3. PICK w : w = Applied(u, m) /\ w \in View /\ Changes(u, m, w)
      BY <3>1, AppliedChanges
    <3>4. Read(v, said \o one) = w
      BY <2>4, <3>2, <3>3, ReadOne
    <3> QED
      BY <1>1, <1>11, <2>1, <3>1, <3>3, <3>4 DEF Learns, Changes
  <2> QED
    BY <1>7, <2>5, <2>6, <2>7
<1> QED
  BY <1>10, <1>11

-----------------------------------------------------------------------------
(* What a broadcast leaves of a room.                                      *)

\* Seats may be gone, and the host be another.
Settles(after, before) ==
  /\ after \in RelayRoom
  /\ after.next = before.next /\ after.settings = before.settings /\ after.state = before.state
  /\ \A p \in PeerIds : /\ after.clients[p] \in {NoSeat, before.clients[p]}
                        /\ after.pending[p] \in {NoSeat, before.pending[p]}
  /\ after.host = 0 => before.host = 0 \/ Peers(after.clients) = {}

\* One room after another: what settles settles on.
LEMMA SettlesTransitive ==
  ASSUME NEW a, NEW b, NEW c, Settles(a, b), Settles(b, c)
  PROVE  Settles(a, c)
<1>1. Peers(b.clients) = {} => Peers(a.clients) = {}
  BY DEF Settles, Peers
<1> QED
  BY <1>1 DEF Settles

\* A new host is a peer of the room.
LEMMA RehostedSettles ==
  ASSUME NEW r \in RelayRoom, NEW new \in Rehosted(r)
  PROVE  Settles(new, r)
<1>1. 0 \in PeerIdOrNone /\ PeerIds \subseteq PeerIdOrNone /\ 0 \notin PeerIds
  BY MaxPeerIdAssumption DEF PeerIds, PeerIdOrNone
<1>2. PICK h \in PeerIdOrNone : /\ new = [r EXCEPT !.host = h]
                                /\ h = 0 => Peers(r.clients) = {}
  <2>1. CASE Peers(r.clients) = {}
    BY <1>1, <2>1 DEF Rehosted
  <2>2. CASE Peers(r.clients) # {}
    BY <1>1, <2>2 DEF Rehosted, Peers
  <2> QED
    BY <2>1, <2>2
<1> QED
  BY <1>2 DEF Settles, RelayRoom

\* A room nothing was done to.
LEMMA SettlesItself ==
  ASSUME NEW r \in RelayRoom
  PROVE  Settles(r, r)
BY DEF Settles

\* Removing seats keeps a room one.
LEMMA RelayRoomFields ==
  ASSUME NEW r \in RelayRoom
  PROVE  /\ r.clients \in SeatMap /\ r.pending \in SeatMap
         /\ \A seats \in SeatMap : /\ [r EXCEPT !.clients = seats] \in RelayRoom
                                   /\ [r EXCEPT !.pending = seats] \in RelayRoom
BY DEF RelayRoom

\* Removing seats keeps a room one.
LEMMA DropSettles ==
  ASSUME NEW r \in RelayRoom, NEW gone
  PROVE  /\ Settles([r EXCEPT !.clients = Without(@, gone)], r)
         /\ Settles(DropSeats(r, gone), r)
<1>1. r.clients \in SeatMap /\ r.pending \in SeatMap
  BY RelayRoomFields
<1>2. Without(r.clients, gone) \in SeatMap /\ Without(r.pending, gone) \in SeatMap
  BY <1>1, WithoutKeepsOthers
<1>3. \A p \in PeerIds : /\ Without(r.clients, gone)[p] \in {NoSeat, r.clients[p]}
                         /\ Without(r.pending, gone)[p] \in {NoSeat, r.pending[p]}
  BY DEF Without
<1> DEFINE cut == [r EXCEPT !.clients = Without(@, gone)]
<1>4. cut \in RelayRoom /\ DropSeats(r, gone) = [cut EXCEPT !.pending = Without(r.pending, gone)]
  BY <1>2 DEF RelayRoom, DropSeats
<1>5. DropSeats(r, gone) \in RelayRoom
  BY <1>2, <1>4, RelayRoomFields
<1>6. Settles(cut, r)
  BY <1>3, <1>4 DEF Settles, RelayRoom
<1>7. Settles(DropSeats(r, gone), r)
  BY <1>3, <1>5 DEF Settles, RelayRoom, DropSeats
<1> QED
  BY <1>6, <1>7

\* Replacing a removed host keeps a room one.
LEMMA FixHostSettles ==
  ASSUME NEW r \in RelayRoom, NEW gone, NEW new \in FixHost(r, gone)
  PROVE  Settles(new, r)
BY RehostedSettles, SettlesItself DEF FixHost

\* So do the broadcasts, whichever channels they find closed.
LEMMA BroadcastSettles ==
  ASSUME NEW r \in RelayRoom, NEW gone,
         NEW new \in Broadcast(r, gone) \cup BroadcastState(r, gone)
  PROVE  Settles(new, r)
<1>1. ASSUME new \in Broadcast(r, gone)
      PROVE  Settles(new, r)
  <2> DEFINE dead == SeatsSendingTo(r.clients, gone)
             cut == [r EXCEPT !.clients = Without(@, dead)]
  <2>1. Settles(cut, r)
    BY DropSettles
  <2>2. new \in FixHost(cut, dead)
    BY <1>1 DEF Broadcast
  <2> HIDE DEF cut, dead
  <2>3. cut \in RelayRoom
    BY <2>1 DEF Settles
  <2> QED
    BY <2>1, <2>2, <2>3, FixHostSettles, SettlesTransitive
<1>2. ASSUME new \in BroadcastState(r, gone)
      PROVE  Settles(new, r)
  <2> DEFINE dead == SeatsSendingTo(r.clients, gone) \cup SeatsSendingTo(r.pending, gone)
             cut == DropSeats(r, dead)
  <2>1. Settles(cut, r)
    BY DropSettles
  <2>2. new \in FixHost(cut, dead)
    BY <1>2 DEF BroadcastState
  <2> HIDE DEF cut, dead
  <2>3. cut \in RelayRoom
    BY <2>1 DEF Settles
  <2> QED
    BY <2>1, <2>2, <2>3, FixHostSettles, SettlesTransitive
<1> QED
  BY <1>1, <1>2

\* So does leave_room, after the seat is given up.
LEMMA LeftSettles ==
  ASSUME NEW r \in RelayRoom, NEW peer, NEW gone, NEW new \in Left(r, peer, gone)
  PROVE  Settles(new, DropSeats(r, {peer})) /\ DropSeats(r, {peer}) \in RelayRoom
<1>1. PICK cut \in RelayRoom : cut = DropSeats(r, {peer})
  BY DropSettles DEF Settles
<1>2. PICK mid \in Broadcast(cut, gone) : new \in HandOver(mid, peer)
  BY <1>1 DEF Left
<1>3. Settles(mid, cut)
  BY <1>2, BroadcastSettles
<1>4. mid \in RelayRoom
  BY <1>3 DEF Settles
<1>5. Settles(new, mid)
  BY <1>2, <1>4, RehostedSettles, SettlesItself DEF HandOver
<1> QED
  BY <1>1, <1>3, <1>5, SettlesTransitive

-----------------------------------------------------------------------------
(* The invariant.                                                          *)

\* What the client of c will believe once it has read all that is on its way.
Told(c) == Read(view[c], outbox[c] \o reply[c])

\* A roster for the peer id: PeerJoined is only sent for those who come after it.
RosterFits(roster, r, id) ==
  /\ id \in Peers(r.clients) =>
       roster \subseteq Peers(r.clients) /\ \A p \in Peers(r.clients) : p > id => p \in roster
  /\ id \notin Peers(r.clients) =>
       roster = {} /\ \A p \in Peers(r.clients) : p <= id

\* The view v is right about the room r, for c with this id in its session, apart from
\* what it has missed.  Nobody hosts once a host is pruned with nobody else accepted;
\* those who wait are not told, and nobody can accept them then.
Knows(v, r, c, id, gap) ==
  /\ id # 0 /\ "Joined" \notin gap => v.in /\ v.peer = id
  /\ id = 0 /\ "Crossed" \notin gap => ~v.in /\ v.peer = 0
  /\ Sits(r, id, c) /\ gap \cap {"Joined", "HostTransferred"} = {} =>
       v.host = r.host \/ (r.host = 0 /\ id \notin Peers(r.clients))
  /\ Sits(r, id, c) /\ gap \cap {"Joined", "StateUpdate"} = {} => r.state \in {0, v.state}
  /\ Sits(r, id, c) /\ gap \cap {"Joined", "PeerJoined", "PeerLeft"} = {} =>
       RosterFits(v.roster, r, id)

RelayTyped ==
  /\ room \in RelayRoom
  /\ registered \in BOOLEAN
  /\ sess \in [Conns -> PeerIdOrNone]
  /\ joining \in SUBSET Conns /\ IsFiniteSet(joining)
  /\ closed \in SUBSET Conns
  /\ asked \in 0 .. MaxRequests
  /\ view \in [Conns -> View]
  /\ missed \in [Conns -> SUBSET Gaps]
  /\ outbox \in [Conns -> Seq(Message)]
  /\ reply \in [Conns -> Seq(Message)]

\* Ids are given out one for each request; with MaxRequestsAssumption, they last.
Bounded ==
  /\ \A c \in Conns : Len(outbox[c]) <= Capacity
  /\ room.next + Cardinality(joining) <= asked + 2

\* Ids are new when they are given, and nobody both waits and is accepted.
RoomFine(r) ==
  /\ \A p \in Occupied(r) : p < r.next
  /\ Peers(r.clients) \cap Peers(r.pending) = {}

\* Whoever is there has the seat of its session, and a room that is gone has none.
SeatsOwned ==
  /\ ~registered => Empty(room)
  /\ \A c \in Conns \ closed, p \in PeerIds : Sits(room, p, c) => sess[c] = p

\* Nothing is due to a client whose task seeks a seat, Joined only to one that has got one,
\* and a view is of a room or of none.
Asking(c) ==
  /\ Replying(reply[c])
  /\ "Joined" \in Types(reply[c]) => sess[c] # 0
  /\ c \in joining => sess[c] = 0 /\ reply[c] = <<>>
  /\ view[c].in <=> view[c].peer # 0
  /\ c \in closed => reply[c] = <<>> /\ c \notin joining

\* The inductive invariant.
RelayInv ==
  /\ RelayTyped
  /\ Bounded
  /\ RoomFine(room)
  /\ SeatsOwned
  /\ \A c \in Conns : Asking(c)
  /\ \A c \in Conns \ closed : Knows(Told(c), room, c, sess[c], missed[c])

-----------------------------------------------------------------------------
(* How knowledge is kept.                                                  *)

\* Who misses more has to know less.
LEMMA KnowsMore ==
  ASSUME NEW v, NEW w, NEW r, NEW c, NEW id, NEW gap, NEW more, gap \subseteq more,
         Knows(w, r, c, id, gap), Matches(v, w, more)
  PROVE  Knows(v, r, c, id, more)
<1>1. \A S : more \cap S = {} => gap \cap S = {}
  OBVIOUS
<1>2. /\ id # 0 /\ "Joined" \notin more => v.in /\ v.peer = id
      /\ id = 0 /\ "Crossed" \notin more => ~v.in /\ v.peer = 0
  BY DEF Knows, Matches
<1>3. Sits(r, id, c) /\ more \cap {"Joined", "HostTransferred"} = {} =>
        v.host = r.host \/ (r.host = 0 /\ id \notin Peers(r.clients))
  BY <1>1 DEF Knows, Matches
<1>4. Sits(r, id, c) /\ more \cap {"Joined", "StateUpdate"} = {} => r.state \in {0, v.state}
  BY <1>1 DEF Knows, Matches
<1>5. Sits(r, id, c) /\ more \cap {"Joined", "PeerJoined", "PeerLeft"} = {} =>
        RosterFits(v.roster, r, id)
  <2>1. more \cap {"Joined", "PeerJoined", "PeerLeft"} = {} =>
          more \cap {"PeerJoined", "PeerLeft"} = {}
    OBVIOUS
  <2> QED
    BY <1>1, <2>1 DEF Knows, Matches
<1> QED
  BY <1>2, <1>3, <1>4, <1>5 DEF Knows

\* What settles leaves a room in order, and adds nobody to it.
LEMMA SettlesFine ==
  ASSUME NEW before, NEW after, Settles(after, before), RoomFine(before)
  PROVE  /\ RoomFine(after) /\ after \in RelayRoom
         /\ Peers(after.clients) \subseteq Peers(before.clients)
         /\ Peers(after.pending) \subseteq Peers(before.pending)
         /\ Occupied(after) \subseteq Occupied(before)
         /\ \A p, c : Sits(after, p, c) => Sits(before, p, c)
<1>1. /\ Peers(after.clients) \subseteq Peers(before.clients)
      /\ Peers(after.pending) \subseteq Peers(before.pending)
  BY DEF Settles, Peers
<1>2. Occupied(after) \subseteq Occupied(before)
  BY <1>1 DEF Occupied
<1>3. RoomFine(after)
  BY <1>1, <1>2 DEF RoomFine, Settles
<1>4. \A p, c : Sits(after, p, c) => Sits(before, p, c)
  BY DEF Sits, Settles, Peers
<1> QED
  BY <1>1, <1>2, <1>3, <1>4 DEF Settles

\* An accepted client that knows the room before a broadcast also knows it after the
\* aftermath.
LEMMA KnowsSettled ==
  ASSUME NEW before, NEW after, Settles(after, before), RoomFine(before),
         NEW v, NEW w, Learns(v, w, before, after), NEW c, NEW id, NEW gap,
         Knows(v, before, c, id, gap), id \in Peers(after.clients)
  PROVE  Knows(w, after, c, id, gap)
<1>1. /\ Sits(after, id, c) => Sits(before, id, c)
      /\ Peers(after.clients) \subseteq Peers(before.clients)
      /\ Peers(after.pending) \subseteq Peers(before.pending)
  BY SettlesFine
<1>2. /\ id # 0 /\ "Joined" \notin gap => w.in /\ w.peer = id
      /\ id = 0 /\ "Crossed" \notin gap => ~w.in /\ w.peer = 0
  BY DEF Knows, Learns
<1>3. Sits(after, id, c) /\ gap \cap {"Joined", "HostTransferred"} = {} =>
        w.host = after.host
  <2>1. id \in Peers(before.clients) /\ (after.host = 0 => before.host = 0)
    BY <1>1 DEF Settles
  <2> QED
    BY <1>1, <2>1 DEF Knows, Learns
<1>4. Sits(after, id, c) /\ gap \cap {"Joined", "StateUpdate"} = {} => after.state \in {0, w.state}
  BY <1>1 DEF Knows, Learns, Settles
<1>5. ASSUME RosterFits(v.roster, before, id)
      PROVE  RosterFits(w.roster, after, id)
  <2>1. w.roster = v.roster \ (Occupied(before) \ Occupied(after))
    BY DEF Learns
  <2>2. Peers(before.clients) \cap Peers(after.pending) = {}
    BY <1>1 DEF RoomFine
  <2> QED
    BY <1>1, <1>5, <2>1, <2>2 DEF RosterFits, Occupied
<1>6. Sits(after, id, c) /\ gap \cap {"Joined", "PeerJoined", "PeerLeft"} = {} =>
        RosterFits(w.roster, after, id)
  BY <1>1, <1>5 DEF Knows
<1> QED
  BY <1>2, <1>3, <1>4, <1>6 DEF Knows

\* And a client that waits, unless the host is another.
LEMMA KnowsWaiting ==
  ASSUME NEW before, NEW after, Settles(after, before), RoomFine(before),
         NEW v, NEW c, NEW id, NEW gap,
         Knows(v, before, c, id, gap), id \in Peers(after.pending),
         "HostTransferred" \notin gap => after.host \in {before.host, 0}
  PROVE  Knows(v, after, c, id, gap)
<1>1. /\ Sits(after, id, c) => Sits(before, id, c)
      /\ Peers(after.clients) \subseteq Peers(before.clients)
      /\ Peers(after.pending) \subseteq Peers(before.pending)
  BY SettlesFine
<1>2. id \notin Peers(before.clients)
  BY <1>1 DEF RoomFine
<1>3. Sits(after, id, c) /\ gap \cap {"Joined", "HostTransferred"} = {} =>
        v.host = after.host \/ (after.host = 0 /\ id \notin Peers(after.clients))
  BY <1>1, <1>2 DEF Knows
<1>4. Sits(after, id, c) /\ gap \cap {"Joined", "StateUpdate"} = {} => after.state \in {0, v.state}
  BY <1>1 DEF Knows, Settles
<1>5. RosterFits(v.roster, before, id) => RosterFits(v.roster, after, id)
  BY <1>1, <1>2 DEF RosterFits
<1>6. Sits(after, id, c) /\ gap \cap {"Joined", "PeerJoined", "PeerLeft"} = {} =>
        RosterFits(v.roster, after, id)
  BY <1>1, <1>5 DEF Knows
<1> QED
  BY <1>3, <1>4, <1>6 DEF Knows

\* Who is not there only needs to know that it has left.
LEMMA KnowsOutside ==
  ASSUME NEW before, NEW after, NEW v, NEW w, w.in = v.in, w.peer = v.peer,
         NEW c, NEW id, NEW gap, Knows(v, before, c, id, gap), ~Sits(after, id, c)
  PROVE  Knows(w, after, c, id, gap)
BY DEF Knows

-----------------------------------------------------------------------------
(* Sending.                                                                *)

\* Sequences of messages have types of messages.
LEMMA TypesOfMessages ==
  ASSUME NEW msgs \in Seq(Message)
  PROVE  Types(msgs) \subseteq MessageTypes
<1>1. PICK n \in Nat : DOMAIN msgs = 1 .. n /\ \A i \in 1 .. n : msgs[i] \in Message
  BY LenProperties, ElementOfSeq
<1> QED
  BY <1>1, MessageKinds DEF Types

\* What a section sends to c, and what it then knows.
Queued(sent, r, news, c) ==
  /\ QueuesWith(sent)[c] \in Seq(Message) /\ Len(QueuesWith(sent)[c]) <= Capacity
  /\ Types(QueuesWith(sent)[c]) \subseteq Types(outbox[c]) \cup Types(sent[c])
  /\ MissedOf(r, sent, news)[c] \in SUBSET Gaps
  /\ missed[c] \subseteq MissedOf(r, sent, news)[c]
  /\ c \in Members(r.pending) => Types(news) \subseteq MissedOf(r, sent, news)[c]
  /\ Matches(Read(view[c], QueuesWith(sent)[c] \o reply[c]), Read(Told(c), sent[c]),
             MissedOf(r, sent, news)[c])

\* What is queued for a client in a room is heard as if it came after the reply due to it.
LEMMA Hearing ==
  ASSUME RelayTyped, Bounded, NEW c \in Conns, Asking(c), NEW sent, NEW r,
         NEW news \in Seq(Message), sent[c] \in Seq(Message), "Joined" \notin Types(sent[c])
  PROVE  Queued(sent, r, news, c)
<1>1. /\ outbox[c] \in Seq(Message) /\ view[c] \in View /\ missed[c] \subseteq Gaps
      /\ reply[c] \in Seq(Message) /\ Replying(reply[c])
  BY DEF RelayTyped, Asking
<1>2. PICK s \in Seq(Message) : s = sent[c] /\ "Joined" \notin Types(s)
  OBVIOUS
<1>3. Len(outbox[c]) \in Nat /\ Len(outbox[c]) <= Capacity
  BY <1>1, LenProperties DEF Bounded
<1>4. PICK f \in Seq(Message), d \in Seq(Message) :
        f = Fitting(c, s) /\ d = Dropped(c, s) /\ s = f \o d /\ Len(f) <= Capacity - Len(outbox[c])
  BY <1>3, FittingDropped
<1>5. PICK q \in Seq(Message) : q = outbox[c]
  BY <1>1
<1>6. QueuesWith(sent)[c] = q \o f
  BY <1>2, <1>4, <1>5 DEF QueuesWith
<1>7. q \o f \in Seq(Message) /\ Len(q \o f) <= Capacity /\ Types(q \o f) = Types(q) \cup Types(f)
  <2>1. Len(q \o f) = Len(q) + Len(f) /\ q \o f \in Seq(Message)
    BY ConcatProperties
  <2>2. Len(q) \in Nat /\ Len(f) \in Nat /\ Capacity \in Nat
    BY LenProperties, CapacityAssumption
  <2> QED
    BY <1>4, <1>5, <2>1, <2>2, TypesBoth
<1>8. Types(s) = Types(f) \cup Types(d)
  <2>1. Types(f \o d) = Types(f) \cup Types(d)
    BY TypesBoth
  <2> QED
    BY <1>4, <2>1
<1>9. Overtaking(c, s) = Late(reply[c], s)
  BY Zenon DEF Overtaking, Late
<1>10. MissedOf(r, sent, news)[c] =
         missed[c] \cup Types(d) \cup Late(reply[c], s)
           \cup (IF c \in Members(r.pending) THEN Types(news) ELSE {})
  BY <1>2, <1>4, <1>9 DEF MissedOf
<1> DEFINE gap == MissedOf(r, sent, news)[c]
<1>11. gap \in SUBSET Gaps /\ missed[c] \subseteq gap /\ Types(d) \cup Late(reply[c], s) \subseteq gap
  <2>1. Types(d) \subseteq Gaps /\ Types(news) \subseteq Gaps /\ Types(s) \subseteq Gaps
    BY TypesOfMessages DEF Gaps
  <2>2. Late(reply[c], s) \subseteq Types(s)
    BY DEF Late
  <2> QED
    BY <1>1, <1>10, <2>1, <2>2
<1>12. c \in Members(r.pending) => Types(news) \subseteq gap
  BY <1>10
<1>13. Matches(Read(view[c], (q \o f) \o reply[c]), Read(Told(c), s), Types(d) \cup Late(reply[c], s))
  BY <1>1, <1>2, <1>4, <1>5, Heard DEF Told
<1> HIDE DEF gap
<1>14. Matches(Read(view[c], (q \o f) \o reply[c]), Read(Told(c), s), gap)
  BY <1>11, <1>13 DEF Matches
<1> QED
  BY <1>2, <1>5, <1>6, <1>7, <1>8, <1>11, <1>12, <1>14 DEF Queued, gap

\* What a member c of r gets, x of it besides, and what becomes of its view v.
Delivers(sent, r, msgs, news, x, c, v) ==
  /\ sent[c] \in Seq(Message)
  /\ Types(sent[c]) \subseteq Types(x) \cup Types(msgs) \cup Types(news)
  /\ c \in Members(r.clients) => Read(v, sent[c]) = Read(Read(v, msgs), news)
  /\ c \in Members(r.pending) \ Members(r.clients) => Read(v, sent[c]) = Read(v, msgs)

\* What a broadcast puts into one client's queue, and what it drops.
LEMMA SentTo ==
  ASSUME NEW r, NEW msgs \in Seq(Message), NEW news \in Seq(Message),
         NEW extra, NEW c \in Conns, NEW x \in Seq(Message), x = extra[c],
         NEW v, Read(v, x) = v
  PROVE  Delivers(Sent(r, msgs, news, extra), r, msgs, news, x, c, v)
<1>2. PICK sent : sent = Sent(r, msgs, news, extra)
  OBVIOUS
<1>1. PICK none \in Seq(Message) : none = <<>> /\ Types(none) = {} /\ \A w : Read(w, none) = w
  <2>1. PICK none \in Seq(Message) : none = <<>>
    BY EmptySeq
  <2>2. Len(none) = 0
    BY <2>1
  <2>3. DOMAIN none = {}
    BY <2>2, LenProperties
  <2> QED
    BY <2>1, <2>3, ReadNone DEF Types
<1>3. PICK m \in Seq(Message) :
        /\ m = IF c \in Members(r.clients) \cup Members(r.pending) THEN msgs ELSE none
        /\ Types(m) \subseteq Types(msgs)
  BY <1>1
<1>4. PICK n \in Seq(Message) :
        /\ n = IF c \in Members(r.clients) THEN news ELSE none
        /\ Types(n) \subseteq Types(news)
  BY <1>1
<1>5. sent[c] = (x \o m) \o n
  BY <1>1, <1>2, <1>3, <1>4 DEF Sent
<1>6. x \o m \in Seq(Message) /\ (x \o m) \o n \in Seq(Message)
  BY ConcatProperties
<1>7. Types((x \o m) \o n) = Types(x) \cup Types(m) \cup Types(n)
  <2>1. PICK xm \in Seq(Message) : xm = x \o m
    BY <1>6
  <2>2. Types(x \o m) = Types(x) \cup Types(m)
    BY TypesBoth
  <2>3. Types(xm \o n) = Types(xm) \cup Types(n)
    BY TypesBoth
  <2> QED
    BY <2>1, <2>2, <2>3
<1>8. Read(v, (x \o m) \o n) = Read(Read(v, m), n)
  <2>1. PICK xm \in Seq(Message) : xm = x \o m
    BY <1>6
  <2>2. Read(v, xm \o n) = Read(Read(v, xm), n)
    BY ReadBoth
  <2>3. Read(v, x \o m) = Read(Read(v, x), m)
    BY ReadBoth
  <2> QED
    BY <2>1, <2>2, <2>3
<1>9. c \in Members(r.clients) => Read(v, (x \o m) \o n) = Read(Read(v, msgs), news)
  BY <1>3, <1>4, <1>8
<1>10. c \in Members(r.pending) \ Members(r.clients) => Read(v, (x \o m) \o n) = Read(v, msgs)
  BY <1>1, <1>3, <1>4, <1>8
<1> QED
  BY <1>2, <1>3, <1>4, <1>5, <1>6, <1>7, <1>9, <1>10 DEF Delivers

\* The messages a section sends besides: they change no view.
Extra(extra) ==
  \A c \in Conns : /\ extra[c] \in Seq(Message) /\ "Joined" \notin Types(extra[c])
                   /\ \A v \in View : Read(v, extra[c]) = v

\* Who knows the room also knows what a section has made of it before the broadcast, by
\* msgs to all members and head to the accepted ones.
Prepares(before, msgs, head) ==
  \A c \in Conns \ closed : \A v \in View, gap \in SUBSET Gaps :
    Sits(before, sess[c], c) /\ Knows(v, room, c, sess[c], gap) =>
      /\ sess[c] \in Peers(before.clients) =>
           Knows(Read(Read(v, msgs), head), before, c, sess[c], gap)
      /\ sess[c] \in Peers(before.pending) /\ Types(head) \subseteq gap =>
           Knows(Read(v, msgs), before, c, sess[c], gap)

\* The room as a section has left it before a broadcast.
Prepared(before) ==
  /\ before \in RelayRoom /\ RoomFine(before)
  /\ \A p, c : Sits(before, p, c) => Sits(room, p, c)

Silently(msgs) == msgs \in Seq(Message) /\ "Joined" \notin Types(msgs)

\* A client for which a broadcast is meant knows afterwards what it knew, and the news.
LEMMA TellingKeeps ==
  ASSUME RelayInv, NEW before, Prepared(before), NEW after, Settles(after, before),
         NEW msgs, Silently(msgs), NEW head, Silently(head), NEW extra, Extra(extra),
         Prepares(before, msgs, head), NEW c \in Conns
  PROVE  LET news == head \o Aftermath(before, after)
             sent == Sent(after, msgs, news, extra)
         IN  /\ Queued(sent, after, news, c) /\ "Joined" \notin Types(sent[c])
             /\ c \notin closed =>
                  Knows(Read(view[c], QueuesWith(sent)[c] \o reply[c]), after, c, sess[c],
                        MissedOf(after, sent, news)[c])
<1>1. PICK t \in View : t = Told(c)
  <2>1. view[c] \in View /\ outbox[c] \in Seq(Message) /\ reply[c] \in Seq(Message)
    BY DEF RelayInv, RelayTyped
  <2>2. outbox[c] \o reply[c] \in Seq(Message)
    BY <2>1, ConcatProperties
  <2> QED
    BY <2>1, <2>2, ReadView DEF Told
<1>2. PICK aft \in Seq(Message) :
        /\ aft = Aftermath(before, after) /\ "Joined" \notin Types(aft)
        /\ after.host \notin {before.host, 0} => "HostTransferred" \in Types(aft)
        /\ \A v \in View : Learns(v, Read(v, aft), before, after)
  <2>1. after.host \in PeerIdOrNone
    BY DEF Settles, RelayRoom
  <2>2. "Joined" \notin {"PeerLeft", "HostTransferred"}
    OBVIOUS
  <2> QED
    BY <2>1, <2>2, AftermathTells
<1>3. PICK news \in Seq(Message) : /\ news = head \o aft
                                   /\ Types(news) = Types(head) \cup Types(aft)
  BY ConcatProperties, TypesBoth DEF Silently
<1>4. PICK sent : sent = Sent(after, msgs, news, extra)
  OBVIOUS
<1>5. /\ sent[c] \in Seq(Message) /\ "Joined" \notin Types(sent[c])
      /\ c \in Members(after.clients) => Read(t, sent[c]) = Read(Read(t, msgs), news)
      /\ c \in Members(after.pending) \ Members(after.clients) => Read(t, sent[c]) = Read(t, msgs)
  <2>1. /\ extra[c] \in Seq(Message) /\ "Joined" \notin Types(extra[c]) /\ Read(t, extra[c]) = t
        /\ msgs \in Seq(Message) /\ "Joined" \notin Types(msgs) /\ "Joined" \notin Types(head)
    BY DEF Extra, Silently
  <2>2. "Joined" \notin Types(news)
    BY <1>2, <1>3, <2>1
  <2>3. PICK x \in Seq(Message) : x = extra[c] /\ Read(t, x) = t /\ "Joined" \notin Types(x)
    BY <2>1
  <2>4. msgs \in Seq(Message)
    BY <2>1
  <2>5. Delivers(sent, after, msgs, news, x, c, t)
    BY <1>4, <2>3, <2>4, SentTo
  <2> QED
    BY <2>1, <2>2, <2>3, <2>5 DEF Delivers
<1>6. Queued(sent, after, news, c)
  BY <1>5, Hearing DEF RelayInv
<1> DEFINE gap == MissedOf(after, sent, news)[c]
           told == Read(view[c], QueuesWith(sent)[c] \o reply[c])
           s == sess[c]
<1>7. /\ gap \in SUBSET Gaps /\ missed[c] \subseteq gap
      /\ c \in Members(after.pending) => Types(news) \subseteq gap
  BY <1>6 DEF Queued
<1>8. PICK w \in View : /\ w = Read(t, sent[c]) /\ Matches(told, w, gap)
                        /\ w.in = t.in /\ w.peer = t.peer
  <2>1. PICK w : w = Read(t, sent[c]) /\ w \in View /\ Turns(t, sent[c], w)
    BY <1>5, ReadView
  <2>2. Matches(told, w, gap)
    BY <1>1, <1>6, <2>1 DEF Queued
  <2> QED
    BY <1>5, <2>1, <2>2 DEF Turns
<1> HIDE DEF gap, told
<1>9. ASSUME c \notin closed
      PROVE  Knows(told, after, c, s, gap)
  <2>1. Knows(t, room, c, s, gap)
    <3>1. Knows(t, room, c, s, missed[c])
      BY <1>1, <1>9 DEF RelayInv
    <3>2. Matches(t, t, gap)
      BY DEF Matches
    <3> QED
      BY <1>7, <3>1, <3>2, KnowsMore
  <2>2. Knows(w, after, c, s, gap)
    <3>1. CASE ~Sits(after, s, c)
      BY <1>8, <2>1, <3>1, KnowsOutside
    <3>2. CASE Sits(after, s, c) /\ s \in Peers(after.clients)
      <4>1. /\ RoomFine(after) /\ Sits(before, s, c)
            /\ s \in Peers(before.clients) /\ s \notin Peers(after.pending)
        BY <3>2, SettlesFine DEF Prepared, RoomFine
      <4>2. c \in Members(after.clients)
        BY <1>9, <3>2, <4>1 DEF Sits, Members
      <4>3. PICK m \in View : m = Read(t, msgs)
        BY ReadView DEF Silently
      <4>4. PICK u \in View : u = Read(m, head)
        BY ReadView DEF Silently
      <4>5. Knows(u, before, c, s, gap)
        BY <1>7, <1>9, <2>1, <4>1, <4>3, <4>4 DEF Prepares
      <4>6. w = Read(u, aft)
        <5>1. Read(m, head \o aft) = Read(Read(m, head), aft)
          BY ReadBoth DEF Silently
        <5> QED
          BY <1>3, <1>5, <1>8, <4>2, <4>3, <4>4, <5>1
      <4>7. Learns(u, w, before, after)
        BY <1>2, <4>6
      <4> QED
        BY <3>2, <4>5, <4>7, KnowsSettled DEF Prepared
    <3>3. CASE Sits(after, s, c) /\ s \notin Peers(after.clients)
      <4>1. s \in Peers(after.pending) /\ after.pending[s].conn = c
        BY <3>3 DEF Sits
      <4>2. c \in Members(after.pending)
        BY <1>9, <4>1 DEF Members
      <4>3. c \notin Members(after.clients)
        <5>1. ASSUME NEW p \in Peers(after.clients), after.clients[p].conn = c
              PROVE  p = s
          <6>1. Sits(after, p, c) /\ p \in PeerIds
            BY <5>1 DEF Sits, Peers
          <6>2. Sits(room, p, c)
            BY <6>1, SettlesFine DEF Prepared
          <6> QED
            BY <1>9, <6>1, <6>2 DEF RelayInv, SeatsOwned
        <5> QED
          BY <3>3, <5>1 DEF Members
      <4>4. Sits(before, s, c) /\ s \in Peers(before.pending)
        BY <3>3, <4>1, SettlesFine DEF Prepared
      <4>5. Types(head) \subseteq gap /\ Types(aft) \subseteq gap
        BY <1>3, <1>7, <4>2
      <4>6. w = Read(t, msgs)
        BY <1>5, <1>8, <4>2, <4>3
      <4>7. Knows(w, before, c, s, gap)
        BY <1>7, <1>9, <2>1, <4>4, <4>5, <4>6 DEF Prepares
      <4>8. "HostTransferred" \notin gap => after.host \in {before.host, 0}
        BY <1>2, <4>5
      <4> QED
        BY <4>1, <4>7, <4>8, KnowsWaiting DEF Prepared
    <3> QED
      BY <3>1, <3>2, <3>3
  <2> QED
    BY <1>8, <2>2, KnowsMore
<1> QED
  BY <1>2, <1>3, <1>4, <1>5, <1>6, <1>9 DEF gap, told

\* After a step, c still knows the room, had the step left its session, its view and
\* its reply alone.
HeedsAt(c) ==
  /\ outbox'[c] \in Seq(Message) /\ Len(outbox'[c]) <= Capacity
  /\ missed'[c] \in SUBSET Gaps
  /\ c \notin closed =>
       Knows(Read(view[c], outbox'[c] \o reply[c]), room', c, sess[c], missed'[c])

\* Queues and records of the connections that a step leaves alone.
LEMMA SilentHeeds ==
  ASSUME RelayInv, NEW c \in Conns, room' = room, outbox'[c] = outbox[c], missed'[c] = missed[c]
  PROVE  HeedsAt(c)
<1>1. outbox[c] \in Seq(Message) /\ missed[c] \in SUBSET Gaps /\ Len(outbox[c]) <= Capacity
  BY DEF RelayInv, RelayTyped, Bounded
<1>2. c \notin closed => Knows(Read(view[c], outbox[c] \o reply[c]), room, c, sess[c], missed[c])
  BY DEF RelayInv, Told
<1> QED
  BY <1>1, <1>2 DEF HeedsAt

\* What a broadcast comes to.
Broadcasted ==
  /\ outbox' \in [Conns -> Seq(Message)] /\ missed' \in [Conns -> SUBSET Gaps]
  /\ room' \in RelayRoom /\ RoomFine(room')
  /\ \A p, c : Sits(room', p, c) => Sits(room, p, c)
  /\ \A c \in Conns : HeedsAt(c)

\* A broadcast that says what was done to the room keeps every client's knowledge.
LEMMA TellsHeeded ==
  ASSUME RelayInv, NEW before, Prepared(before), NEW after, Settles(after, before),
         NEW msgs, Silently(msgs), NEW head, Silently(head), NEW extra, Extra(extra),
         Prepares(before, msgs, head), room' = after,
         Tells(after, msgs, head \o Aftermath(before, after), extra)
  PROVE  Broadcasted
<1> DEFINE news == head \o Aftermath(before, after)
           sent == Sent(after, msgs, news, extra)
<1>1. outbox' = QueuesWith(sent) /\ missed' = MissedOf(after, sent, news)
  BY DEF Tells
<1>2. \A c \in Conns :
        /\ Queued(sent, after, news, c) /\ "Joined" \notin Types(sent[c])
        /\ c \notin closed =>
             Knows(Read(view[c], QueuesWith(sent)[c] \o reply[c]), after, c, sess[c],
                   MissedOf(after, sent, news)[c])
  BY TellingKeeps
<1> HIDE DEF sent, news
<1>3. \A c \in Conns : HeedsAt(c)
  BY <1>1, <1>2 DEF HeedsAt, Queued
<1>4. outbox' \in [Conns -> Seq(Message)]
  <2>1. outbox' = [c \in Conns |-> outbox[c] \o Fitting(c, sent[c])]
    BY <1>1 DEF QueuesWith
  <2>2. \A c \in Conns : outbox'[c] \in Seq(Message)
    BY <1>3 DEF HeedsAt
  <2> QED
    BY <2>1, <2>2
<1>5. missed' \in [Conns -> SUBSET Gaps]
  <2>1. missed' = [c \in Conns |->
          missed[c] \cup Types(Dropped(c, sent[c])) \cup Overtaking(c, sent[c])
            \cup (IF c \in Members(after.pending) THEN Types(news) ELSE {})]
    BY <1>1 DEF MissedOf
  <2>2. \A c \in Conns : missed'[c] \in SUBSET Gaps
    BY <1>3 DEF HeedsAt
  <2> QED
    BY <2>1, <2>2
<1>6. RoomFine(after) /\ after \in RelayRoom /\ \A p, c : Sits(after, p, c) => Sits(room, p, c)
  BY SettlesFine DEF Prepared
<1> QED
  BY <1>3, <1>4, <1>5, <1>6 DEF Broadcasted

\* A step of c keeps the invariant if it keeps it for c.
LEMMA StepInv ==
  ASSUME RelayInv, NEW c \in Conns,
         room' \in RelayRoom, RoomFine(room'), registered' \in BOOLEAN,
         sess' \in [Conns -> PeerIdOrNone], joining' \in SUBSET Conns, IsFiniteSet(joining'),
         asked' \in 0 .. MaxRequests, view' \in [Conns -> View],
         missed' \in [Conns -> SUBSET Gaps], outbox' \in [Conns -> Seq(Message)],
         reply' \in [Conns -> Seq(Message)], closed' \in {closed, closed \cup {c}},
         \A d \in Conns \ {c} :
           /\ HeedsAt(d)
           /\ sess'[d] = sess[d] /\ view'[d] = view[d] /\ reply'[d] = reply[d]
           /\ d \in joining' => d \in joining
           /\ \A p : Sits(room', p, d) => Sits(room, p, d),
         Len(outbox'[c]) <= Capacity,
         room'.next + Cardinality(joining') <= asked' + 2,
         ~registered' => Empty(room'),
         c \notin closed' => \A p \in PeerIds : Sits(room', p, c) => sess'[c] = p,
         Asking(c)',
         c \notin closed' => Knows(Told(c)', room', c, sess'[c], missed'[c])
  PROVE  RelayInv'
<1>1. RelayTyped'
  BY DEF RelayInv, RelayTyped
<1>2. Bounded'
  <2>1. \A d \in Conns : Len(outbox'[d]) <= Capacity
    BY DEF HeedsAt
  <2> QED
    BY <2>1 DEF Bounded
<1>3. RoomFine(room)'
  BY DEF RoomFine, Occupied, Peers
<1>4. SeatsOwned'
  <2>1. ASSUME NEW d \in Conns \ closed', NEW p \in PeerIds, Sits(room', p, d)
        PROVE  sess'[d] = p
    <3>1. CASE d = c
      BY <2>1, <3>1
    <3>2. CASE d # c
      <4>1. Sits(room, p, d) /\ sess'[d] = sess[d] /\ d \notin closed
        BY <2>1, <3>2
      <4> QED
        BY <4>1 DEF RelayInv, SeatsOwned
    <3> QED
      BY <3>1, <3>2
  <2>2. ~registered' => Empty(room)'
    BY DEF Empty, Peers
  <2>3. \A d \in Conns \ closed', p \in PeerIds : Sits(room, p, d)' => sess'[d] = p
    BY <2>1 DEF Sits, Peers
  <2> QED
    BY <2>2, <2>3 DEF SeatsOwned
<1>5. ASSUME NEW d \in Conns PROVE Asking(d)'
  <2>1. CASE d = c
    BY <2>1
  <2>2. CASE d # c
    <3>1. /\ HeedsAt(d) /\ sess'[d] = sess[d] /\ view'[d] = view[d] /\ reply'[d] = reply[d]
          /\ d \in joining' => d \in joining
          /\ d \in closed' => d \in closed
      BY <2>2
    <3>2. Asking(d)
      BY DEF RelayInv
    <3> QED
      BY <3>1, <3>2 DEF Asking
  <2> QED
    BY <2>1, <2>2
<1>6. ASSUME NEW d \in Conns \ closed'
      PROVE  Knows(Told(d), room, d, sess[d], missed[d])'
  <2>1. Knows(Told(d)', room', d, sess'[d], missed'[d])
    <3>1. CASE d = c
      BY <1>6, <3>1
    <3>2. CASE d # c
      <4>1. HeedsAt(d) /\ sess'[d] = sess[d] /\ view'[d] = view[d] /\ reply'[d] = reply[d]
        BY <3>2
      <4>2. Told(d)' = Read(view[d], outbox'[d] \o reply[d])
        BY <4>1 DEF Told, Read
      <4> QED
        BY <1>6, <4>1, <4>2 DEF HeedsAt
    <3> QED
      BY <3>1, <3>2
  <2> QED
    BY <2>1 DEF Knows, Sits, Peers, RosterFits
<1> QED
  BY <1>1, <1>2, <1>3, <1>4, <1>5, <1>6 DEF RelayInv

\* A section that sends nothing.
LEMMA SilentBroadcasted ==
  ASSUME RelayInv, room' = room, Silent
  PROVE  Broadcasted
<1>1. outbox' = outbox /\ missed' = missed
  BY DEF Silent
<1>2. \A c \in Conns : HeedsAt(c)
  BY <1>1, SilentHeeds
<1> QED
  BY <1>1, <1>2 DEF Broadcasted, RelayInv, RelayTyped

\* An answer, or none, tells nothing about the room.
LEMMA AnswerTells ==
  ASSUME NEW r \in {<<>>, <<Answer>>}
  PROVE  /\ r \in Seq(Message) /\ Replying(r) /\ "Joined" \notin Types(r)
         /\ \A v \in View : Read(v, r) = v
<1>1. Answer \in Message /\ Answer.type = "Answer"
  BY DEF Answer, Message
<1>2. CASE r = <<>>
  <2>1. PICK none \in Seq(Message) : none = r /\ Len(none) = 0
    BY <1>2, EmptySeq
  <2>2. DOMAIN none = {}
    BY <2>1, LenProperties
  <2>3. Types(none) = {}
    BY <2>2 DEF Types
  <2> QED
    BY <2>1, <2>2, <2>3, ReadNone DEF Replying
<1>3. CASE r = <<Answer>>
  <2>1. <<Answer>> \in Seq(Message) /\ Types(<<Answer>>) = {"Answer"}
    BY <1>1, TypesOne
  <2>2. Len(<<Answer>>) = 1
    BY <1>1, OneOf
  <2>3. \A v \in View : Read(v, <<Answer>>) = v
    <3>1. \A v : Read(v, <<Answer>>) = Applied(v, Answer)
      BY <1>1, ReadOne
    <3> QED
      BY <1>1, <3>1 DEF Applied
  <2> QED
    BY <1>3, <2>1, <2>2, <2>3 DEF Replying
<1> QED
  BY <1>2, <1>3

\* A request other than Leave.
LEMMA AskFacts ==
  ASSUME RelayInv, NEW c \in Conns, NEW type, Asks(c, type)
  PROVE  /\ c \notin closed /\ c \notin joining /\ reply[c] = <<>>
         /\ asked' = asked + 1 /\ asked' \in 0 .. MaxRequests /\ closed' = closed
         /\ type # "Leave" => view' = view
<1>1. /\ view \in [Conns -> View] /\ asked \in 0 .. MaxRequests /\ MaxRequests \in Nat
      /\ view' = [view EXCEPT ![c] = AfterSending(view[c], type)]
  BY MaxRequestsAssumption DEF RelayInv, RelayTyped, Asks
<1>2. type # "Leave" => view' = view
  BY <1>1 DEF AfterSending
<1>3. asked' = asked + 1 /\ asked' \in 0 .. MaxRequests
  BY <1>1 DEF Asks
<1> QED
  BY <1>2, <1>3 DEF Asks

\* Reading what is on its way with a reply that tells nothing.
LEMMA ReadAnswered ==
  ASSUME NEW v \in View, NEW q \in Seq(Message), NEW r \in {<<>>, <<Answer>>}
  PROVE  Read(v, q \o r) = Read(v, q)
<1>1. PICK u \in View : u = Read(v, q)
  BY ReadView
<1>2. r \in Seq(Message) /\ Read(u, r) = u
  BY AnswerTells
<1> QED
  BY <1>1, <1>2, ReadBoth

\* What most requests come to: the room may be another, and c gets an answer or none.
LEMMA AnsweredInv ==
  ASSUME RelayInv, NEW c \in Conns, NEW type, type # "Leave", Asks(c, type), Broadcasted,
         room'.next = room.next, registered \/ room' = room,
         UNCHANGED <<registered, sess, joining>>,
         NEW r \in {<<>>, <<Answer>>}, reply' = [reply EXCEPT ![c] = r]
  PROVE  RelayInv'
<1>1. /\ c \notin closed /\ c \notin joining /\ reply[c] = <<>>
      /\ asked' = asked + 1 /\ asked' \in 0 .. MaxRequests /\ closed' = closed /\ view' = view
  BY AskFacts
<1>2. /\ room \in RelayRoom /\ registered \in BOOLEAN /\ sess \in [Conns -> PeerIdOrNone]
      /\ joining \in SUBSET Conns /\ IsFiniteSet(joining) /\ view \in [Conns -> View]
      /\ reply \in [Conns -> Seq(Message)] /\ asked \in Nat
  BY DEF RelayInv, RelayTyped
<1>3. r \in Seq(Message) /\ Replying(r) /\ "Joined" \notin Types(r)
  BY AnswerTells
<1>4. /\ reply' \in [Conns -> Seq(Message)] /\ reply'[c] = r
      /\ \A d \in Conns \ {c} : reply'[d] = reply[d]
  BY <1>2, <1>3
<1>5. room'.next + Cardinality(joining') <= asked' + 2
  <2>1. Cardinality(joining) \in Nat /\ room.next \in Nat
    BY <1>2, FS_CardinalityType DEF RelayRoom, PeerIds
  <2> QED
    BY <1>1, <1>2, <2>1 DEF RelayInv, Bounded
<1>6. ~registered' => Empty(room')
  BY DEF RelayInv, SeatsOwned
<1>7. \A p \in PeerIds : Sits(room', p, c) => sess'[c] = p
  BY <1>1 DEF RelayInv, SeatsOwned, Broadcasted
<1>8. HeedsAt(c)
  BY DEF Broadcasted
<1>9. Asking(c)'
  <2>1. Asking(c)
    BY DEF RelayInv
  <2> QED
    BY <1>1, <1>3, <1>4, <2>1 DEF Asking
<1>10. Knows(Told(c)', room', c, sess'[c], missed'[c])
  <2>1. PICK q \in Seq(Message) : q = outbox'[c]
    BY <1>8 DEF HeedsAt
  <2>2. PICK v \in View : v = view[c]
    BY <1>2
  <2>3. Read(v, q \o r) = Read(v, q) /\ Read(v, q \o <<>>) = Read(v, q)
    BY ReadAnswered
  <2>4. Told(c)' = Read(v, q \o r)
    BY <1>1, <1>4, <2>1, <2>2 DEF Told, Read
  <2> QED
    BY <1>1, <1>8, <2>1, <2>2, <2>3, <2>4 DEF HeedsAt
<1> QED
  BY <1>1, <1>2, <1>4, <1>5, <1>6, <1>7, <1>8, <1>9, <1>10, StepInv DEF Broadcasted, HeedsAt

-----------------------------------------------------------------------------
(* What each section announces.                                            *)

\* A room that settles after the present one may be broadcast about.
LEMMA SettlesPrepared ==
  ASSUME RelayInv, NEW before, Settles(before, room)
  PROVE  Prepared(before)
BY SettlesFine DEF Prepared, RelayInv

\* No message at all.
LEMMA Nothing ==
  /\ <<>> \in Seq(Message) /\ Types(<<>>) = {} /\ Silently(<<>>)
  /\ \A v : Read(v, <<>>) = v
<1>1. PICK none \in Seq(Message) : none = <<>> /\ Len(none) = 0
  BY EmptySeq
<1>2. DOMAIN none = {}
  BY <1>1, LenProperties
<1>3. Types(none) = {} /\ \A v : Read(v, none) = v
  BY <1>2, ReadNone DEF Types
<1> QED
  BY <1>1, <1>3 DEF Silently

\* A message that is not Joined, sent by itself.
LEMMA OneMessage ==
  ASSUME NEW m \in Message, m.type # "Joined"
  PROVE  /\ <<m>> \in Seq(Message) /\ Types(<<m>>) = {m.type} /\ Silently(<<m>>)
         /\ \A v \in View : Read(v, <<m>>) \in View /\ Changes(v, m, Read(v, <<m>>))
<1>1. <<m>> \in Seq(Message) /\ Types(<<m>>) = {m.type}
  BY TypesOne
<1>2. \A v \in View : Read(v, <<m>>) = Applied(v, m)
  BY ReadOne
<1> QED
  BY <1>1, <1>2, AppliedChanges DEF Silently

\* Nobody is sent anything of his own.
LEMMA NoExtraSent == Extra(NoExtra)
BY Nothing DEF Extra, NoExtra

\* A Kicked of his own says nothing of the room.
LEMMA OnlyKicked ==
  ASSUME NEW conn
  PROVE  Extra(Only(conn, Kicked))
<1>1. Kicked \in Message /\ Kicked.type = "Kicked"
  BY DEF Kicked, Message
<1>2. \A v : Read(v, <<Kicked>>) = v
  BY <1>1, ReadOne DEF Applied
<1>3. <<Kicked>> \in Seq(Message) /\ "Joined" \notin Types(<<Kicked>>)
  BY <1>1, TypesOne
<1> QED
  BY <1>2, <1>3, Nothing DEF Extra, Only

\* New settings are no news of a view.
LEMMA PreparesSettings ==
  ASSUME RelayInv, NEW before, Prepared(before),
         before.clients = room.clients, before.pending = room.pending,
         before.host = room.host, before.state = room.state,
         NEW m \in Message, m.type = "SettingsChanged"
  PROVE  Prepares(before, <<>>, <<m>>)
<1> SUFFICES ASSUME NEW c \in Conns \ closed, NEW v \in View, NEW gap \in SUBSET Gaps,
                    Sits(before, sess[c], c), Knows(v, room, c, sess[c], gap)
             PROVE  /\ Knows(Read(Read(v, <<>>), <<m>>), before, c, sess[c], gap)
                    /\ Knows(Read(v, <<>>), before, c, sess[c], gap)
  BY DEF Prepares
<1>1. Read(v, <<>>) = v /\ Read(v, <<m>>) = v
  BY Nothing, ReadOne DEF Applied
<1>2. Sits(room, sess[c], c)
  BY DEF Prepared
<1>3. RosterFits(v.roster, room, sess[c]) => RosterFits(v.roster, before, sess[c])
  BY DEF RosterFits
<1>4. Knows(v, before, c, sess[c], gap)
  BY <1>2, <1>3 DEF Knows
<1> QED
  BY <1>1, <1>4, Zenon

\* A move: all members get the new state, unless it is empty.
LEMMA PreparesMoved ==
  ASSUME RelayInv, NEW before, Prepared(before),
         before.clients = room.clients, before.pending = room.pending, before.host = room.host,
         NEW m \in Message, m.type = "StateUpdate", m.state = before.state
  PROVE  Prepares(before, <<m>>, <<>>)
<1> SUFFICES ASSUME NEW c \in Conns \ closed, NEW v \in View, NEW gap \in SUBSET Gaps,
                    Sits(before, sess[c], c), Knows(v, room, c, sess[c], gap)
             PROVE  /\ Knows(Read(Read(v, <<m>>), <<>>), before, c, sess[c], gap)
                    /\ Knows(Read(v, <<m>>), before, c, sess[c], gap)
  BY DEF Prepares
<1>1. PICK w \in View : w = Read(v, <<m>>) /\ Changes(v, m, w)
  BY OneMessage
<1>2. Read(Read(v, <<m>>), <<>>) = w
  BY <1>1, Nothing
<1>3. /\ w.in = v.in /\ w.peer = v.peer /\ w.host = v.host /\ w.roster = v.roster
      /\ before.state \in {0, w.state}
  BY <1>1 DEF Changes
<1>4. Sits(room, sess[c], c)
  BY DEF Prepared
<1>5. RosterFits(v.roster, room, sess[c]) => RosterFits(v.roster, before, sess[c])
  BY DEF RosterFits
<1>6. Knows(w, before, c, sess[c], gap)
  BY <1>3, <1>4, <1>5 DEF Knows
<1> QED
  BY <1>1, <1>2, <1>6

\* A peer has left the room, or has been taken out.
LEMMA PreparesLeft ==
  ASSUME RelayInv, NEW before, Prepared(before), NEW p,
         Peers(before.clients) = Peers(room.clients) \ {p},
         before.host = room.host, before.state = room.state,
         NEW m \in Message, m.type = "PeerLeft", m.peer = p
  PROVE  Prepares(before, <<>>, <<m>>)
<1> SUFFICES ASSUME NEW c \in Conns \ closed, NEW v \in View, NEW gap \in SUBSET Gaps,
                    Sits(before, sess[c], c), Knows(v, room, c, sess[c], gap)
             PROVE  /\ sess[c] \in Peers(before.clients) =>
                         Knows(Read(Read(v, <<>>), <<m>>), before, c, sess[c], gap)
                    /\ Types(<<m>>) \subseteq gap =>
                         Knows(Read(v, <<>>), before, c, sess[c], gap)
  BY DEF Prepares
<1>1. PICK w \in View : w = Read(Read(v, <<>>), <<m>>) /\ Changes(v, m, w)
  BY OneMessage, Nothing
<1>2. /\ w.in = v.in /\ w.peer = v.peer /\ w.host = v.host /\ w.roster = v.roster \ {p}
      /\ w.state = v.state
  BY <1>1 DEF Changes
<1>3. Sits(room, sess[c], c)
  BY DEF Prepared
<1>4. sess[c] \in Peers(before.clients) /\ RosterFits(v.roster, room, sess[c]) =>
        RosterFits(w.roster, before, sess[c])
  BY <1>2 DEF RosterFits
<1>5. sess[c] \in Peers(before.clients) => Knows(w, before, c, sess[c], gap)
  BY <1>2, <1>3, <1>4 DEF Knows
<1>6. "PeerLeft" \in gap => Knows(v, before, c, sess[c], gap)
  BY <1>3 DEF Knows
<1>7. Types(<<m>>) = {"PeerLeft"} /\ Read(v, <<>>) = v
  BY OneMessage, Nothing
<1> QED
  BY <1>1, <1>5, <1>6, <1>7

\* A peer that waited is accepted.
LEMMA PreparesAccepted ==
  ASSUME RelayInv, room.host # 0, NEW before, Prepared(before), NEW p \in Peers(room.pending),
         Peers(before.clients) = Peers(room.clients) \cup {p},
         before.host = room.host, before.state = room.state,
         NEW m \in Message, m.type = "PeerJoined", m.peer = p
  PROVE  Prepares(before, <<>>, <<m>>)
<1> SUFFICES ASSUME NEW c \in Conns \ closed, NEW v \in View, NEW gap \in SUBSET Gaps,
                    Sits(before, sess[c], c), Knows(v, room, c, sess[c], gap)
             PROVE  /\ sess[c] \in Peers(before.clients) =>
                         Knows(Read(Read(v, <<>>), <<m>>), before, c, sess[c], gap)
                    /\ Types(<<m>>) \subseteq gap =>
                         Knows(Read(v, <<>>), before, c, sess[c], gap)
  BY DEF Prepares
<1>1. PICK w \in View : w = Read(Read(v, <<>>), <<m>>) /\ Changes(v, m, w)
  BY OneMessage, Nothing
<1>2. /\ w.in = v.in /\ w.peer = v.peer /\ w.host = v.host /\ w.roster = v.roster \cup {p}
      /\ w.state = v.state
  BY <1>1 DEF Changes
<1>3. Sits(room, sess[c], c) /\ \A q \in Peers(room.clients) : q \in Nat
  BY DEF Prepared, Peers, PeerIds
<1>4. ASSUME sess[c] \in Peers(before.clients), RosterFits(v.roster, room, sess[c])
      PROVE  RosterFits(w.roster, before, sess[c])
  <2>1. CASE sess[c] \in Peers(room.clients)
    BY <1>2, <1>4, <2>1 DEF RosterFits
  <2>2. CASE sess[c] \notin Peers(room.clients)
    <3>1. sess[c] = p /\ p \in Nat
      BY <1>4, <2>2 DEF Peers, PeerIds
    <3>2. v.roster = {} /\ \A q \in Peers(room.clients) : q <= p
      BY <1>4, <2>2, <3>1 DEF RosterFits
    <3> QED
      BY <1>2, <1>3, <1>4, <3>1, <3>2 DEF RosterFits
  <2> QED
    BY <2>1, <2>2
<1>5. sess[c] \in Peers(before.clients) => Knows(w, before, c, sess[c], gap)
  BY <1>2, <1>3, <1>4 DEF Knows
<1>6. "PeerJoined" \in gap => Knows(v, before, c, sess[c], gap)
  BY <1>3 DEF Knows
<1>7. Types(<<m>>) = {"PeerJoined"} /\ Read(v, <<>>) = v
  BY OneMessage, Nothing
<1> QED
  BY <1>1, <1>5, <1>6, <1>7

\* The host hands the room over.
LEMMA PreparesHanded ==
  ASSUME RelayInv, NEW before, Prepared(before),
         before.clients = room.clients, before.pending = room.pending, before.state = room.state,
         NEW m \in Message, m.type = "HostTransferred", m.peer = before.host
  PROVE  Prepares(before, <<>>, <<m>>)
<1> SUFFICES ASSUME NEW c \in Conns \ closed, NEW v \in View, NEW gap \in SUBSET Gaps,
                    Sits(before, sess[c], c), Knows(v, room, c, sess[c], gap)
             PROVE  /\ Knows(Read(Read(v, <<>>), <<m>>), before, c, sess[c], gap)
                    /\ Types(<<m>>) \subseteq gap =>
                         Knows(Read(v, <<>>), before, c, sess[c], gap)
  BY DEF Prepares
<1>1. PICK w \in View : w = Read(Read(v, <<>>), <<m>>) /\ Changes(v, m, w)
  BY OneMessage, Nothing
<1>2. /\ w.in = v.in /\ w.peer = v.peer /\ w.host = before.host /\ w.roster = v.roster
      /\ w.state = v.state
  BY <1>1 DEF Changes
<1>3. Sits(room, sess[c], c)
  BY DEF Prepared
<1>4. RosterFits(v.roster, room, sess[c]) => RosterFits(v.roster, before, sess[c])
  BY DEF RosterFits
<1>5. Knows(w, before, c, sess[c], gap)
  BY <1>2, <1>3, <1>4 DEF Knows
<1>6. "HostTransferred" \in gap => Knows(v, before, c, sess[c], gap)
  BY <1>3, <1>4 DEF Knows
<1>7. Types(<<m>>) = {"HostTransferred"} /\ Read(v, <<>>) = v
  BY OneMessage, Nothing
<1> QED
  BY <1>1, <1>5, <1>6, <1>7

\* A peer that waited is turned away.
LEMMA PreparesDenied ==
  ASSUME RelayInv, NEW before, Prepared(before),
         before.clients = room.clients, before.host = room.host, before.state = room.state
  PROVE  Prepares(before, <<>>, <<>>)
<1> SUFFICES ASSUME NEW c \in Conns \ closed, NEW v \in View, NEW gap \in SUBSET Gaps,
                    Sits(before, sess[c], c), Knows(v, room, c, sess[c], gap)
             PROVE  Knows(v, before, c, sess[c], gap)
  BY Nothing DEF Prepares
<1>1. Sits(room, sess[c], c)
  BY DEF Prepared
<1>2. RosterFits(v.roster, room, sess[c]) => RosterFits(v.roster, before, sess[c])
  BY DEF RosterFits
<1> QED
  BY <1>1, <1>2 DEF Knows

-----------------------------------------------------------------------------
(* The requests from inside a room.                                        *)

\* An Error is no news of the room.
LEMMA RefusalTells ==
  ASSUME NEW c
  PROVE  RefusalOf(c) \in {<<>>, <<Answer>>} /\ <<Answer>> \in {<<>>, <<Answer>>}
BY DEF RefusalOf

\* A request that changes nothing and says nothing of the room.
LEMMA OnlyAnswersInv ==
  ASSUME RelayInv, NEW c \in Conns, NEW type, type # "Leave", Asks(c, type),
         NEW r \in {<<>>, <<Answer>>}, OnlyAnswers(c, r), UNCHANGED <<registered, sess, joining>>
  PROVE  RelayInv'
<1>1. /\ room' = room /\ Silent /\ reply' = [reply EXCEPT ![c] = r]
  BY DEF OnlyAnswers, Answers
<1>2. Broadcasted
  BY <1>1, SilentBroadcasted
<1> QED
  BY <1>1, <1>2, AnsweredInv

\* A move replaces the state of the room, with one that has bytes or not.
LEMMA MovedPrepared ==
  ASSUME RelayInv, NEW blob \in States
  PROVE  LET moved == [room EXCEPT !.state = blob]
         IN  /\ Prepared(moved) /\ moved.state = blob
             /\ moved.clients = room.clients /\ moved.pending = room.pending
             /\ moved.host = room.host /\ moved.next = room.next
<1> DEFINE moved == [room EXCEPT !.state = blob]
<1>1. room \in RelayRoom
  BY DEF RelayInv, RelayTyped
<1>3. moved \in RelayRoom
  BY <1>1 DEF RelayRoom
<1>4. /\ moved.state = blob
      /\ moved.clients = room.clients /\ moved.pending = room.pending
      /\ moved.host = room.host /\ moved.next = room.next /\ moved.settings = room.settings
  BY <1>1 DEF RelayRoom
<1> HIDE DEF moved
<1>5. RoomFine(moved)
  BY <1>4 DEF RelayInv, RoomFine, Occupied
<1>6. \A p, d : Sits(moved, p, d) => Sits(room, p, d)
  BY <1>4 DEF Sits
<1>7. Prepared(moved)
  BY <1>3, <1>5, <1>6 DEF Prepared
<1> QED
  BY <1>4, <1>7 DEF moved

\* The message a move is announced with.
LEMMA StateUpdates ==
  ASSUME NEW state \in States
  PROVE  /\ StateUpdate(state) \in Message
         /\ StateUpdate(state).type = "StateUpdate" /\ StateUpdate(state).state = state
BY DEF StateUpdate, Message

\* A move of the host is told to all members, pending ones too; others are refused.
LEMMA MoveInv ==
  ASSUME RelayInv, NEW c \in Conns, Move(c)
  PROVE  RelayInv'
<1>1. Asks(c, "Move") /\ UNCHANGED <<registered, sess, joining>> /\ "Move" # "Leave"
  BY DEF Move
<1>2. ASSUME OnlyAnswers(c, RefusalOf(c))
      PROVE  RelayInv'
  BY <1>1, <1>2, RefusalTells, OnlyAnswersInv
<1>3. ASSUME IsHost(c), NEW blob \in States,
             NEW moved, moved = [room EXCEPT !.state = blob],
             NEW after \in BroadcastState(moved, closed), room' = after,
             Tells(after, <<StateUpdate(blob)>>, Aftermath(moved, after), NoExtra),
             Answers(c, <<Answer>>)
      PROVE  RelayInv'
  <2>2. /\ Prepared(moved) /\ moved.state = blob
        /\ moved.clients = room.clients /\ moved.pending = room.pending
        /\ moved.host = room.host /\ moved.next = room.next
    BY <1>3, MovedPrepared
  <2>3. PICK m \in Message : /\ m = StateUpdate(blob)
                             /\ m.type = "StateUpdate" /\ m.state = moved.state
    BY <2>2, StateUpdates
  <2>4. Settles(after, moved)
    BY <1>3, <2>2, BroadcastSettles DEF Prepared
  <2>5. PICK msgs : msgs = <<m>> /\ Silently(msgs)
    BY <2>3, OneMessage
  <2>6. PICK head : head = <<>> /\ Silently(head)
    BY Nothing
  <2>7. Prepares(moved, msgs, head)
    BY <2>2, <2>3, <2>5, <2>6, PreparesMoved
  <2>8. Tells(after, msgs, head \o Aftermath(moved, after), NoExtra)
    <3>1. Aftermath(moved, after) \in Seq(Message)
      BY <2>4, AftermathTells DEF Settles, RelayRoom
    <3>2. head \o Aftermath(moved, after) = Aftermath(moved, after)
      BY <2>6, <3>1, ConcatEmptySeq
    <3> QED
      BY <1>3, <2>3, <2>5, <3>2
  <2>9. Broadcasted
    BY <1>3, <2>2, <2>4, <2>5, <2>6, <2>7, <2>8, NoExtraSent, TellsHeeded
  <2>10. room'.next = room.next /\ registered
    <3>1. room'.next = moved.next
      BY <1>3, <2>4 DEF Settles
    <3> QED
      BY <1>3, <2>2, <3>1 DEF IsHost
  <2>11. reply' = [reply EXCEPT ![c] = <<Answer>>]
    BY <1>3 DEF Answers
  <2> QED
    BY <1>1, <2>9, <2>10, <2>11, RefusalTells, AnsweredInv
<1>4. CASE IsHost(c) /\ Cardinality(Peers(room.clients)) >= room.settings.min
  <2>1. PICK blob \in States :
          LET moved == [room EXCEPT !.state = blob]
          IN  /\ \E after \in BroadcastState(moved, closed) :
                   /\ room' = after
                   /\ Tells(after, <<StateUpdate(blob)>>, Aftermath(moved, after), NoExtra)
              /\ Answers(c, <<Answer>>)
    BY <1>4, Zenon DEF Move
  <2>2. PICK moved : moved = [room EXCEPT !.state = blob]
    OBVIOUS
  <2>3. PICK after \in BroadcastState(moved, closed) :
          /\ room' = after
          /\ Tells(after, <<StateUpdate(blob)>>, Aftermath(moved, after), NoExtra)
    BY <2>1, <2>2, Zenon
  <2>4. Answers(c, <<Answer>>)
    BY <2>1, Zenon
  <2> QED
    BY <1>3, <1>4, <2>2, <2>3, <2>4
<1> QED
  BY <1>2, <1>4 DEF Move

\* A section of the host that answers nothing.
LEMMA HostActsInv ==
  ASSUME RelayInv, NEW c \in Conns, NEW type, type # "Leave", Asks(c, type), IsHost(c),
         Broadcasted, room'.next = room.next,
         UNCHANGED <<registered, sess, joining, reply>>
  PROVE  RelayInv'
<1>2. reply' = [reply EXCEPT ![c] = <<>>]
  <2>1. reply[c] = <<>> /\ reply \in [Conns -> Seq(Message)]
    BY AskFacts DEF RelayInv, RelayTyped
  <2> QED
    BY <2>1
<1>3. registered
  BY DEF IsHost
<1>4. <<>> \in {<<>>, <<Answer>>}
  OBVIOUS
<1> QED
  BY <1>2, <1>3, <1>4, AnsweredInv

\* The same for broadcast_and_prune, which adds the aftermath to its one message.
LEMMA BroadcastsHeeded ==
  ASSUME RelayInv, NEW before, Prepared(before), before.next = room.next,
         NEW m \in Message, m.type # "Joined",
         NEW extra, Extra(extra), Prepares(before, <<>>, <<m>>), Broadcasts(before, m, extra)
  PROVE  Broadcasted /\ room'.next = room.next
<1>1. PICK msgs, head : /\ msgs = <<>> /\ head = <<m>> /\ Silently(msgs) /\ Silently(head)
                        /\ Prepares(before, msgs, head)
  BY Nothing, OneMessage
<1>2. PICK after \in Broadcast(before, closed) :
        /\ room' = after
        /\ Tells(after, msgs, head \o Aftermath(before, after), extra)
  BY <1>1 DEF Broadcasts
<1>3. Settles(after, before)
  BY <1>2, BroadcastSettles DEF Prepared
<1>4. Broadcasted
  BY <1>1, <1>2, <1>3, TellsHeeded
<1> QED
  BY <1>2, <1>3, <1>4 DEF Settles

\* A pending client that is moved to the accepted ones leaves the room in order.
LEMMA AcceptedPrepared ==
  ASSUME RelayInv, NEW p \in Peers(room.pending)
  PROVE  LET accepted == [room EXCEPT !.pending = Without(@, {p}),
                                      !.clients = With(@, p, room.pending[p])]
         IN  /\ Prepared(accepted)
             /\ Peers(accepted.clients) = Peers(room.clients) \cup {p}
             /\ accepted.host = room.host /\ accepted.state = room.state
             /\ accepted.next = room.next
<1> DEFINE accepted == [room EXCEPT !.pending = Without(@, {p}),
                                    !.clients = With(@, p, room.pending[p])]
<1>1. room \in RelayRoom /\ room.clients \in SeatMap /\ room.pending \in SeatMap /\ RoomFine(room)
  BY RelayRoomFields DEF RelayInv, RelayTyped
<1>2. p \in PeerIds /\ room.pending[p] \in Seat
  BY <1>1 DEF Peers, SeatMap
<1>3. PICK waiting \in SeatMap : /\ waiting = Without(room.pending, {p})
                                 /\ Peers(waiting) = Peers(room.pending) \ {p}
                                 /\ \A q \in Peers(waiting) : waiting[q] = room.pending[q]
  BY <1>1, WithoutKeepsOthers
<1>4. PICK seated \in SeatMap : /\ seated = With(room.clients, p, room.pending[p])
                                /\ Peers(seated) = Peers(room.clients) \cup {p}
                                /\ seated[p] = room.pending[p]
                                /\ \A q \in Peers(room.clients) \ {p} : seated[q] = room.clients[q]
  BY <1>1, <1>2, WithAddsOne
<1>5. /\ accepted \in RelayRoom /\ accepted.clients = seated /\ accepted.pending = waiting
      /\ accepted.host = room.host /\ accepted.state = room.state /\ accepted.next = room.next
      /\ accepted.settings = room.settings
  BY <1>1, <1>3, <1>4 DEF RelayRoom
<1> HIDE DEF accepted
<1>6. RoomFine(accepted)
  <2>1. Occupied(accepted) = Occupied(room)
    BY <1>3, <1>4, <1>5 DEF Occupied
  <2> QED
    BY <1>1, <1>3, <1>4, <1>5, <2>1 DEF RoomFine
<1>7. \A q, d : Sits(accepted, q, d) => Sits(room, q, d)
  BY <1>3, <1>4, <1>5 DEF Sits
<1> QED
  BY <1>4, <1>5, <1>6, <1>7 DEF accepted, Prepared

\* Admission is announced with PeerJoined.
LEMMA AcceptPeerHeeded ==
  ASSUME RelayInv, NEW c \in Conns, IsHost(c), NEW p \in PeerIds, AcceptPeer(c, p)
  PROVE  Broadcasted /\ room'.next = room.next
<1>1. ASSUME Silent, room' = room
      PROVE  Broadcasted /\ room'.next = room.next
  BY <1>1, SilentBroadcasted
<1>2. CASE p \in Peers(room.pending)
  <2>1. room.host # 0
    BY DEF IsHost
  <2>2. PICK accepted :
          /\ accepted = [room EXCEPT !.pending = Without(@, {p}),
                                     !.clients = With(@, p, room.pending[p])]
          /\ Prepared(accepted)
          /\ Peers(accepted.clients) = Peers(room.clients) \cup {p}
          /\ accepted.host = room.host /\ accepted.state = room.state
          /\ accepted.next = room.next
    BY <1>2, AcceptedPrepared, Zenon
  <2>3. PICK m \in Message : /\ m = PeerMessage("PeerJoined", p)
                             /\ m.type = "PeerJoined" /\ m.peer = p
    BY PeerMessages
  <2>4. Broadcasts(accepted, m, NoExtra)
    BY <1>2, <2>2, <2>3, Zenon DEF AcceptPeer
  <2>5. Prepares(accepted, <<>>, <<m>>)
    BY <1>2, <2>1, <2>2, <2>3, PreparesAccepted
  <2> QED
    BY <2>2, <2>3, <2>4, <2>5, NoExtraSent, BroadcastsHeeded
<1> QED
  BY <1>1, <1>2 DEF AcceptPeer

\* Nobody is missing, and the host is the same.
LEMMA AftermathEmpty ==
  ASSUME NEW r, r.host \in PeerIdOrNone
  PROVE  Aftermath(r, r) = <<>>
<1>1. PICK none : none = Occupied(r) \ Occupied(r) /\ none = {}
  OBVIOUS
<1>2. PICK n \in Nat : SetToSeq(none) \in [1 .. n -> none]
  <2>1. IsFiniteSet(none)
    BY <1>1, FS_EmptySet
  <2> QED
    BY <2>1, Listed, Zenon
<1>3. 1 .. n = {}
  BY <1>1, <1>2
<1>4. PICK list : list = SetToSeq(none) /\ DOMAIN list = {}
  BY <1>2, <1>3
<1> DEFINE said == [i \in DOMAIN list |-> PeerMessage("PeerLeft", list[i])]
<1>5. said = <<>>
  BY <1>4
<1>6. Aftermath(r, r) = said \o <<>>
  BY <1>1, <1>4 DEF Aftermath
<1> HIDE DEF said
<1> QED
  BY <1>5, <1>6, EmptySeq, ConcatEmptySeq

\* A denied client was in nobody's roster.
LEMMA DenyPeerHeeded ==
  ASSUME RelayInv, NEW c \in Conns, NEW p \in PeerIds, DenyPeer(c, p)
  PROVE  Broadcasted /\ room'.next = room.next
<1>1. ASSUME Silent, room' = room
      PROVE  Broadcasted /\ room'.next = room.next
  BY <1>1, SilentBroadcasted
<1>2. CASE p \in Peers(room.pending)
  <2>1. room \in RelayRoom /\ room.clients \in SeatMap /\ room.pending \in SeatMap
    BY RelayRoomFields DEF RelayInv, RelayTyped
  <2>2. PICK denied : denied = [room EXCEPT !.pending = Without(@, {p})]
    OBVIOUS
  <2>3. Settles(denied, room) /\ denied.host \in PeerIdOrNone /\ denied.host = room.host
        /\ denied.clients = room.clients
    <3>1. Without(room.pending, {p}) \in SeatMap
      BY <2>1, WithoutKeepsOthers
    <3>2. \A q \in PeerIds : Without(room.pending, {p})[q] \in {NoSeat, room.pending[q]}
      BY DEF Without
    <3> QED
      BY <2>1, <2>2, <3>1, <3>2 DEF Settles, RelayRoom
  <2>4. Prepared(denied) /\ denied \in RelayRoom /\ denied.state = room.state
        /\ denied.next = room.next
    BY <2>3, SettlesPrepared DEF Settles
  <2>5. /\ room' = denied
        /\ Tells(denied, <<>>, <<>>, Only(room.pending[p].conn, Kicked))
    BY <1>2, <2>2, Zenon DEF DenyPeer
  <2>6. PICK head : /\ head = <<>> /\ Silently(head) /\ Prepares(denied, head, head)
                    /\ head \o Aftermath(denied, denied) = head
    <3>1. PICK none \in Seq(Message) : none = <<>> /\ Silently(none)
      BY Nothing
    <3>2. Prepares(denied, none, none)
      BY <2>3, <2>4, <3>1, PreparesDenied
    <3>3. Aftermath(denied, denied) = none
      BY <2>3, <3>1, AftermathEmpty
    <3>4. none \o none = none
      BY <3>1, ConcatEmptySeq
    <3> QED
      BY <3>1, <3>2, <3>3, <3>4
  <2>7. Tells(denied, head, head \o Aftermath(denied, denied), Only(room.pending[p].conn, Kicked))
    BY <2>5, <2>6
  <2>8. Settles(denied, denied) /\ Extra(Only(room.pending[p].conn, Kicked))
    BY <2>4, SettlesItself, OnlyKicked
  <2>9. Broadcasted
    BY <2>4, <2>5, <2>6, <2>7, <2>8, TellsHeeded
  <2> QED
    BY <2>4, <2>5, <2>9
<1> QED
  BY <1>1, <1>2 DEF DenyPeer

\* An eviction is announced with PeerLeft, whether or not the peer was accepted.
LEMMA KickHeeded ==
  ASSUME RelayInv, NEW c \in Conns, NEW p \in PeerIds, NEW banned \in SUBSET Hashes,
         Kick(c, p, banned)
  PROVE  Broadcasted /\ room'.next = room.next
<1>1. room \in RelayRoom /\ room.clients \in SeatMap /\ RoomFine(room)
  BY RelayRoomFields DEF RelayInv, RelayTyped
<1>2. PICK kept \in SeatMap : /\ kept = Without(room.clients, {p})
                              /\ Peers(kept) = Peers(room.clients) \ {p}
                              /\ \A q \in PeerIds : kept[q] \in {NoSeat, room.clients[q]}
  <2>1. \A q \in PeerIds : Without(room.clients, {p})[q] \in {NoSeat, room.clients[q]}
    BY DEF Without
  <2> QED
    BY <1>1, <2>1, WithoutKeepsOthers
<1>3. PICK cut : cut = [room EXCEPT !.clients = Without(@, {p}), !.banned = @ \cup banned]
  OBVIOUS
<1>4. /\ cut \in RelayRoom /\ cut.clients = kept /\ cut.pending = room.pending
      /\ cut.host = room.host /\ cut.state = room.state /\ cut.next = room.next
      /\ cut.settings = room.settings
  BY <1>1, <1>2, <1>3 DEF RelayRoom
<1>5. Prepared(cut)
  <2>1. RoomFine(cut)
    BY <1>1, <1>2, <1>4 DEF RoomFine, Occupied
  <2>2. \A q, d : Sits(cut, q, d) => Sits(room, q, d)
    BY <1>2, <1>4 DEF Sits, Peers
  <2> QED
    BY <1>4, <2>1, <2>2 DEF Prepared
<1>6. PICK m \in Message : /\ m = PeerMessage("PeerLeft", p)
                           /\ m.type = "PeerLeft" /\ m.peer = p
  BY PeerMessages
<1>7. Prepares(cut, <<>>, <<m>>)
  BY <1>2, <1>4, <1>5, <1>6, PreparesLeft
<1>8. PICK extra : /\ extra = IF p \in Peers(room.clients)
                              THEN Only(room.clients[p].conn, Kicked) ELSE NoExtra
                   /\ Extra(extra)
  BY OnlyKicked, NoExtraSent
<1>9. Broadcasts(cut, m, extra)
  BY <1>3, <1>6, <1>8, Zenon DEF Kick
<1> QED
  BY <1>4, <1>5, <1>6, <1>7, <1>8, <1>9, BroadcastsHeeded

\* A transfer is announced with HostTransferred.
LEMMA TransferHostHeeded ==
  ASSUME RelayInv, NEW c \in Conns, NEW p \in PeerIds, TransferHost(c, p)
  PROVE  Broadcasted /\ room'.next = room.next
<1>1. ASSUME Silent, room' = room
      PROVE  Broadcasted /\ room'.next = room.next
  BY <1>1, SilentBroadcasted
<1>2. CASE p \in Peers(room.clients)
  <2>1. room \in RelayRoom /\ RoomFine(room) /\ p \in PeerIdOrNone /\ p # 0
    BY DEF RelayInv, RelayTyped, PeerIds, PeerIdOrNone
  <2>2. PICK handed : handed = [room EXCEPT !.host = p]
    OBVIOUS
  <2>3. /\ handed \in RelayRoom /\ handed.clients = room.clients
        /\ handed.pending = room.pending /\ handed.host = p /\ handed.state = room.state
        /\ handed.next = room.next /\ handed.settings = room.settings
    BY <2>1, <2>2 DEF RelayRoom
  <2>4. Prepared(handed)
    <3>1. RoomFine(handed)
      BY <2>1, <2>3 DEF RoomFine, Occupied
    <3>2. \A q, d : Sits(handed, q, d) => Sits(room, q, d)
      BY <2>3 DEF Sits
    <3> QED
      BY <2>3, <3>1, <3>2 DEF Prepared
  <2>5. PICK m \in Message : /\ m = PeerMessage("HostTransferred", p)
                             /\ m.type = "HostTransferred" /\ m.peer = p
    BY PeerMessages
  <2>6. Prepares(handed, <<>>, <<m>>)
    BY <2>3, <2>4, <2>5, PreparesHanded
  <2>7. Broadcasts(handed, m, NoExtra)
    BY <1>2, <2>2, <2>5, Zenon DEF TransferHost
  <2> QED
    BY <2>3, <2>4, <2>5, <2>6, <2>7, NoExtraSent, BroadcastsHeeded
<1> QED
  BY <1>1, <1>2 DEF TransferHost

\* The requests of a host against a peer, or their refusal.
LEMMA RoomControlInv ==
  ASSUME RelayInv, NEW c \in Conns, NEW type \in PeerRequests, NEW p \in PeerIds,
         RoomControl(c, type, p)
  PROVE  RelayInv'
<1>1. Asks(c, type) /\ UNCHANGED <<registered, sess, joining>> /\ type # "Leave"
  BY DEF RoomControl, PeerRequests
<1>2. CASE ~IsHost(c)
  <2>1. OnlyAnswers(c, RefusalOf(c))
    BY <1>2 DEF RoomControl
  <2> QED
    BY <1>1, <2>1, RefusalTells, OnlyAnswersInv
<1>3. CASE IsHost(c)
  <2>1. /\ CASE type = "AcceptPeer" -> AcceptPeer(c, p)
             [] type = "DenyPeer" -> DenyPeer(c, p)
             [] type = "Kick" -> Kick(c, p, {})
             [] type = "Ban" -> Kick(c, p, HashesOf(p))
             [] type = "TransferHost" -> TransferHost(c, p)
        /\ UNCHANGED reply
    BY <1>3, Zenon DEF RoomControl
  <2>2. AcceptPeer(c, p) \/ DenyPeer(c, p) \/ Kick(c, p, {}) \/ Kick(c, p, HashesOf(p))
          \/ TransferHost(c, p)
    BY <2>1 DEF PeerRequests
  <2>3. {} \in SUBSET Hashes /\ HashesOf(p) \in SUBSET Hashes
    <3>1. room.clients \in SeatMap
      BY RelayRoomFields DEF RelayInv, RelayTyped
    <3>2. p \in Peers(room.clients) => room.clients[p].hash \in Hashes
      BY <3>1 DEF Peers, SeatMap, Seat
    <3> QED
      BY <3>2 DEF HashesOf
  <2>4. Broadcasted /\ room'.next = room.next
    BY <1>3, <2>2, <2>3, AcceptPeerHeeded, DenyPeerHeeded, KickHeeded, TransferHostHeeded
  <2>5. UNCHANGED reply
    BY <2>1
  <2> QED
    BY <1>1, <1>3, <2>4, <2>5, HostActsInv
<1> QED
  BY <1>2, <1>3

\* New settings are announced, or, if it is only whether the room is listed, are not.
LEMMA SettingsHeeded ==
  ASSUME RelayInv, NEW c \in Conns, NEW settings \in Settings,
         UpdateSettings(c, settings) \/ SetPublic(c, settings.public)
  PROVE  Broadcasted /\ room'.next = room.next
<1>1. /\ room \in RelayRoom /\ RoomFine(room) /\ room.settings \in Settings
      /\ settings.public \in BOOLEAN
  BY DEF RelayInv, RelayTyped, RelayRoom, Settings
<1>2. ASSUME NEW new \in Settings, NEW r, r = [room EXCEPT !.settings = new]
      PROVE  /\ r.clients = room.clients /\ r.pending = room.pending /\ r.host = room.host
             /\ r.state = room.state /\ r.next = room.next
             /\ Prepared(r)
  <2>1. /\ r.clients = room.clients /\ r.pending = room.pending /\ r.host = room.host
        /\ r.state = room.state /\ r.next = room.next /\ r \in RelayRoom
    BY <1>1, <1>2 DEF RelayRoom
  <2>2. RoomFine(r)
    BY <1>1, <2>1 DEF RoomFine, Occupied
  <2>3. \A p, d : Sits(r, p, d) => Sits(room, p, d)
    BY <2>1 DEF Sits
  <2> QED
    BY <2>1, <2>2, <2>3 DEF Prepared
<1>3. CASE UpdateSettings(c, settings)
  <2>1. PICK r : r = [room EXCEPT !.settings = settings]
    OBVIOUS
  <2>2. /\ r.clients = room.clients /\ r.pending = room.pending /\ r.host = room.host
        /\ r.state = room.state /\ r.next = room.next /\ Prepared(r)
    BY <1>2, <2>1
  <2>3. PICK m \in Message : m = SettingsChanged /\ m.type = "SettingsChanged"
    <3>1. SettingsChanged \in Message /\ SettingsChanged.type = "SettingsChanged"
      BY DEF SettingsChanged, Message
    <3> QED
      BY <3>1, Zenon
  <2>4. Broadcasts(r, m, NoExtra)
    BY <1>3, <2>1, <2>3, Zenon DEF UpdateSettings
  <2>5. Prepares(r, <<>>, <<m>>)
    BY <2>2, <2>3, PreparesSettings
  <2>6. m.type # "Joined"
    BY <2>3
  <2> QED
    BY <2>2, <2>4, <2>5, <2>6, NoExtraSent, BroadcastsHeeded
<1>4. CASE SetPublic(c, settings.public)
  <2>1. PICK new \in Settings : new = [room.settings EXCEPT !.public = settings.public]
    BY <1>1 DEF Settings
  <2>2. PICK r : r = [room EXCEPT !.settings = new]
    OBVIOUS
  <2>3. /\ r.clients = room.clients /\ r.pending = room.pending /\ r.host = room.host
        /\ r.state = room.state /\ r.next = room.next /\ Prepared(r)
    BY <1>2, <2>2
  <2>4. room' = r /\ outbox' = outbox /\ missed' = missed
    BY <1>4, <2>1, <2>2 DEF SetPublic, Silent
  <2>5. \A d \in Conns : HeedsAt(d)
    <3>1. ASSUME NEW d \in Conns
          PROVE  HeedsAt(d)
      <4>1. /\ outbox[d] \in Seq(Message) /\ Len(outbox[d]) <= Capacity
            /\ missed[d] \in SUBSET Gaps
            /\ d \notin closed =>
                 Knows(Read(view[d], outbox[d] \o reply[d]), room, d, sess[d], missed[d])
        BY DEF RelayInv, RelayTyped, Bounded, Told
      <4>2. \A v, gap : Knows(v, room, d, sess[d], gap) => Knows(v, r, d, sess[d], gap)
        BY <2>3 DEF Knows, Sits, RosterFits
      <4> QED
        BY <2>4, <4>1, <4>2, Zenon DEF HeedsAt
    <3> QED
      BY <3>1
  <2> QED
    BY <2>3, <2>4, <2>5 DEF Broadcasted, Prepared, RelayInv, RelayTyped
<1> QED
  BY <1>3, <1>4

\* The requests of a host about the settings, or their refusal.
LEMMA SettingsControlInv ==
  ASSUME RelayInv, NEW c \in Conns, NEW type \in SettingsRequests,
         NEW settings \in SettingsChoices, SettingsControl(c, type, settings)
  PROVE  RelayInv'
<1>1. Asks(c, type) /\ UNCHANGED <<registered, sess, joining>> /\ type # "Leave"
  BY DEF SettingsControl, SettingsRequests
<1>2. CASE ~IsHost(c)
  <2>1. OnlyAnswers(c, RefusalOf(c))
    BY <1>2 DEF SettingsControl
  <2> QED
    BY <1>1, <2>1, RefusalTells, OnlyAnswersInv
<1>3. CASE IsHost(c)
  <2>1. /\ UpdateSettings(c, settings) \/ SetPublic(c, settings.public)
        /\ UNCHANGED reply
    BY <1>3, Zenon DEF SettingsControl
  <2>2. settings \in Settings
    BY SettingsChoicesAssumption
  <2>3. Broadcasted /\ room'.next = room.next
    BY <2>1, <2>2, SettingsHeeded
  <2>4. UNCHANGED reply
    BY <2>1
  <2> QED
    BY <1>1, <1>3, <2>3, <2>4, HostActsInv
<1> QED
  BY <1>2, <1>3

-----------------------------------------------------------------------------
(* Steps of a connection that touch no room.                               *)

\* A step that concerns one client and leaves the room alone.
LEMMA AloneInv ==
  ASSUME RelayInv, NEW c \in Conns, UNCHANGED <<room, registered, sess>>,
         asked' \in 0 .. MaxRequests, asked <= asked', closed' \in {closed, closed \cup {c}},
         joining' \in SUBSET joining, view' \in [Conns -> View],
         missed' \in [Conns -> SUBSET Gaps], outbox' \in [Conns -> Seq(Message)],
         reply' \in [Conns -> Seq(Message)],
         \A d \in Conns \ {c} : /\ view'[d] = view[d] /\ missed'[d] = missed[d]
                                /\ outbox'[d] = outbox[d] /\ reply'[d] = reply[d],
         Len(outbox'[c]) <= Capacity, Asking(c)',
         c \notin closed' => Knows(Told(c)', room, c, sess[c], missed'[c])
  PROVE  RelayInv'
<1>1. /\ room \in RelayRoom /\ registered \in BOOLEAN /\ sess \in [Conns -> PeerIdOrNone]
      /\ joining \in SUBSET Conns /\ IsFiniteSet(joining) /\ RoomFine(room) /\ asked \in Nat
      /\ ~registered => Empty(room)
  BY DEF RelayInv, RelayTyped, SeatsOwned
<1>2. /\ joining' \in SUBSET Conns /\ IsFiniteSet(joining')
      /\ Cardinality(joining') <= Cardinality(joining)
      /\ Cardinality(joining') \in Nat /\ Cardinality(joining) \in Nat
  BY <1>1, FS_Subset, FS_CardinalityType
<1>3. room'.next + Cardinality(joining') <= asked' + 2
  <2>1. /\ room' = room /\ room.next \in Nat /\ asked' \in Nat
        /\ room.next + Cardinality(joining) <= asked + 2
    BY <1>1 DEF RelayInv, Bounded, RelayRoom, PeerIds
  <2>2. PICK n \in Nat, j \in Nat, k \in Nat :
          n = room.next /\ j = Cardinality(joining) /\ k = Cardinality(joining')
    BY <1>2, <2>1
  <2>3. k <= j /\ n + j <= asked + 2 /\ asked <= asked' /\ asked \in Nat /\ asked' \in Nat
    <3>1. k <= j /\ n + j <= asked + 2
      BY <1>2, <2>1, <2>2
    <3> QED
      BY <1>1, <2>1, <3>1
  <2>4. n + k <= asked' + 2
    <3>1. PICK a \in Nat, b \in Nat : a = asked /\ b = asked'
      BY <2>3
    <3>2. n + j <= a + 2 /\ a <= b /\ k <= j
      BY <2>3, <3>1
    <3>3. n + k <= n + j /\ a + 2 <= b + 2
      BY <3>2
    <3>4. n + k <= b + 2
      BY <3>2, <3>3
    <3> QED
      BY <3>1, <3>4
  <2> QED
    BY <2>1, <2>2, <2>4
<1>4. \A d \in Conns \ {c} : HeedsAt(d)
  BY SilentHeeds
<1>5. c \notin closed' => \A p \in PeerIds : Sits(room', p, c) => sess'[c] = p
  BY DEF RelayInv, SeatsOwned
<1>6. c \notin closed' => Knows(Told(c)', room', c, sess'[c], missed'[c])
  OBVIOUS
<1> QED
  BY <1>1, <1>2, <1>3, <1>4, <1>5, <1>6, StepInv

\* The states of a connection before a step.
LEMMA TypedAt ==
  ASSUME RelayInv, NEW c \in Conns
  PROVE  /\ view \in [Conns -> View] /\ missed \in [Conns -> SUBSET Gaps]
         /\ outbox \in [Conns -> Seq(Message)] /\ reply \in [Conns -> Seq(Message)]
         /\ Len(outbox[c]) <= Capacity /\ asked \in 0 .. MaxRequests /\ Asking(c)
         /\ c \notin closed => Knows(Told(c), room, c, sess[c], missed[c])
         /\ asked \in Nat
BY DEF RelayInv, RelayTyped, Bounded

\* A Hello that ends without a seat is answered with Error.
LEMMA JoinRefusedInv ==
  ASSUME RelayInv, NEW c \in Conns, JoinRefused(c)
  PROVE  RelayInv'
<1>1. /\ view \in [Conns -> View] /\ missed \in [Conns -> SUBSET Gaps]
      /\ outbox \in [Conns -> Seq(Message)] /\ reply \in [Conns -> Seq(Message)]
      /\ Len(outbox[c]) <= Capacity /\ asked \in 0 .. MaxRequests /\ Asking(c)
      /\ c \notin closed => Knows(Told(c), room, c, sess[c], missed[c])
      /\ asked \in Nat
  BY TypedAt
<1>2. /\ UNCHANGED <<room, registered, sess, outbox, missed>> /\ joining' = joining \ {c}
      /\ reply' = [reply EXCEPT ![c] = <<Answer>>]
  BY DEF JoinRefused, Enters, Answers, Silent
<1>3. /\ view' = view /\ closed' = closed /\ c \notin closed /\ reply[c] = <<>>
      /\ asked' \in 0 .. MaxRequests /\ asked <= asked'
  <2>1. CASE c \in joining /\ UNCHANGED <<view, closed, asked>>
    BY <1>1, <2>1 DEF Asking
  <2>2. CASE Asks(c, "Hello")
    <3>1. "Hello" # "Leave"
      OBVIOUS
    <3> QED
      BY <1>1, <2>2, <3>1, AskFacts
  <2> QED
    BY <2>1, <2>2 DEF JoinRefused, Enters
<1>4. PICK r \in Seq(Message) : /\ r = <<Answer>> /\ r \in {<<>>, <<Answer>>}
                                /\ Replying(r) /\ "Joined" \notin Types(r)
  BY AnswerTells
<1>5. /\ reply' \in [Conns -> Seq(Message)] /\ reply'[c] = r
      /\ \A d \in Conns \ {c} : reply'[d] = reply[d]
  BY <1>1, <1>2, <1>4
<1>6. Asking(c)'
  BY <1>1, <1>2, <1>3, <1>4, <1>5 DEF Asking
<1>7. Told(c)' = Told(c)
  <2>1. PICK q \in Seq(Message), v \in View : q = outbox[c] /\ v = view[c]
    BY <1>1
  <2>2. Read(v, q \o r) = Read(v, q) /\ Read(v, q \o <<>>) = Read(v, q)
    BY <1>4, ReadAnswered
  <2>3. Told(c)' = Read(v, q \o r) /\ Told(c) = Read(v, q \o <<>>)
    BY <1>2, <1>3, <1>5, <2>1 DEF Told, Read
  <2> QED
    BY <2>2, <2>3
<1> QED
  BY <1>1, <1>2, <1>3, <1>5, <1>6, <1>7, AloneInv

\* The state of the room, sent again to the one who asks.
LEMMA RequestStateInv ==
  ASSUME RelayInv, NEW c \in Conns, RequestState(c)
  PROVE  RelayInv'
<1>1. Asks(c, "RequestState") /\ UNCHANGED <<registered, sess, joining>>
      /\ "RequestState" # "Leave"
  BY DEF RequestState
<1>2. CASE ~(sess[c] # 0 /\ registered /\ room.state # 0)
  <2>1. OnlyAnswers(c, <<>>) /\ <<>> \in {<<>>, <<Answer>>}
    BY <1>2 DEF RequestState
  <2> QED
    BY <1>1, <2>1, OnlyAnswersInv
<1>3. CASE sess[c] # 0 /\ registered /\ room.state # 0
  <2>1. OnlyAnswers(c, <<StateUpdate(room.state)>>)
    BY <1>3 DEF RequestState
  <2>2. /\ view \in [Conns -> View] /\ missed \in [Conns -> SUBSET Gaps]
        /\ outbox \in [Conns -> Seq(Message)] /\ reply \in [Conns -> Seq(Message)]
        /\ Len(outbox[c]) <= Capacity /\ asked \in 0 .. MaxRequests /\ Asking(c)
        /\ c \notin closed => Knows(Told(c), room, c, sess[c], missed[c])
        /\ asked \in Nat
    BY TypedAt
  <2>3. /\ UNCHANGED <<room, outbox, missed>>
        /\ reply' = [reply EXCEPT ![c] = <<StateUpdate(room.state)>>]
    BY <2>1 DEF OnlyAnswers, Answers, Silent
  <2>4. /\ view' = view /\ closed' = closed /\ c \notin closed /\ reply[c] = <<>>
        /\ asked' \in 0 .. MaxRequests /\ asked <= asked' /\ c \notin joining
    BY <1>1, <2>2, AskFacts
  <2>5. PICK m \in Message : /\ m = StateUpdate(room.state)
                             /\ m.type = "StateUpdate" /\ m.state = room.state
    BY StateUpdates DEF RelayInv, RelayTyped, RelayRoom
  <2>6. PICK r \in Seq(Message) : /\ r = <<m>> /\ Types(r) = {"StateUpdate"} /\ Replying(r)
                                  /\ \A v \in View : Changes(v, m, Read(v, r))
    <3>1. <<m>> \in Seq(Message) /\ Types(<<m>>) = {"StateUpdate"}
          /\ \A v \in View : Changes(v, m, Read(v, <<m>>))
      BY <2>5, OneMessage
    <3>2. Len(<<m>>) = 1
      BY OneOf
    <3>3. Replying(<<m>>)
      BY <3>1, <3>2 DEF Replying
    <3> QED
      BY <3>1, <3>3
  <2>7. /\ reply' \in [Conns -> Seq(Message)] /\ reply'[c] = r
        /\ \A d \in Conns \ {c} : reply'[d] = reply[d]
    BY <2>2, <2>3, <2>5, <2>6
  <2>8. Asking(c)'
    <3>1. Replying(reply'[c]) /\ "Joined" \notin Types(reply'[c])
      BY <2>6, <2>7
    <3> QED
      BY <1>1, <2>2, <2>3, <2>4, <3>1 DEF Asking
  <2>9. Knows(Told(c)', room, c, sess[c], missed[c])
    <3>1. PICK q \in Seq(Message), v \in View : q = outbox[c] /\ v = view[c]
      BY <2>2
    <3>2. PICK t \in View : t = Read(v, q)
      BY ReadView
    <3>3. Told(c) = t
      <4>1. Read(v, q \o <<>>) = t
        BY <3>2, ReadAnswered
      <4> QED
        BY <2>4, <3>1, <4>1 DEF Told
    <3>4. PICK w : w = Read(t, r) /\ Changes(t, m, w)
      BY <2>6
    <3>5. Told(c)' = w
      <4>1. Read(v, q \o r) = w
        BY <3>2, <3>4, ReadBoth
      <4> QED
        BY <2>3, <2>4, <2>7, <3>1, <4>1 DEF Told, Read
    <3>6. Knows(t, room, c, sess[c], missed[c])
      BY <2>2, <2>4, <3>3
    <3> QED
      BY <2>5, <3>4, <3>5, <3>6 DEF Knows, Changes
  <2> QED
    BY <1>1, <2>2, <2>3, <2>4, <2>7, <2>8, <2>9, AloneInv
<1> QED
  BY <1>2, <1>3

\* A task that is dropped takes its queue and its client's view along; its seat stays.
LEMMA AbortInv ==
  ASSUME RelayInv, NEW c \in Conns, Abort(c)
  PROVE  RelayInv'
<1>1. /\ view \in [Conns -> View] /\ missed \in [Conns -> SUBSET Gaps]
      /\ outbox \in [Conns -> Seq(Message)] /\ reply \in [Conns -> Seq(Message)]
      /\ asked \in Nat /\ asked \in 0 .. MaxRequests /\ Asking(c)
  BY TypedAt
<1>2. /\ UNCHANGED <<room, registered, sess, joining, reply, missed>>
      /\ asked' = asked /\ closed' = closed \cup {c}
      /\ outbox' = [outbox EXCEPT ![c] = <<>>] /\ view' = [view EXCEPT ![c] = Outside]
      /\ sess[c] # 0 /\ reply[c] = <<>>
  BY DEF Abort
<1>3. Outside \in View /\ ~Outside.in /\ Outside.peer = 0
  BY MaxBlobAssumption, MaxPeerIdAssumption DEF Outside, View, PeerIdOrNone, States
<1>4. PICK none \in Seq(Message) : none = <<>> /\ Types(none) = {} /\ Len(none) = 0
  BY Nothing, EmptySeq
<1>5. /\ outbox' \in [Conns -> Seq(Message)] /\ outbox'[c] = none
      /\ view' \in [Conns -> View] /\ view'[c] = Outside
      /\ \A d \in Conns \ {c} : outbox'[d] = outbox[d] /\ view'[d] = view[d]
  BY <1>1, <1>2, <1>3, <1>4
<1>6. asked' \in 0 .. MaxRequests /\ asked <= asked' /\ Len(outbox'[c]) <= Capacity
  BY <1>1, <1>2, <1>4, <1>5, CapacityAssumption
<1>7. Asking(c)'
  BY <1>1, <1>2, <1>3, <1>4, <1>5 DEF Asking
<1> QED
  BY <1>1, <1>2, <1>5, <1>6, <1>7, AloneInv

\* A client that reads its queue believes what it would have believed.
LEMMA PollInv ==
  ASSUME RelayInv, NEW c \in Conns, Poll(c)
  PROVE  RelayInv'
<1>1. /\ view \in [Conns -> View] /\ missed \in [Conns -> SUBSET Gaps]
      /\ outbox \in [Conns -> Seq(Message)] /\ reply \in [Conns -> Seq(Message)]
      /\ asked \in Nat /\ asked \in 0 .. MaxRequests /\ Asking(c)
      /\ c \notin closed => Knows(Told(c), room, c, sess[c], missed[c])
  BY TypedAt
<1>2. /\ UNCHANGED <<room, registered, sess, joining, reply, missed, closed, asked>>
      /\ outbox' = [outbox EXCEPT ![c] = <<>>]
      /\ view' = [view EXCEPT ![c] = Read(view[c], outbox[c])]
  BY DEF Poll, Read
<1>3. PICK q \in Seq(Message), v \in View, r \in Seq(Message) :
        q = outbox[c] /\ v = view[c] /\ r = reply[c]
  BY <1>1
<1>4. PICK w \in View : w = Read(v, q) /\ Turns(v, q, w)
  BY ReadView
<1>5. PICK none \in Seq(Message) : none = <<>> /\ Types(none) = {} /\ Len(none) = 0
  BY Nothing, EmptySeq
<1>6. /\ outbox' \in [Conns -> Seq(Message)] /\ outbox'[c] = none
      /\ view' \in [Conns -> View] /\ view'[c] = w
      /\ \A d \in Conns \ {c} : outbox'[d] = outbox[d] /\ view'[d] = view[d]
  BY <1>1, <1>2, <1>3, <1>4, <1>5
<1>7. Asking(c)'
  BY <1>1, <1>2, <1>3, <1>4, <1>5, <1>6 DEF Asking, Turns
<1>8. Told(c)' = Told(c)
  <2>1. none \o r = r
    BY <1>5, ConcatEmptySeq
  <2>2. Read(v, q \o r) = Read(w, r)
    BY <1>4, ReadBoth
  <2>3. Told(c)' = Read(w, none \o r)
    BY <1>2, <1>3, <1>6 DEF Told, Read
  <2> QED
    BY <1>3, <2>1, <2>2, <2>3 DEF Told
<1>9. Len(outbox'[c]) <= Capacity
  BY <1>5, <1>6, CapacityAssumption
<1>10. /\ UNCHANGED <<room, registered, sess>> /\ closed' \in {closed, closed \cup {c}}
       /\ asked' \in 0 .. MaxRequests /\ asked <= asked' /\ joining' \in SUBSET joining
       /\ missed' \in [Conns -> SUBSET Gaps] /\ reply' \in [Conns -> Seq(Message)]
       /\ \A d \in Conns \ {c} : missed'[d] = missed[d] /\ reply'[d] = reply[d]
  BY <1>1, <1>2
<1>11. c \notin closed' => Knows(Told(c)', room, c, sess[c], missed'[c])
  BY <1>1, <1>2, <1>8
<1> QED
  BY <1>6, <1>7, <1>9, <1>10, <1>11, AloneInv

\* A queue that has no place for the reply loses all of it.
LEMMA ReplyQueued ==
  ASSUME NEW v \in View, NEW q \in Seq(Message), NEW r \in Seq(Message), Replying(r),
         NEW f \in Seq(Message), NEW d \in Seq(Message), r = f \o d,
         "Joined" \notin Types(d)
  PROVE  Matches(Read(v, q \o f), Read(v, q \o r), Types(d))
<1>1. PICK none \in Seq(Message) : /\ none = <<>> /\ Types(none) = {} /\ Len(none) = 0
                                   /\ Replying(none)
  BY Nothing, EmptySeq DEF Replying
<1>2. PICK u \in View : u = Read(v, q)
  BY ReadView
<1>6. Read(v, q \o r) = Read(u, r)
  BY <1>2, ReadBoth
<1>3. PICK qf \in Seq(Message) : qf = q \o f /\ Read(v, qf) \in View
  <2>1. q \o f \in Seq(Message)
    BY ConcatProperties
  <2> QED
    BY <2>1, ReadView
<1>4. CASE "Joined" \in Types(r)
  <2>1. Types(r) = Types(f) \cup Types(d)
    BY TypesBoth
  <2>2. PICK m \in Message : m.type = "Joined" /\ r = <<m>>
    BY <1>4, JoinedTells
  <2>3. Types(r) = {"Joined"}
    BY <2>2, TypesOne
  <2>4. Types(d) = {}
    BY <2>1, <2>3
  <2>5. Len(d) = 0
    <3>1. PICK n \in Nat : n = Len(d) /\ DOMAIN d = 1 .. n
      BY LenProperties, Zenon
    <3>2. 1 \notin 1 .. n
      BY <2>4, <3>1 DEF Types
    <3> QED
      BY <3>1, <3>2
  <2>6. d = <<>>
    BY <2>5, EmptySeq
  <2>7. r = f
    <3>1. PICK e \in Seq(Message) : e = d /\ e = <<>>
      BY <2>6
    <3>2. f \o e = f
      BY <3>1, ConcatEmptySeq
    <3> QED
      BY <3>1, <3>2
  <2>8. Read(v, qf) = Read(v, q \o r)
    BY <1>3, <2>7
  <2> QED
    BY <1>3, <2>8 DEF Matches
<1>5. CASE "Joined" \notin Types(r)
  <2>1. Matches(Read(v, (q \o f) \o none), Read(Read(v, q \o none), r), Types(d) \cup Late(none, r))
    BY <1>1, <1>5, Heard
  <2>2. Late(none, r) = {}
    BY <1>1 DEF Late
  <2>3. q \o none = q /\ qf \o none = qf
    BY <1>1, ConcatEmptySeq
  <2>4. Types(d) \cup Late(none, r) = Types(d)
    BY <2>2
  <2> QED
    BY <1>2, <1>3, <1>6, <2>1, <2>3, <2>4
<1> QED
  BY <1>4, <1>5

\* The reply goes behind what was queued since it was made, or is dropped.
LEMMA QueueReplyInv ==
  ASSUME RelayInv, NEW c \in Conns, QueueReply(c)
  PROVE  RelayInv'
<1>1. /\ view \in [Conns -> View] /\ missed \in [Conns -> SUBSET Gaps]
      /\ outbox \in [Conns -> Seq(Message)] /\ reply \in [Conns -> Seq(Message)]
      /\ asked \in Nat /\ asked \in 0 .. MaxRequests /\ Asking(c) /\ Len(outbox[c]) <= Capacity
      /\ c \notin closed => Knows(Told(c), room, c, sess[c], missed[c])
  BY TypedAt
<1>2. /\ UNCHANGED <<room, registered, sess, joining, view, closed, asked>>
      /\ c \notin closed /\ reply[c] # <<>>
      /\ outbox' = [outbox EXCEPT ![c] = outbox[c] \o Fitting(c, reply[c])]
      /\ missed' = [missed EXCEPT ![c] = missed[c] \cup Types(Dropped(c, reply[c]))]
      /\ reply' = [reply EXCEPT ![c] = <<>>]
  BY DEF QueueReply
<1>3. PICK q \in Seq(Message), v \in View, r \in Seq(Message) :
        q = outbox[c] /\ v = view[c] /\ r = reply[c] /\ Replying(r)
  BY <1>1 DEF Asking
<1>4. PICK f \in Seq(Message), d \in Seq(Message) :
        f = Fitting(c, r) /\ d = Dropped(c, r) /\ r = f \o d /\ Len(f) <= Capacity - Len(q)
  <2>1. Len(outbox[c]) \in Nat
    BY <1>3, LenProperties
  <2> QED
    BY <1>1, <1>3, <2>1, FittingDropped
<1>5. PICK qf \in Seq(Message) :
        /\ qf = q \o f /\ Types(qf) = Types(q) \cup Types(f) /\ Len(qf) <= Capacity
  <2>1. PICK qf \in Seq(Message) : qf = q \o f /\ Len(qf) = Len(q) + Len(f)
    BY ConcatProperties
  <2>2. Len(q) \in Nat /\ Len(f) \in Nat /\ Capacity \in Nat
    BY LenProperties, CapacityAssumption
  <2>3. Types(qf) = Types(q) \cup Types(f)
    BY <2>1, TypesBoth
  <2>4. Len(qf) <= Capacity
    BY <1>4, <2>1, <2>2
  <2> QED
    BY <2>1, <2>3, <2>4
<1>6. Types(r) = Types(f) \cup Types(d) /\ Types(d) \subseteq Gaps
  <2>1. Types(f \o d) = Types(f) \cup Types(d)
    BY TypesBoth
  <2>2. Types(d) \subseteq Gaps
    BY TypesOfMessages DEF Gaps
  <2> QED
    BY <1>4, <2>1, <2>2
<1>7. PICK none \in Seq(Message) : none = <<>> /\ Types(none) = {} /\ Len(none) = 0
  BY Nothing, EmptySeq
<1>8. /\ outbox' \in [Conns -> Seq(Message)] /\ outbox'[c] = qf
      /\ reply' \in [Conns -> Seq(Message)] /\ reply'[c] = none
      /\ missed' \in [Conns -> SUBSET Gaps] /\ missed'[c] = missed[c] \cup Types(d)
      /\ \A e \in Conns \ {c} : outbox'[e] = outbox[e] /\ reply'[e] = reply[e] /\ missed'[e] = missed[e]
  BY <1>1, <1>2, <1>3, <1>4, <1>5, <1>6, <1>7
<1>9. Asking(c)'
  <2>1. Replying(none)
    BY <1>7 DEF Replying
  <2>2. c \notin joining
    BY <1>1, <1>2 DEF Asking
  <2>3. Replying(reply'[c])
    BY <1>8, <2>1
  <2> QED
    BY <1>1, <1>2, <1>3, <1>5, <1>6, <1>7, <1>8, <2>2, <2>3 DEF Asking
<1>10. Knows(Told(c)', room, c, sess[c], missed'[c])
  <2>1. Told(c)' = Read(v, qf)
    <3>1. qf \o none = qf
      BY <1>7, ConcatEmptySeq
    <3> QED
      BY <1>2, <1>3, <1>8, <3>1 DEF Told, Read
  <2>2. PICK told : told = Read(v, q \o r) /\ Knows(told, room, c, sess[c], missed[c])
    BY <1>1, <1>2, <1>3 DEF Told
  <2>3. PICK gap : gap = missed[c] \cup Types(d)
    OBVIOUS
  <2>4. CASE "Joined" \notin Types(d)
    <3>1. Matches(Read(v, q \o f), Read(v, q \o r), Types(d))
      BY <1>3, <1>4, <2>4, ReplyQueued
    <3>2. missed[c] \subseteq gap /\ Types(d) \subseteq gap
      BY <2>3
    <3>4. Matches(Read(v, qf), told, gap)
      BY <1>5, <2>2, <3>1, <3>2 DEF Matches
    <3>3. Knows(Read(v, qf), room, c, sess[c], gap)
      BY <2>2, <3>2, <3>4, KnowsMore
    <3> QED
      BY <1>8, <2>1, <2>3, <3>3
  <2>5. CASE "Joined" \in Types(d)
    <3>1. \A S : gap \cap ({"Joined"} \cup S) # {}
      BY <2>3, <2>5
    <3>4. sess[c] # 0
      BY <1>1, <1>3, <1>6, <2>5 DEF Asking
    <3>2. Knows(Read(v, qf), room, c, sess[c], gap)
      BY <2>3, <2>5, <3>1, <3>4 DEF Knows
    <3> QED
      BY <1>8, <2>1, <2>3, <3>2
  <2> QED
    BY <2>4, <2>5
<1>11. /\ UNCHANGED <<room, registered, sess>> /\ closed' \in {closed, closed \cup {c}}
       /\ asked' \in 0 .. MaxRequests /\ asked <= asked' /\ joining' \in SUBSET joining
       /\ view' \in [Conns -> View] /\ Len(outbox'[c]) <= Capacity
       /\ \A e \in Conns \ {c} : view'[e] = view[e]
  BY <1>1, <1>2, <1>5, <1>8
<1> QED
  BY <1>8, <1>9, <1>10, <1>11, AloneInv

-----------------------------------------------------------------------------
(* Leaving.                                                                *)

\* A connection without a session has no seat, and in a room that is gone nobody has.
LEMMA SeatlessNow ==
  ASSUME RelayInv, NEW c \in Conns \ closed, sess[c] = 0 \/ ~registered
  PROVE  \A p : ~Sits(room, p, c)
<1>1. \A p : Sits(room, p, c) => p \in PeerIds /\ sess[c] = p
  BY DEF Sits, Peers, RelayInv, SeatsOwned
<1>2. 0 \notin PeerIds
  BY DEF PeerIds
<1>3. ~registered => Empty(room)
  BY DEF RelayInv, SeatsOwned
<1> QED
  BY <1>1, <1>2, <1>3 DEF Empty, Sits

\* What a section leaves of the room and of the queues when c gives up its seat: c sits
\* nowhere, and is not told it sits anywhere unless it counts as crossed.
Vacated(c) ==
  /\ outbox' \in [Conns -> Seq(Message)] /\ missed' \in [Conns -> SUBSET Gaps]
  /\ room' \in RelayRoom /\ RoomFine(room') /\ room'.next = room.next
  /\ registered' \in BOOLEAN /\ (~registered' => Empty(room'))
  /\ \A p, d : Sits(room', p, d) => Sits(room, p, d)
  /\ \A p : ~Sits(room', p, c)
  /\ \A d \in Conns \ {c} : HeedsAt(d)
  /\ Len(outbox'[c]) <= Capacity
  /\ "Joined" \in Types(outbox'[c]) => "Joined" \in Types(outbox[c])
  /\ "Crossed" \notin missed'[c] => ~view'[c].in /\ "Joined" \notin Types(outbox[c])

\* What crossing makes of the records of who missed what.
LEMMA CrossingMarks ==
  ASSUME NEW c \in Conns, NEW gaps \in [Conns -> SUBSET Gaps]
  PROVE  /\ Crossing(c, gaps) \in [Conns -> SUBSET Gaps]
         /\ \A d \in Conns \ {c} : Crossing(c, gaps)[d] = gaps[d]
         /\ "Crossed" \notin Crossing(c, gaps)[c] =>
              ~view'[c].in /\ "Joined" \notin Types(outbox[c])
<1> DEFINE new == IF view'[c].in \/ "Joined" \in Types(outbox[c])
                  THEN gaps[c] \cup {"Crossed"} ELSE gaps[c] \ {"Crossed"}
<1>1. new \in SUBSET Gaps
  BY DEF Gaps
<1>2. "Crossed" \notin new => ~view'[c].in /\ "Joined" \notin Types(outbox[c])
  OBVIOUS
<1>3. Crossing(c, gaps) = [gaps EXCEPT ![c] = new]
  BY DEF Crossing
<1> HIDE DEF new
<1> QED
  BY <1>1, <1>2, <1>3

\* A member that leaves does so in one section, and the others hear of it.
LEMMA OldSeatLeft ==
  ASSUME RelayInv, NEW c \in Conns \ closed, LeavesOldSeat(c)
  PROVE  Vacated(c)
<1>1. CASE ~(sess[c] # 0 /\ registered)
  <2>1. /\ outbox' = outbox /\ room' = room /\ registered' = registered
        /\ missed' = Crossing(c, missed)
    BY <1>1 DEF LeavesOldSeat
  <2>2. \A p : ~Sits(room, p, c)
    BY <1>1, SeatlessNow
  <2>3. /\ registered \in BOOLEAN /\ (~registered => Empty(room))
        /\ outbox \in [Conns -> Seq(Message)] /\ missed \in [Conns -> SUBSET Gaps]
        /\ room \in RelayRoom /\ RoomFine(room) /\ Len(outbox[c]) <= Capacity
    BY DEF RelayInv, RelayTyped, SeatsOwned, Bounded
  <2>4. /\ missed' \in [Conns -> SUBSET Gaps]
        /\ \A d \in Conns \ {c} : missed'[d] = missed[d]
        /\ "Crossed" \notin missed'[c] => ~view'[c].in /\ "Joined" \notin Types(outbox[c])
    BY <2>1, <2>3, CrossingMarks
  <2>5. \A d \in Conns \ {c} : HeedsAt(d)
    BY <2>1, <2>4, SilentHeeds
  <2> QED
    BY <2>1, <2>2, <2>3, <2>4, <2>5 DEF Vacated
<1>2. CASE sess[c] # 0 /\ registered
  <2>1. PICK peer \in PeerIds : peer = sess[c]
    BY <1>2 DEF RelayInv, RelayTyped, PeerIdOrNone, PeerIds
  <2>2. Vacates(c, peer)
    BY <1>2, <2>1 DEF LeavesOldSeat
  <2>3. PICK before : before = DropSeats(room, {peer})
    OBVIOUS
  <2>4. PICK m \in Message : /\ m = PeerMessage("PeerLeft", peer)
                             /\ m.type = "PeerLeft" /\ m.peer = peer
    BY PeerMessages
  <2>5. PICK msgs, head : /\ msgs = <<>> /\ head = <<m>> /\ Silently(msgs) /\ Silently(head)
    BY <2>4, Nothing, OneMessage
  <2>6. PICK after \in Left(room, peer, closed) :
          LET news == head \o Aftermath(before, after)
              sent == Sent(after, msgs, news, NoExtra)
          IN  /\ room' = after /\ registered' = ~Empty(after)
              /\ outbox' = QueuesWith(sent)
              /\ missed' = Crossing(c, MissedOf(after, sent, news))
    BY <2>2, <2>3, <2>4, <2>5, Zenon DEF Vacates
  <2>7. room \in RelayRoom /\ room.clients \in SeatMap /\ room.pending \in SeatMap
    BY RelayRoomFields DEF RelayInv, RelayTyped
  <2>8. Settles(after, before) /\ Settles(before, room)
    BY <2>3, <2>7, LeftSettles, DropSettles
  <2>9. Prepared(before)
    BY <2>8, SettlesPrepared
  <2>10. /\ Peers(before.clients) = Peers(room.clients) \ {peer}
         /\ Peers(before.pending) = Peers(room.pending) \ {peer}
         /\ before.host = room.host /\ before.state = room.state /\ before.next = room.next
    <3>1. /\ Peers(Without(room.clients, {peer})) = Peers(room.clients) \ {peer}
          /\ Peers(Without(room.pending, {peer})) = Peers(room.pending) \ {peer}
      BY <2>7, WithoutKeepsOthers
    <3> QED
      BY <2>3, <2>7, <3>1 DEF DropSeats, RelayRoom
  <2>11. Prepares(before, msgs, head)
    BY <2>4, <2>5, <2>9, <2>10, PreparesLeft
  <2>12. PICK news : news = head \o Aftermath(before, after)
    OBVIOUS
  <2>13. PICK sent : sent = Sent(after, msgs, news, NoExtra)
    OBVIOUS
  <2>14. /\ room' = after /\ registered' = ~Empty(after) /\ outbox' = QueuesWith(sent)
         /\ missed' = Crossing(c, MissedOf(after, sent, news))
    BY <2>6, <2>12, <2>13, Zenon
  <2>15. \A d \in Conns :
           /\ Queued(sent, after, news, d) /\ "Joined" \notin Types(sent[d])
           /\ d \notin closed =>
                Knows(Read(view[d], QueuesWith(sent)[d] \o reply[d]), after, d, sess[d],
                      MissedOf(after, sent, news)[d])
    BY <2>5, <2>8, <2>9, <2>11, <2>12, <2>13, NoExtraSent, TellingKeeps
  <2>16. PICK gaps \in [Conns -> SUBSET Gaps] : gaps = MissedOf(after, sent, news)
    <3>1. PICK gaps : /\ gaps = MissedOf(after, sent, news)
                      /\ gaps = [d \in Conns |-> gaps[d]]
      BY DEF MissedOf
    <3>2. \A d \in Conns : gaps[d] \in SUBSET Gaps
      BY <2>15, <3>1 DEF Queued
    <3> QED
      BY <3>1, <3>2
  <2>17. /\ missed' \in [Conns -> SUBSET Gaps]
         /\ \A d \in Conns \ {c} : missed'[d] = gaps[d]
         /\ "Crossed" \notin missed'[c] => ~view'[c].in /\ "Joined" \notin Types(outbox[c])
    BY <2>14, <2>16, CrossingMarks
  <2>18. /\ outbox' \in [Conns -> Seq(Message)]
         /\ Len(outbox'[c]) <= Capacity
         /\ "Joined" \in Types(outbox'[c]) => "Joined" \in Types(outbox[c])
    <3>1. outbox' = [d \in Conns |-> outbox[d] \o Fitting(d, sent[d])]
      BY <2>14 DEF QueuesWith
    <3>2. \A d \in Conns : outbox'[d] \in Seq(Message)
      BY <2>14, <2>15 DEF Queued
    <3>3. Len(outbox'[c]) <= Capacity
      BY <2>14, <2>15 DEF Queued
    <3>4. "Joined" \in Types(outbox'[c]) => "Joined" \in Types(outbox[c])
      BY <2>14, <2>15 DEF Queued
    <3> QED
      BY <3>1, <3>2, <3>3, <3>4
  <2>19. \A d \in Conns \ {c} : HeedsAt(d)
    BY <2>14, <2>15, <2>16, <2>17 DEF HeedsAt, Queued
  <2>20. /\ after \in RelayRoom /\ RoomFine(after) /\ after.next = room.next
         /\ \A p, d : Sits(after, p, d) => Sits(before, p, d) /\ Sits(room, p, d)
    BY <2>8, <2>9, <2>10, SettlesFine DEF Prepared, Settles
  <2>21. ASSUME NEW p, Sits(after, p, c)
         PROVE  FALSE
    <3>1. Sits(before, p, c) /\ Sits(room, p, c)
      BY <2>20, <2>21
    <3>2. p \in PeerIds /\ p = peer
      BY <2>1, <3>1 DEF Sits, Peers, RelayInv, SeatsOwned
    <3> QED
      BY <2>10, <3>1, <3>2 DEF Sits
  <2>22. registered' \in BOOLEAN /\ (~registered' => Empty(room'))
    BY <2>14 DEF Empty
  <2> QED
    BY <2>14, <2>17, <2>18, <2>19, <2>20, <2>21, <2>22 DEF Vacated
<1> QED
  BY <1>1, <1>2

\* Nobody has the seat 0.
LEMMA NoSeatZero ==
  ASSUME NEW v, NEW r, NEW c, NEW gap, "Crossed" \notin gap => ~v.in /\ v.peer = 0
  PROVE  Knows(v, r, c, 0, gap)
<1>1. ~Sits(r, 0, c)
  BY DEF Sits, Peers, PeerIds
<1> QED
  BY <1>1 DEF Knows

\* The room has gone on, and c has left it.
LEMMA LeaverInv ==
  ASSUME RelayInv, NEW c \in Conns \ closed, asked' = asked + 1, asked' \in 0 .. MaxRequests,
         closed' = closed, LeavesOldSeat(c), sess' = [sess EXCEPT ![c] = 0],
         joining' \in {joining, joining \cup {c}},
         view' \in [Conns -> View], reply' \in [Conns -> Seq(Message)],
         \A d \in Conns \ {c} : view'[d] = view[d] /\ reply'[d] = reply[d],
         reply'[c] \in {<<>>, <<Answer>>}, Asking(c)'
  PROVE  RelayInv'
<1>1. Vacated(c)
  BY OldSeatLeft
<1>2. /\ sess \in [Conns -> PeerIdOrNone] /\ joining \in SUBSET Conns /\ IsFiniteSet(joining)
      /\ room.next \in Nat /\ asked \in Nat /\ 0 \in PeerIdOrNone
      /\ room.next + Cardinality(joining) <= asked + 2
  BY MaxPeerIdAssumption
     DEF RelayInv, RelayTyped, Bounded, RelayRoom, PeerIds, PeerIdOrNone
<1>3. /\ joining' \in SUBSET Conns /\ IsFiniteSet(joining')
      /\ Cardinality(joining') <= Cardinality(joining) + 1
      /\ Cardinality(joining') \in Nat /\ Cardinality(joining) \in Nat
  <2>1. IsFiniteSet(joining \cup {c}) /\ Cardinality(joining \cup {c}) <= Cardinality(joining) + 1
    <3>1. IsFiniteSet(joining \cup {c})
          /\ Cardinality(joining \cup {c}) =
               IF c \in joining THEN Cardinality(joining) ELSE Cardinality(joining) + 1
      BY <1>2, FS_AddElement
    <3>2. Cardinality(joining) \in Nat
      BY <1>2, FS_CardinalityType
    <3> QED
      BY <3>1, <3>2
  <2>2. joining' \in SUBSET Conns /\ IsFiniteSet(joining')
    BY <1>2, <2>1
  <2>3. Cardinality(joining') \in Nat /\ Cardinality(joining) \in Nat
    BY <1>2, <2>2, FS_CardinalityType
  <2>4. Cardinality(joining') \in {Cardinality(joining), Cardinality(joining \cup {c})}
    OBVIOUS
  <2>5. Cardinality(joining') <= Cardinality(joining) + 1
    BY <2>1, <2>3, <2>4
  <2> QED
    BY <2>2, <2>3, <2>5
<1>4. room'.next + Cardinality(joining') <= asked' + 2
  <2>1. PICK n \in Nat, j \in Nat, k \in Nat :
          n = room.next /\ j = Cardinality(joining) /\ k = Cardinality(joining')
    BY <1>2, <1>3
  <2>2. n + k <= asked' + 2
    BY <1>2, <1>3, <2>1
  <2>3. room'.next = n
    BY <1>1, <2>1 DEF Vacated
  <2> QED
    BY <2>1, <2>2, <2>3
<1>5. sess' \in [Conns -> PeerIdOrNone] /\ sess'[c] = 0
      /\ \A d \in Conns \ {c} : sess'[d] = sess[d]
  BY <1>2
<1>6. /\ \A d \in Conns \ {c} :
           /\ HeedsAt(d)
           /\ sess'[d] = sess[d] /\ view'[d] = view[d] /\ reply'[d] = reply[d]
           /\ d \in joining' => d \in joining
           /\ \A p : Sits(room', p, d) => Sits(room, p, d)
      /\ c \notin closed' => \A p \in PeerIds : Sits(room', p, c) => sess'[c] = p
  BY <1>1, <1>5 DEF Vacated
<1>7. Knows(Told(c)', room', c, sess'[c], missed'[c])
  <2>1. PICK q \in Seq(Message), v \in View, r \in {<<>>, <<Answer>>} :
          q = outbox'[c] /\ v = view'[c] /\ r = reply'[c]
    BY <1>1 DEF Vacated
  <2>2. PICK w : w = Read(v, q) /\ Turns(v, q, w)
    BY ReadView
  <2>3. Told(c)' = w
    <3>1. Read(v, q \o r) = w
      BY <2>2, ReadAnswered
    <3> QED
      BY <2>1, <3>1 DEF Told, Read
  <2>4. v.in <=> v.peer # 0
    BY <2>1 DEF Asking
  <2>5. "Crossed" \notin missed'[c] => ~w.in /\ w.peer = 0
    BY <1>1, <2>1, <2>2, <2>4 DEF Vacated, Turns
  <2>6. Knows(w, room', c, 0, missed'[c])
    BY <2>5, NoSeatZero
  <2> QED
    BY <1>5, <2>3, <2>6
<1>8. /\ room' \in RelayRoom /\ RoomFine(room') /\ registered' \in BOOLEAN
      /\ ~registered' => Empty(room')
      /\ outbox' \in [Conns -> Seq(Message)] /\ missed' \in [Conns -> SUBSET Gaps]
      /\ Len(outbox'[c]) <= Capacity
  BY <1>1 DEF Vacated
<1> QED
  BY <1>3, <1>4, <1>5, <1>6, <1>7, <1>8, StepInv

\* A Hello of a client with a session gives up the old seat first, and the others are told.
LEMMA BeginHelloInv ==
  ASSUME RelayInv, NEW c \in Conns, BeginHello(c)
  PROVE  RelayInv'
<1>1. /\ view \in [Conns -> View] /\ reply \in [Conns -> Seq(Message)]
      /\ sess \in [Conns -> PeerIdOrNone] /\ Asking(c)
  BY DEF RelayInv, RelayTyped
<1>2. /\ Asks(c, "Hello") /\ LeavesOldSeat(c) /\ "Hello" # "Leave"
      /\ sess' = [sess EXCEPT ![c] = 0] /\ joining' = joining \cup {c} /\ reply' = reply
  BY DEF BeginHello
<1>3. /\ c \notin closed /\ c \notin joining /\ reply[c] = <<>>
      /\ asked' = asked + 1 /\ asked' \in 0 .. MaxRequests /\ closed' = closed /\ view' = view
  BY <1>2, AskFacts
<1>4. Asking(c)'
  <2>1. "Joined" \notin Types(reply[c])
    BY <1>3, Nothing
  <2> QED
    BY <1>1, <1>2, <1>3, <2>1 DEF Asking
<1>5. /\ joining' \in {joining, joining \cup {c}} /\ view' \in [Conns -> View]
      /\ reply' \in [Conns -> Seq(Message)] /\ reply'[c] \in {<<>>, <<Answer>>}
      /\ \A d \in Conns \ {c} : view'[d] = view[d] /\ reply'[d] = reply[d]
  BY <1>1, <1>2, <1>3
<1> QED
  BY <1>2, <1>3, <1>4, <1>5, LeaverInv

\* A client that leaves has no view left, and the others are told.
LEMMA LeaveInv ==
  ASSUME RelayInv, NEW c \in Conns, Leave(c)
  PROVE  RelayInv'
<1>1. /\ view \in [Conns -> View] /\ reply \in [Conns -> Seq(Message)]
      /\ sess \in [Conns -> PeerIdOrNone] /\ Asking(c)
  BY DEF RelayInv, RelayTyped
<1>2. /\ Asks(c, "Leave") /\ LeavesOldSeat(c)
      /\ sess' = [sess EXCEPT ![c] = 0] /\ joining' = joining
      /\ view' = [view EXCEPT ![c] = Outside]
  BY DEF Leave, Asks, AfterSending
<1>3. /\ c \notin closed /\ c \notin joining
      /\ asked' = asked + 1 /\ asked' \in 0 .. MaxRequests /\ closed' = closed
  BY <1>2, AskFacts
<1>4. PICK r \in Seq(Message) : /\ r \in {<<>>, <<Answer>>}
                                /\ reply' = [reply EXCEPT ![c] = r]
                                /\ Replying(r) /\ "Joined" \notin Types(r)
  <2>1. PICK r \in {<<>>, <<Answer>>} : reply' = [reply EXCEPT ![c] = r]
    BY DEF Leave, Answers
  <2> QED
    BY <2>1, AnswerTells
<1>5. Outside \in View /\ ~Outside.in /\ Outside.peer = 0
  BY MaxBlobAssumption, MaxPeerIdAssumption DEF Outside, View, PeerIdOrNone, States
<1>6. /\ view' \in [Conns -> View] /\ view'[c] = Outside
      /\ reply' \in [Conns -> Seq(Message)] /\ reply'[c] = r
      /\ \A d \in Conns \ {c} : view'[d] = view[d] /\ reply'[d] = reply[d]
  BY <1>1, <1>2, <1>4, <1>5
<1>7. Asking(c)'
  BY <1>2, <1>3, <1>4, <1>5, <1>6 DEF Asking
<1>8. joining' \in {joining, joining \cup {c}} /\ reply'[c] \in {<<>>, <<Answer>>}
  BY <1>2, <1>4, <1>6
<1> QED
  BY <1>2, <1>3, <1>6, <1>7, <1>8, LeaverInv

-----------------------------------------------------------------------------
(* Joining.                                                                *)

\* The side a joiner gets is one.
LEMMA SideForJoiner ==
  ASSUME RelayInv
  PROVE  NextAvailableSide(room) \in Sides
<1>1. PICK plain : plain = [room EXCEPT !.state = NoConn]
  OBVIOUS
<1>2. /\ plain \in Room /\ plain.clients = room.clients /\ plain.pending = room.pending
      /\ plain.settings = room.settings
  BY <1>1 DEF RelayInv, RelayTyped, RelayRoom, Room, PeerIdOrNone
<1>3. NextAvailableSide(plain) \in Sides
  BY <1>2, NextAvailableSideIsFree
<1>4. SidesOf(plain) = SidesOf(room) /\ UsedSides(plain) = UsedSides(room)
  BY <1>2 DEF SidesOf, UsedSides
<1>5. NextAvailableSide(plain) = NextAvailableSide(room)
  BY <1>4 DEF NextAvailableSide
<1> QED
  BY <1>3, <1>5

\* Ids are given out in order: the next one is free, and not the last.
LEMMA IdForJoiner ==
  ASSUME RelayInv, room.next < MaxPeerId
  PROVE  /\ NextPeerId(room) = room.next /\ room.next \in PeerIds \ Occupied(room)
         /\ AdvancePeerId(room) = [room EXCEPT !.next = room.next + 1]
         /\ room.next + 1 \in PeerIds
<1>1. room.next \in PeerIds /\ room.next \in Nat
  BY DEF RelayInv, RelayTyped, RelayRoom, PeerIds
<1>2. room.next \notin Occupied(room)
  BY <1>1 DEF RelayInv, RoomFine
<1>3. NextPeerId(room) = room.next
  BY <1>2 DEF NextPeerId
<1>4. FreePeerIds(room) # {}
  BY <1>1, <1>2 DEF FreePeerIds
<1>5. SaturatingSucc(room.next) = room.next + 1 /\ room.next + 1 \in PeerIds
  BY <1>1, MaxPeerIdAssumption DEF SaturatingSucc, PeerIds
<1> QED
  BY <1>1, <1>2, <1>3, <1>4, <1>5 DEF AdvancePeerId

\* The room after a join by d: one more seat, and everything else as it was.
Seated(before, after, peer, d) ==
  /\ after \in RelayRoom /\ RoomFine(after)
  /\ after.next = before.next + 1 /\ after.state = before.state
  /\ \A q, e : Sits(after, q, e) => Sits(before, q, e) \/ (q = peer /\ e = d)
  /\ Peers(after.clients) \in {Peers(before.clients), Peers(before.clients) \cup {peer}}
  /\ ~Empty(before) =>
       /\ after.host = before.host

\* A joiner's seat is under an id nobody has, and keeps the room in order.
LEMMA JoinerSeated ==
  ASSUME RelayInv, NEW c \in Conns, room.next < MaxPeerId,
         NEW seat, seat = [conn |-> c, hash |-> HashOf[c], side |-> NextAvailableSide(room)]
  PROVE  Seated(room, TakeSeat(AdvancePeerId(room), room.next, seat), room.next, c)
<1>1. seat \in Seat /\ seat.conn = c
  BY SideForJoiner, HashOfAssumption DEF Seat
<1>2. PICK peer \in PeerIds : peer = room.next /\ peer \notin Occupied(room) /\ peer + 1 \in PeerIds
  BY IdForJoiner
<1>3. PICK moved : /\ moved = AdvancePeerId(room)
                   /\ moved = [room EXCEPT !.next = peer + 1]
  BY <1>2, IdForJoiner
<1>4. /\ room \in RelayRoom /\ room.clients \in SeatMap /\ room.pending \in SeatMap
      /\ RoomFine(room)
  BY RelayRoomFields DEF RelayInv, RelayTyped
<1>5. /\ moved \in RelayRoom /\ moved.clients = room.clients /\ moved.pending = room.pending
      /\ moved.host = room.host /\ moved.state = room.state /\ moved.next = peer + 1
      /\ moved.settings = room.settings /\ (Empty(moved) <=> Empty(room))
  BY <1>2, <1>3, <1>4 DEF RelayRoom, Empty
<1>6. PICK more \in SeatMap : /\ more = With(room.clients, peer, seat)
                              /\ Peers(more) = Peers(room.clients) \cup {peer}
                              /\ more[peer] = seat
                              /\ \A q \in Peers(room.clients) \ {peer} : more[q] = room.clients[q]
  BY <1>1, <1>4, WithAddsOne
<1>7. PICK wait \in SeatMap : /\ wait = With(room.pending, peer, seat)
                              /\ Peers(wait) = Peers(room.pending) \cup {peer}
                              /\ wait[peer] = seat
                              /\ \A q \in Peers(room.pending) \ {peer} : wait[q] = room.pending[q]
  BY <1>1, <1>4, WithAddsOne
<1>8. PICK after : after = TakeSeat(moved, peer, seat)
  OBVIOUS
<1>9. peer \notin Peers(room.clients) /\ peer \notin Peers(room.pending) /\ peer # 0
      /\ peer \in PeerIdOrNone /\ peer \in Nat
  BY <1>2 DEF Occupied, PeerIds, PeerIdOrNone
<1>10. /\ after \in RelayRoom /\ after.next = peer + 1 /\ after.state = room.state
       /\ after.settings = room.settings
       /\ \/ /\ Empty(room) /\ after.host = peer
             /\ after.clients = more /\ after.pending = room.pending
          \/ /\ ~Empty(room) /\ room.settings.accept /\ after.host = room.host
             /\ after.clients = room.clients /\ after.pending = wait
          \/ /\ ~Empty(room) /\ ~room.settings.accept /\ after.host = room.host
             /\ after.clients = more /\ after.pending = room.pending
  <2>1. CASE Empty(room)
    <3>1. after = [moved EXCEPT !.host = peer, !.clients = more]
      BY <1>5, <1>6, <1>8, <2>1 DEF TakeSeat
    <3> QED
      BY <1>5, <1>9, <2>1, <3>1 DEF RelayRoom
  <2>2. CASE ~Empty(room) /\ room.settings.accept
    <3>1. after = [moved EXCEPT !.pending = wait]
      BY <1>5, <1>7, <1>8, <2>2 DEF TakeSeat
    <3> QED
      BY <1>5, <1>9, <2>2, <3>1 DEF RelayRoom
  <2>3. CASE ~Empty(room) /\ ~room.settings.accept
    <3>1. after = [moved EXCEPT !.clients = more]
      BY <1>5, <1>6, <1>8, <2>3 DEF TakeSeat
    <3> QED
      BY <1>5, <1>9, <2>3, <3>1 DEF RelayRoom
  <2> QED
    BY <2>1, <2>2, <2>3
<1>11. Occupied(after) = Occupied(room) \cup {peer}
  BY <1>6, <1>7, <1>10 DEF Occupied
<1>12. RoomFine(after)
  <2>1. \A p \in Occupied(after) : p < after.next
    <3>1. \A p \in Occupied(room) : p \in Nat /\ p < peer
      BY <1>2, <1>4 DEF RoomFine, Occupied, Peers, PeerIds
    <3> QED
      BY <1>9, <1>10, <1>11, <3>1
  <2>2. Peers(after.clients) \cap Peers(after.pending) = {}
    BY <1>4, <1>6, <1>7, <1>9, <1>10 DEF RoomFine
  <2> QED
    BY <2>1, <2>2 DEF RoomFine
<1>13. \A q, e : Sits(after, q, e) => Sits(room, q, e) \/ (q = peer /\ e = c)
  BY <1>1, <1>6, <1>7, <1>10 DEF Sits
<1>14. Seated(room, after, peer, c)
  BY <1>2, <1>4, <1>6, <1>10, <1>12, <1>13 DEF Seated, RoomFine
<1> QED
  BY <1>2, <1>3, <1>8, <1>14

\* What the news of a join tell.
Announces(news, peer, after) ==
  /\ news \in Seq(Message) /\ "Joined" \notin Types(news)
  /\ \A v \in View :
       /\ Read(v, news) \in View
       /\ Read(v, news).in = v.in /\ Read(v, news).peer = v.peer
       /\ Read(v, news).host = v.host /\ Read(v, news).state = v.state
       /\ Read(v, news).roster =
            IF peer \in Peers(after.clients) THEN v.roster \cup {peer} ELSE v.roster

\* What a join tells the others: PeerJoined, if the joiner is accepted at once.
LEMMA JoinNews ==
  ASSUME NEW peer \in PeerIds, NEW after
  PROVE  Announces(NewsOfJoin(peer, after), peer, after)
<1>1. CASE peer \in Peers(after.clients)
  <2>1. PICK m \in Message : /\ m = PeerMessage("PeerJoined", peer)
                             /\ m.type = "PeerJoined" /\ m.peer = peer
    BY PeerMessages
  <2>2. NewsOfJoin(peer, after) = <<m>>
    BY <1>1, <2>1 DEF NewsOfJoin
  <2>3. /\ <<m>> \in Seq(Message) /\ Types(<<m>>) = {"PeerJoined"}
        /\ \A v \in View : Read(v, <<m>>) \in View /\ Changes(v, m, Read(v, <<m>>))
    BY <2>1, OneMessage
  <2> QED
    BY <1>1, <2>1, <2>2, <2>3 DEF Changes, Announces
<1>2. CASE peer \notin Peers(after.clients)
  <2>1. NewsOfJoin(peer, after) = <<>>
    BY <1>2 DEF NewsOfJoin
  <2> QED
    BY <1>2, <2>1, Nothing DEF Announces
<1> QED
  BY <1>1, <1>2

\* The others know the room after a join.
LEMMA JoinHeeded ==
  ASSUME RelayInv, NEW c \in Conns, NEW after, NEW peer \in PeerIds, peer = room.next,
         Seated(room, after, peer, c), NEW news, news = NewsOfJoin(peer, after),
         NEW sent, sent = Sent(room, <<>>, news, NoExtra), NEW d \in Conns
  PROVE  /\ Queued(sent, room, news, d) /\ "Joined" \notin Types(sent[d])
         /\ d # c /\ d \notin closed =>
              Knows(Read(view[d], QueuesWith(sent)[d] \o reply[d]), after, d, sess[d],
                    MissedOf(room, sent, news)[d])
<1>1. PICK t \in View : t = Told(d)
  <2>1. view[d] \in View /\ outbox[d] \in Seq(Message) /\ reply[d] \in Seq(Message)
    BY DEF RelayInv, RelayTyped
  <2>2. outbox[d] \o reply[d] \in Seq(Message)
    BY <2>1, ConcatProperties
  <2> QED
    BY <2>1, <2>2, ReadView DEF Told
<1>2. PICK none \in Seq(Message) : /\ none = <<>> /\ Types(none) = {}
                                   /\ \A v : Read(v, none) = v
  BY Nothing
<1>3. /\ news \in Seq(Message) /\ "Joined" \notin Types(news)
      /\ \A v \in View :
           /\ Read(v, news) \in View
           /\ Read(v, news).in = v.in /\ Read(v, news).peer = v.peer
           /\ Read(v, news).host = v.host /\ Read(v, news).state = v.state
           /\ Read(v, news).roster =
                IF peer \in Peers(after.clients) THEN v.roster \cup {peer} ELSE v.roster
  <2>1. Announces(news, peer, after)
    BY JoinNews
  <2> QED
    BY <2>1 DEF Announces
<1>4. /\ sent[d] \in Seq(Message) /\ "Joined" \notin Types(sent[d])
      /\ d \in Members(room.clients) => Read(t, sent[d]) = Read(t, news)
      /\ d \in Members(room.pending) \ Members(room.clients) => Read(t, sent[d]) = t
  <2>1. none = NoExtra[d]
    BY <1>2 DEF NoExtra
  <2>2. sent = Sent(room, none, news, NoExtra)
    BY <1>2
  <2>3. news \in Seq(Message) /\ Read(t, none) = t
    BY <1>2, <1>3
  <2>4. Delivers(sent, room, none, news, none, d, t)
    BY <2>1, <2>2, <2>3, SentTo
  <2> QED
    BY <1>2, <1>3, <2>4 DEF Delivers
<1>5. Queued(sent, room, news, d)
  BY <1>3, <1>4, Hearing DEF RelayInv
<1> DEFINE gap == MissedOf(room, sent, news)[d]
           told == Read(view[d], QueuesWith(sent)[d] \o reply[d])
           s == sess[d]
<1>6. /\ gap \in SUBSET Gaps /\ missed[d] \subseteq gap
      /\ d \in Members(room.pending) => Types(news) \subseteq gap
  BY <1>5 DEF Queued
<1>7. PICK w \in View : /\ w = Read(t, sent[d]) /\ Matches(told, w, gap)
                        /\ w.in = t.in /\ w.peer = t.peer
  <2>1. PICK w : w = Read(t, sent[d]) /\ w \in View /\ Turns(t, sent[d], w)
    BY <1>4, ReadView
  <2>2. Matches(told, w, gap)
    BY <1>1, <1>5, <2>1 DEF Queued
  <2> QED
    BY <1>4, <2>1, <2>2 DEF Turns
<1> HIDE DEF gap, told
<1>8. ASSUME d # c, d \notin closed
      PROVE  Knows(told, after, d, s, gap)
  <2>1. Knows(t, room, d, s, gap)
    <3>1. Knows(t, room, d, s, missed[d])
      BY <1>1, <1>8 DEF RelayInv
    <3>2. Matches(t, t, gap)
      BY DEF Matches
    <3> QED
      BY <1>6, <3>1, <3>2, KnowsMore
  <2>2. CASE ~Sits(after, s, d)
    <3>1. Knows(w, after, d, s, gap)
      BY <1>7, <2>1, <2>2, KnowsOutside
    <3> QED
      BY <1>7, <3>1, KnowsMore
  <2>3. CASE Sits(after, s, d)
    <3>1. Sits(room, s, d) /\ s \in PeerIds
      <4>1. Sits(room, s, d)
        BY <1>8, <2>3 DEF Seated
      <4> QED
        BY <4>1 DEF Sits, Peers
    <3>2. /\ ~Empty(room) /\ after.host = room.host /\ after.state = room.state
          /\ Peers(after.clients) \in {Peers(room.clients), Peers(room.clients) \cup {peer}}
      <4>1. ~Empty(room)
        BY <3>1 DEF Sits, Empty
      <4> QED
        BY <4>1 DEF Seated
    <3>3. peer \notin Occupied(room)
      BY DEF RelayInv, RoomFine, PeerIds
    <3>4. CASE s \in Peers(room.clients) /\ room.clients[s].conn = d
      <4>1. d \in Members(room.clients)
        BY <1>8, <3>4 DEF Members
      <4>2. w = Read(t, news)
        BY <1>4, <1>7, <4>1
      <4>3. /\ w.host = t.host /\ w.state = t.state
            /\ w.roster = IF peer \in Peers(after.clients) THEN t.roster \cup {peer} ELSE t.roster
        BY <1>3, <4>2
      <4>4. RosterFits(t.roster, room, s) => RosterFits(w.roster, after, s)
        BY <3>2, <3>3, <3>4, <4>3 DEF RosterFits, Occupied
      <4>5. Knows(w, after, d, s, gap)
        BY <1>7, <2>1, <3>1, <3>2, <3>4, <4>3, <4>4 DEF Knows
      <4> QED
        BY <1>7, <4>5, KnowsMore
    <3>5. CASE s \in Peers(room.pending) /\ room.pending[s].conn = d
      <4>1. d \in Members(room.pending)
        BY <1>8, <3>5 DEF Members
      <4>2. d \notin Members(room.clients)
        <5>1. ASSUME NEW p \in Peers(room.clients), room.clients[p].conn = d
              PROVE  FALSE
          <6>1. Sits(room, p, d) /\ p \in PeerIds
            BY <5>1 DEF Sits, Peers
          <6>2. p = s
            BY <1>8, <6>1 DEF RelayInv, SeatsOwned
          <6> QED
            BY <3>5, <5>1, <6>2 DEF RelayInv, RoomFine
        <5> QED
          BY <5>1 DEF Members
      <4>3. w = t
        BY <1>4, <1>7, <4>1, <4>2
      <4>4. s \notin Peers(after.clients)
        BY <3>2, <3>3, <3>5 DEF RelayInv, RoomFine, Occupied
      <4>5. \/ "PeerJoined" \in gap
            \/ RosterFits(t.roster, room, s) => RosterFits(t.roster, after, s)
        <5>1. CASE peer \in Peers(after.clients)
          <6>1. Types(NewsOfJoin(peer, after)) = {"PeerJoined"}
            BY <5>1, PeerMessages, OneMessage DEF NewsOfJoin
          <6> QED
            BY <1>6, <4>1, <6>1
        <5>2. CASE peer \notin Peers(after.clients)
          <6>1. Peers(after.clients) = Peers(room.clients)
            BY <3>2, <5>2
          <6> QED
            BY <6>1 DEF RosterFits
        <5> QED
          BY <5>1, <5>2
      <4>6. Knows(t, after, d, s, gap)
        BY <2>1, <3>1, <3>2, <4>4, <4>5 DEF Knows
      <4> QED
        BY <1>7, <4>3, <4>6, KnowsMore
    <3> QED
      BY <3>1, <3>4, <3>5 DEF Sits
  <2> QED
    BY <2>2, <2>3
<1> QED
  BY <1>4, <1>5, <1>8 DEF gap, told

\* The task of a connection that seeks a seat.
LEMMA EnterFacts ==
  ASSUME RelayInv, NEW c \in Conns, Enters(c)
  PROVE  /\ c \notin closed /\ sess[c] = 0 /\ reply[c] = <<>>
         /\ view' = view /\ closed' = closed /\ registered' = registered
         /\ joining' \in SUBSET joining /\ IsFiniteSet(joining') /\ c \notin joining'
         /\ asked' \in 0 .. MaxRequests /\ asked <= asked' /\ room.next < MaxPeerId
         /\ room.next + 1 + Cardinality(joining') <= asked' + 2
<1>1. /\ joining \in SUBSET Conns /\ IsFiniteSet(joining) /\ asked \in 0 .. MaxRequests
      /\ asked \in Nat /\ Asking(c) /\ room.next \in Nat
      /\ room.next + Cardinality(joining) <= asked + 2
  BY DEF RelayInv, RelayTyped, Bounded, RelayRoom, PeerIds
<1>2. joining' = joining \ {c} /\ registered' = registered
  BY DEF Enters
<1>3. /\ IsFiniteSet(joining')
      /\ Cardinality(joining') \in Nat /\ Cardinality(joining) \in Nat
      /\ Cardinality(joining') = IF c \in joining THEN Cardinality(joining) - 1
                                 ELSE Cardinality(joining)
  <2>1. /\ IsFiniteSet(joining \ {c})
        /\ Cardinality(joining \ {c}) = IF c \in joining THEN Cardinality(joining) - 1
                                        ELSE Cardinality(joining)
    BY <1>1, FS_RemoveElement
  <2> QED
    BY <1>1, <1>2, <2>1, FS_CardinalityType
<1>4. CASE c \in joining /\ UNCHANGED <<view, closed, asked>>
  <2>1. /\ c \notin closed /\ sess[c] = 0 /\ reply[c] = <<>>
    BY <1>1, <1>4 DEF Asking
  <2>2. /\ view' = view /\ closed' = closed /\ asked' = asked
    BY <1>4
  <2>3. room.next < MaxPeerId /\ room.next + 1 + Cardinality(joining') <= asked' + 2
    BY <1>1, <1>3, <1>4, <2>2, MaxRequestsAssumption, MaxPeerIdAssumption
  <2> QED
    BY <1>1, <1>2, <1>3, <2>1, <2>2, <2>3
<1>5. CASE sess[c] = 0 /\ Asks(c, "Hello")
  <2>1. /\ c \notin closed /\ c \notin joining /\ reply[c] = <<>>
        /\ asked' = asked + 1 /\ asked' \in 0 .. MaxRequests /\ closed' = closed /\ view' = view
    <3>1. "Hello" # "Leave"
      OBVIOUS
    <3> QED
      BY <1>5, <3>1, AskFacts
  <2>3. asked < MaxRequests
    BY <1>5 DEF Asks
  <2>4. room.next < MaxPeerId /\ room.next + 1 + Cardinality(joining') <= asked' + 2
    BY <1>1, <1>3, <2>1, <2>3, MaxRequestsAssumption, MaxPeerIdAssumption
  <2> QED
    BY <1>1, <1>2, <1>3, <1>5, <2>1, <2>4
<1> QED
  BY <1>4, <1>5 DEF Enters

\* A join, whose Joined is made under the mutex and queued after it.
LEMMA JoinInv ==
  ASSUME RelayInv, NEW c \in Conns, Join(c)
  PROVE  RelayInv'
<1>1. /\ view \in [Conns -> View] /\ missed \in [Conns -> SUBSET Gaps]
      /\ outbox \in [Conns -> Seq(Message)] /\ reply \in [Conns -> Seq(Message)]
      /\ sess \in [Conns -> PeerIdOrNone] /\ joining \in SUBSET Conns
      /\ asked \in Nat /\ registered \in BOOLEAN /\ Asking(c)
  BY DEF RelayInv, RelayTyped
<1>2. /\ c \notin closed /\ sess[c] = 0 /\ reply[c] = <<>>
      /\ view' = view /\ closed' = closed /\ registered' = registered
      /\ joining' \in SUBSET joining /\ IsFiniteSet(joining') /\ c \notin joining'
      /\ asked' \in 0 .. MaxRequests /\ asked <= asked' /\ room.next < MaxPeerId
      /\ room.next + 1 + Cardinality(joining') <= asked' + 2
  BY EnterFacts DEF Join
<1>3. registered
  BY DEF Join, Refuses
<1>4. PICK peer \in PeerIds : peer = room.next /\ peer = NextPeerId(room)
  BY <1>2, IdForJoiner
<1>5. PICK seat : seat = [conn |-> c, hash |-> HashOf[c], side |-> NextAvailableSide(room)]
  OBVIOUS
<1>6. PICK after : after = TakeSeat(AdvancePeerId(room), peer, seat)
  OBVIOUS
<1>7. Seated(room, after, peer, c)
  BY <1>2, <1>4, <1>5, <1>6, JoinerSeated
<1>8. PICK news : news = NewsOfJoin(peer, after)
  OBVIOUS
<1>9. PICK sent : sent = Sent(room, <<>>, news, NoExtra)
  OBVIOUS
<1>10. /\ room' = after /\ sess' = [sess EXCEPT ![c] = peer]
       /\ reply' = [reply EXCEPT ![c] = <<JoinedOf(after, peer)>>]
       /\ outbox' = QueuesWith(sent)
       /\ missed' = [MissedOf(room, sent, news) EXCEPT ![c] = {}]
  BY <1>4, <1>5, <1>6, <1>8, <1>9 DEF Join, Answers
<1>11. \A d \in Conns :
         /\ Queued(sent, room, news, d) /\ "Joined" \notin Types(sent[d])
         /\ d # c /\ d \notin closed =>
              Knows(Read(view[d], QueuesWith(sent)[d] \o reply[d]), after, d, sess[d],
                    MissedOf(room, sent, news)[d])
  BY <1>4, <1>7, <1>8, <1>9, JoinHeeded
<1>12. /\ outbox' \in [Conns -> Seq(Message)] /\ missed' \in [Conns -> SUBSET Gaps]
       /\ missed'[c] = {}
       /\ \A d \in Conns \ {c} : missed'[d] = MissedOf(room, sent, news)[d]
  <2>1. outbox' = [d \in Conns |-> outbox[d] \o Fitting(d, sent[d])]
    BY <1>10 DEF QueuesWith
  <2>2. \A d \in Conns : /\ QueuesWith(sent)[d] \in Seq(Message)
                         /\ MissedOf(room, sent, news)[d] \in SUBSET Gaps
    BY <1>11 DEF Queued
  <2>3. \A d \in Conns : outbox'[d] \in Seq(Message)
    BY <1>10, <2>2
  <2>4. PICK gaps : /\ gaps = MissedOf(room, sent, news) /\ missed' = [gaps EXCEPT ![c] = {}]
                    /\ DOMAIN gaps = Conns /\ gaps = [d \in Conns |-> gaps[d]]
    BY <1>10 DEF MissedOf
  <2>5. gaps \in [Conns -> SUBSET Gaps]
    BY <2>2, <2>4
  <2> QED
    BY <2>1, <2>3, <2>4, <2>5
<1>13. \A d \in Conns \ {c} : HeedsAt(d)
  BY <1>10, <1>11, <1>12 DEF HeedsAt, Queued
<1>14. /\ after \in RelayRoom /\ RoomFine(after) /\ after.next = room.next + 1
       /\ after.state = room.state /\ after.next \in Nat
       /\ \A q, e : Sits(after, q, e) => Sits(room, q, e) \/ (q = peer /\ e = c)
  BY <1>7 DEF Seated, RelayRoom, PeerIds
<1>15. PICK m \in Message : /\ m = JoinedOf(after, peer) /\ m.type = "Joined"
                            /\ m.peer = peer /\ m.host = after.host /\ m.state = after.state
  <2>1. PICK h \in PeerIdOrNone, s \in States : h = after.host /\ s = after.state
    BY <1>14 DEF RelayRoom
  <2>2. JoinedOf(after, peer) = [type |-> "Joined", peer |-> peer, host |-> h, state |-> s]
    BY <2>1 DEF JoinedOf, Joined
  <2>3. [type |-> "Joined", peer |-> peer, host |-> h, state |-> s] \in Message
    BY DEF Message
  <2> QED
    BY <2>1, <2>2, <2>3
<1>16. PICK r \in Seq(Message) : r = <<m>> /\ Types(r) = {"Joined"} /\ Replying(r)
  <2>1. <<m>> \in Seq(Message) /\ Types(<<m>>) = {"Joined"}
    BY <1>15, TypesOne
  <2>2. Len(<<m>>) = 1
    BY OneOf
  <2>3. Replying(<<m>>)
    BY <2>1, <2>2 DEF Replying
  <2> QED
    BY <2>1, <2>3
<1>17. /\ reply' \in [Conns -> Seq(Message)] /\ reply'[c] = r
       /\ sess' \in [Conns -> PeerIdOrNone] /\ sess'[c] = peer
       /\ \A d \in Conns \ {c} : reply'[d] = reply[d] /\ sess'[d] = sess[d]
  <2>1. peer \in PeerIdOrNone
    BY DEF PeerIds, PeerIdOrNone
  <2> QED
    BY <1>1, <1>10, <1>15, <1>16, <2>1
<1>18. Len(outbox'[c]) <= Capacity
  BY <1>10, <1>11 DEF Queued
<1>19. Asking(c)'
  <2>1. Replying(reply'[c]) /\ sess'[c] # 0
    BY <1>16, <1>17 DEF PeerIds
  <2> QED
    BY <1>1, <1>2, <2>1 DEF Asking
<1>20. Told(c)' = Inside(peer, after.host, after.state)
  <2>1. PICK q \in Seq(Message), v \in View : q = outbox'[c] /\ v = view[c]
    BY <1>1, <1>12
  <2>2. PICK u \in View : u = Read(v, q)
    BY ReadView
  <2>3. Read(v, q \o r) = Read(u, r)
    BY <2>2, ReadBoth
  <2>4. Read(u, <<m>>) = Inside(peer, after.host, after.state)
    <3>1. PICK a : a = Applied(u, m) /\ Changes(u, m, a)
      BY AppliedChanges
    <3>2. Read(u, <<m>>) = a
      BY <3>1, ReadOne
    <3> QED
      BY <1>15, <3>1, <3>2 DEF Changes
  <2>5. Told(c)' = Read(v, q \o r)
    BY <1>2, <1>17, <2>1 DEF Told, Read
  <2> QED
    BY <1>16, <2>3, <2>4, <2>5
<1>21. Knows(Inside(peer, after.host, after.state), after, c, peer, {})
  <2>1. RosterFits({}, after, peer)
    <3>1. \A p \in Peers(after.clients) : p \in Nat /\ p < peer + 1
      <4>1. \A p \in Occupied(after) : p < peer + 1
        BY <1>4, <1>14 DEF RoomFine
      <4>2. Peers(after.clients) \subseteq Occupied(after)
        BY DEF Occupied
      <4>3. Peers(after.clients) \subseteq Nat
        BY DEF Peers, PeerIds
      <4> QED
        BY <4>1, <4>2, <4>3
    <3>2. peer \in Nat
      BY DEF PeerIds
    <3> QED
      BY <3>1, <3>2 DEF RosterFits
  <2>2. peer # 0
    BY DEF PeerIds
  <2> QED
    BY <2>1, <2>2 DEF Knows, Inside
<1>22. Knows(Told(c)', room', c, sess'[c], missed'[c])
  BY <1>10, <1>12, <1>17, <1>20, <1>21
<1>23. \A p \in PeerIds : Sits(room', p, c) => sess'[c] = p
  <2>1. \A p : ~Sits(room, p, c)
    BY <1>2, SeatlessNow
  <2> QED
    BY <1>10, <1>14, <1>17, <2>1
<1>24. \A d \in Conns \ {c} :
         /\ HeedsAt(d)
         /\ sess'[d] = sess[d] /\ view'[d] = view[d] /\ reply'[d] = reply[d]
         /\ d \in joining' => d \in joining
         /\ \A p : Sits(room', p, d) => Sits(room, p, d)
  BY <1>2, <1>10, <1>13, <1>14, <1>17
<1>25. /\ room' \in RelayRoom /\ RoomFine(room') /\ registered' \in BOOLEAN
       /\ joining' \in SUBSET Conns /\ view' \in [Conns -> View]
       /\ closed' \in {closed, closed \cup {c}} /\ registered'
  BY <1>1, <1>2, <1>3, <1>10, <1>14
<1>26. room'.next + Cardinality(joining') <= asked' + 2
  <2>1. asked' \in Nat
    BY <1>2
  <2> QED
    BY <1>1, <1>2, <1>10, <1>14, <2>1
<1> QED
  BY <1>2, <1>12, <1>17, <1>18, <1>19, <1>22, <1>23, <1>24, <1>25, <1>26, StepInv

-----------------------------------------------------------------------------
(* The theorems.                                                           *)

\* The room that its creator has just got.
LEMMA CreatedRoom ==
  ASSUME NEW creator \in Conns, NEW settings \in Settings
  PROVE  LET r == CreatedBy(creator, settings)
         IN  /\ r \in RelayRoom /\ r.next = 2 /\ r.state = 0 /\ r.host = 1
             /\ Peers(r.clients) = {1} /\ r.clients[1].conn = creator /\ Peers(r.pending) = {}
<1>1. MaxPeerId \in Nat /\ 1 < MaxPeerId /\ 0 \in States /\ 0 \in Sides
  BY MaxPeerIdAssumption, MaxRequestsAssumption, MaxBlobAssumption, SideCapAssumption
     DEF States, Sides
<1>2. 1 \in PeerIds /\ 2 \in PeerIds /\ 0 \in PeerIdOrNone /\ 1 \in PeerIdOrNone
  BY <1>1 DEF PeerIds, PeerIdOrNone
<1>3. NoSeats \in SeatMap /\ Peers(NoSeats) = {}
  BY DEF NoSeats, SeatMap, Peers
<1>4. PICK fresh : fresh = [NewRoom(NoCode, settings) EXCEPT !.state = 0]
  OBVIOUS
<1>5. /\ fresh \in RelayRoom /\ fresh.next = 1 /\ fresh.state = 0 /\ fresh.clients = NoSeats
      /\ fresh.pending = NoSeats
  BY <1>1, <1>2, <1>3, <1>4 DEF NewRoom, RelayRoom
<1>6. Empty(fresh) /\ Occupied(fresh) = {}
  BY <1>3, <1>5 DEF Empty, Occupied
<1>7. AdvancePeerId(fresh) = [fresh EXCEPT !.next = 2]
  <2>1. NextPeerId(fresh) = 1 /\ SaturatingSucc(1) = 2
    BY <1>1, <1>5, <1>6 DEF NextPeerId, SaturatingSucc
  <2>2. FreePeerIds(fresh) # {}
    BY <1>2, <1>6 DEF FreePeerIds
  <2> QED
    BY <2>1, <2>2 DEF AdvancePeerId
<1>8. PICK moved : moved = [fresh EXCEPT !.next = 2]
  OBVIOUS
<1>9. /\ moved \in RelayRoom /\ moved.next = 2 /\ moved.state = 0 /\ moved.clients = NoSeats
      /\ moved.pending = NoSeats /\ Empty(moved)
  BY <1>2, <1>3, <1>5, <1>8 DEF RelayRoom, Empty
<1>10. PICK seat \in Seat : /\ seat = [conn |-> creator, hash |-> HashOf[creator], side |-> 0]
                            /\ seat.conn = creator
  <2>1. PICK h \in Hashes : h = HashOf[creator]
    BY HashOfAssumption
  <2>2. PICK seat : seat = [conn |-> creator, hash |-> h, side |-> 0]
    OBVIOUS
  <2>3. seat \in Seat /\ seat.conn = creator
    BY <1>1, <2>2 DEF Seat
  <2> QED
    BY <2>1, <2>2, <2>3
<1>11. PICK seats \in SeatMap : /\ seats = With(NoSeats, 1, seat)
                                /\ Peers(seats) = {1} /\ seats[1] = seat
  <2>1. /\ With(NoSeats, 1, seat) \in SeatMap
        /\ Peers(With(NoSeats, 1, seat)) = Peers(NoSeats) \cup {1}
        /\ With(NoSeats, 1, seat)[1] = seat
    BY <1>2, <1>3, WithAddsOne
  <2> QED
    BY <1>3, <2>1
<1>12. CreatedBy(creator, settings) = TakeSeat(moved, 1, seat)
  BY <1>4, <1>7, <1>8, <1>10 DEF CreatedBy
<1>13. PICK r : /\ r = [moved EXCEPT !.host = 1, !.clients = seats]
                /\ r = CreatedBy(creator, settings)
  BY <1>9, <1>11, <1>12 DEF TakeSeat
<1>14. /\ r \in RelayRoom /\ r.next = 2 /\ r.state = 0 /\ r.host = 1
       /\ r.clients = seats /\ r.pending = NoSeats
  BY <1>2, <1>9, <1>13 DEF RelayRoom
<1> QED
  BY <1>3, <1>10, <1>11, <1>13, <1>14

\* The room with its creator, who has yet to read his Joined.
LEMMA InitInv ==
  ASSUME Init
  PROVE  RelayInv
<1>1. PICK creator \in Conns, settings \in SettingsChoices :
        /\ room = CreatedBy(creator, settings)
        /\ registered = TRUE
        /\ sess = [c \in Conns |-> IF c = creator THEN 1 ELSE 0]
        /\ joining = {}
        /\ reply = [c \in Conns |-> <<>>]
        /\ outbox = [c \in Conns |-> <<>>]
        /\ view = [c \in Conns |-> IF c = creator THEN Inside(1, 1, 0) ELSE Outside]
        /\ missed = [c \in Conns |-> {}]
        /\ closed = {}
        /\ asked = 0
  BY DEF Init
<1>2. settings \in Settings
  BY SettingsChoicesAssumption
<1>3. /\ room \in RelayRoom /\ room.next = 2 /\ room.state = 0 /\ room.host = 1
      /\ Peers(room.clients) = {1} /\ room.clients[1].conn = creator /\ Peers(room.pending) = {}
  <2>1. room = CreatedBy(creator, settings)
    BY <1>1
  <2> QED
    BY <1>2, <2>1, CreatedRoom
<1>4. 1 \in PeerIds /\ 0 \in PeerIdOrNone /\ 1 \in PeerIdOrNone /\ 0 \in States
  BY MaxPeerIdAssumption, MaxBlobAssumption DEF PeerIds, PeerIdOrNone, States
<1>5. /\ Inside(1, 1, 0) \in View /\ Inside(1, 1, 0).in /\ Inside(1, 1, 0).peer = 1
      /\ Inside(1, 1, 0).host = 1 /\ Inside(1, 1, 0).state = 0 /\ Inside(1, 1, 0).roster = {}
      /\ Outside \in View /\ ~Outside.in /\ Outside.peer = 0
  BY <1>4 DEF Inside, Outside, View
<1>6. PICK none \in Seq(Message) : /\ none = <<>> /\ Types(none) = {} /\ Len(none) = 0
                                   /\ \A v : Read(v, none) = v
  BY Nothing, EmptySeq
<1>7. RelayTyped
  <2>1. IsFiniteSet(joining) /\ joining \in SUBSET Conns
    BY <1>1, FS_EmptySet
  <2>2. asked \in 0 .. MaxRequests
    BY <1>1, MaxRequestsAssumption
  <2>3. sess \in [Conns -> PeerIdOrNone] /\ view \in [Conns -> View]
    BY <1>1, <1>4, <1>5
  <2>4. outbox \in [Conns -> Seq(Message)] /\ reply \in [Conns -> Seq(Message)]
    BY <1>1, <1>6
  <2>5. missed \in [Conns -> SUBSET Gaps] /\ closed \in SUBSET Conns
        /\ registered \in BOOLEAN
    BY <1>1
  <2> QED
    BY <1>3, <2>1, <2>2, <2>3, <2>4, <2>5 DEF RelayTyped
<1>8. Bounded
  <2>1. \A c \in Conns : Len(outbox[c]) <= Capacity
    BY <1>1, <1>6, CapacityAssumption
  <2>2. Cardinality(joining) = 0
    BY <1>1, FS_EmptySet
  <2> QED
    BY <1>1, <1>3, <2>1, <2>2 DEF Bounded
<1>9. RoomFine(room)
  BY <1>3 DEF RoomFine, Occupied
<1>10. \A p, c : Sits(room, p, c) <=> p = 1 /\ c = creator
  BY <1>3 DEF Sits
<1>11. SeatsOwned
  BY <1>1, <1>10 DEF SeatsOwned
<1>12. \A c \in Conns : Asking(c)
  <2>1. Replying(none)
    BY <1>6 DEF Replying
  <2>2. \A c \in Conns : /\ reply[c] = none /\ c \notin joining /\ c \notin closed
                         /\ view[c] \in {Inside(1, 1, 0), Outside}
    BY <1>1, <1>6
  <2>3. \A c \in Conns : view[c].in <=> view[c].peer # 0
    BY <1>5, <2>2
  <2> QED
    BY <1>6, <2>1, <2>2, <2>3 DEF Asking
<1>13. ASSUME NEW c \in Conns
       PROVE  Knows(Told(c), room, c, sess[c], missed[c])
  <2>1. Told(c) = view[c]
    <3>1. none \o none = none
      BY <1>6, ConcatEmptySeq
    <3>2. outbox[c] = none /\ reply[c] = none
      BY <1>1, <1>6
    <3> QED
      BY <1>6, <3>1, <3>2 DEF Told
  <2>2. CASE c = creator
    <3>1. view[c] = Inside(1, 1, 0) /\ sess[c] = 1 /\ missed[c] = {}
      BY <1>1, <2>2
    <3>2. RosterFits({}, room, 1)
      BY <1>3 DEF RosterFits
    <3>3. Knows(Inside(1, 1, 0), room, c, 1, {})
      BY <1>3, <3>2 DEF Knows, Inside
    <3> QED
      BY <2>1, <3>1, <3>3
  <2>3. CASE c # creator
    <3>1. view[c] = Outside /\ sess[c] = 0
      BY <1>1, <2>3
    <3>2. Knows(Outside, room, c, 0, missed[c])
      BY <1>5, NoSeatZero
    <3> QED
      BY <2>1, <3>1, <3>2
  <2> QED
    BY <2>2, <2>3
<1> QED
  BY <1>7, <1>8, <1>9, <1>11, <1>12, <1>13 DEF RelayInv

\* A step that changes nothing.
LEMMA StutterInv ==
  ASSUME RelayInv, UNCHANGED vars
  PROVE  RelayInv'
<1>1. UNCHANGED <<room, registered, sess, joining, reply, outbox, view, missed, closed, asked>>
  BY DEF vars
<1>2. RelayTyped'
  BY <1>1 DEF RelayInv, RelayTyped
<1>3. Bounded'
  BY <1>1 DEF RelayInv, Bounded
<1>4. RoomFine(room)' /\ SeatsOwned'
  BY <1>1 DEF RelayInv, RoomFine, SeatsOwned, Occupied, Peers, Empty, Sits
<1>5. \A c \in Conns : Asking(c)'
  BY <1>1 DEF RelayInv, Asking
<1>6. \A c \in Conns \ closed' : Knows(Told(c), room, c, sess[c], missed[c])'
  <2>1. \A c \in Conns \ closed : Knows(Told(c)', room', c, sess'[c], missed'[c])
    <3>1. \A c : Told(c)' = Told(c)
      BY <1>1 DEF Told, Read
    <3> QED
      BY <1>1, <3>1 DEF RelayInv
  <2> QED
    BY <1>1, <2>1 DEF Knows, Sits, Peers, RosterFits
<1> QED
  BY <1>2, <1>3, <1>4, <1>5, <1>6 DEF RelayInv

\* Every step, one lemma each.
LEMMA NextInv ==
  ASSUME RelayInv, [Next]_vars
  PROVE  RelayInv'
<1>1. CASE UNCHANGED vars
  BY <1>1, StutterInv
<1>2. ASSUME NEW c \in Conns,
             \/ BeginHello(c) \/ Join(c) \/ JoinRefused(c) \/ Leave(c) \/ QueueReply(c)
             \/ Move(c) \/ RequestState(c)
             \/ \E type \in PeerRequests, p \in PeerIds : RoomControl(c, type, p)
             \/ \E type \in SettingsRequests, settings \in SettingsChoices :
                  SettingsControl(c, type, settings)
             \/ Abort(c)
             \/ Poll(c)
      PROVE  RelayInv'
  <2>1. CASE BeginHello(c)
    BY <2>1, BeginHelloInv
  <2>2. CASE Join(c)
    BY <2>2, JoinInv
  <2>3. CASE JoinRefused(c)
    BY <2>3, JoinRefusedInv
  <2>4. CASE Leave(c)
    BY <2>4, LeaveInv
  <2>5. CASE QueueReply(c)
    BY <2>5, QueueReplyInv
  <2>6. CASE Move(c)
    BY <2>6, MoveInv
  <2>7. CASE RequestState(c)
    BY <2>7, RequestStateInv
  <2>8. ASSUME NEW type \in PeerRequests, NEW p \in PeerIds, RoomControl(c, type, p)
        PROVE  RelayInv'
    BY <2>8, RoomControlInv
  <2>9. CASE Abort(c)
    BY <2>9, AbortInv
  <2>10. CASE Poll(c)
    BY <2>10, PollInv
  <2>11. ASSUME NEW type \in SettingsRequests, NEW settings \in SettingsChoices,
                SettingsControl(c, type, settings)
         PROVE  RelayInv'
    BY <2>11, SettingsControlInv
  <2> QED
    BY <1>2, <2>1, <2>2, <2>3, <2>4, <2>5, <2>6, <2>7, <2>8, <2>9, <2>10, <2>11
<1> QED
  BY <1>1, <1>2 DEF Next

\* What is under way, what clients believe and what they have missed agree with the room
\* in every reachable state.
THEOREM RelayInvariance == Spec => []RelayInv
<1>1. Init => RelayInv
  BY InitInv
<1>2. RelayInv /\ [Next]_vars => RelayInv'
  BY NextInv
<1> QED
  BY <1>1, <1>2, PTL DEF Spec

\* A settled client has been told all that its view will hold.
LEMMA SettledKnows ==
  ASSUME RelayInv, NEW c \in Conns, Settled(c)
  PROVE  Knows(view[c], room, c, sess[c], missed[c])
<1>1. PICK none \in Seq(Message) : none = <<>> /\ \A v : Read(v, none) = v
  BY Nothing
<1>2. none \o none = none
  BY <1>1, ConcatEmptySeq
<1>3. Told(c) = view[c]
  BY <1>1, <1>2 DEF Settled, Told
<1> QED
  BY <1>3 DEF RelayInv, Settled

\* The types are part of the invariant.
LEMMA RelayTypes ==
  ASSUME RelayInv
  PROVE  TypeOK
<1>1. [room EXCEPT !.state = NoConn] \in Room /\ room.state \in States
  BY DEF RelayInv, RelayTyped, RelayRoom, Room, PeerIdOrNone
<1>2. ASSUME NEW c \in Conns
      PROVE  /\ view[c] \in View /\ missed[c] \subseteq Gaps
             /\ Len(outbox[c]) <= Capacity
             /\ \A i \in DOMAIN outbox[c] : outbox[c][i] \in Message
             /\ \A i \in DOMAIN reply[c] : reply[c][i] \in Message
  <2>1. /\ view[c] \in View /\ missed[c] \subseteq Gaps /\ Len(outbox[c]) <= Capacity
        /\ outbox[c] \in Seq(Message) /\ reply[c] \in Seq(Message)
    BY DEF RelayInv, RelayTyped, Bounded
  <2>2. \A s \in Seq(Message) : \A i \in DOMAIN s : s[i] \in Message
    BY ElementOfSeq, LenProperties
  <2> QED
    BY <2>1, <2>2
<1> QED
  BY <1>1, <1>2 DEF RelayInv, RelayTyped, TypeOK

\* The variables keep to their types, whatever the members ask: no queue holds more than
\* its channel takes, and the room stays one (server/src/room/room.rs:24-51).
THEOREM TypeCorrectness == Spec => []TypeOK
<1>1. RelayInv => TypeOK
  BY RelayTypes
<1> QED
  BY <1>1, RelayInvariance, PTL

\* Once everything that a client sent and was sent has arrived, it shows the room of the
\* server's session under its peer id, unless its Joined was dropped, and no room without
\* a session, unless it gave up its seat while it showed the room or its Joined was still
\* on its way (dispatch.rs:40-49, 218-223 and 303-310, roomie_client.cpp:256-276 and
\* 636-644).
THEOREM ViewsMatchSessions == Spec => []ViewMatchesSession
<1>1. RelayInv => ViewMatchesSession
  BY SettledKnows DEF ViewMatchesSession, Got, Knows
<1> QED
  BY <1>1, RelayInvariance, PTL

\* An accepted client's session names its own seat.
LEMMA AcceptedSits ==
  ASSUME NEW c \in Conns, IsAccepted(c)
  PROVE  Sits(room, sess[c], c) /\ sess[c] \in Peers(room.clients)
BY DEF IsAccepted, Sits

\* An accepted client that was given every HostTransferred in order knows who hosts,
\* through leave, transfer and pruning (mod.rs:178-182 and 393-401).
THEOREM HostsAreKnown == Spec => []HostKnown
<1>1. RelayInv => HostKnown
  BY SettledKnows, AcceptedSits DEF HostKnown, Got, Knows
<1> QED
  BY <1>1, RelayInvariance, PTL

\* Whoever has a seat and was given its Joined and every StateUpdate in order has the state
\* of the room, pending clients included, unless the room's is empty: no client passes that
\* on (dispatch.rs:183-187 and 258-261, roomie_client.cpp:313-318).
THEOREM StatesAreKnown == Spec => []StateKnown
<1>1. RelayInv => StateKnown
  BY SettledKnows DEF StateKnown, Got, Knows
<1> QED
  BY <1>1, RelayInvariance, PTL

\* An accepted client that was given every announcement counts no peer that is gone, and
\* counts all those accepted with an id above its own (mod.rs:164-183 and 388-392,
\* dispatch.rs:208-216, 337-351 and 357-369).
THEOREM RostersAreKnown == Spec => []RosterKnown
<1>1. RelayInv => RosterKnown
  <2>1. ASSUME RelayInv, NEW c \in Conns, Settled(c), IsAccepted(c),
               Got(c, {"Joined", "PeerJoined", "PeerLeft"})
        PROVE  RosterFits(view[c].roster, room, sess[c]) /\ sess[c] \in Peers(room.clients)
    BY <2>1, SettledKnows, AcceptedSits DEF Got, Knows, IsAccepted
  <2> QED
    BY <2>1 DEF RosterKnown, RosterFits
<1> QED
  BY <1>1, RelayInvariance, PTL

=============================================================================
