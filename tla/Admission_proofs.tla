-------------------------- MODULE Admission_proofs --------------------------
(***************************************************************************)
(* The connection limit holds for every number of streams and accept       *)
(* loops.  CountExact makes the counter at least as large as the number of *)
(* connections, live or about to be; a loop that read a count below the    *)
(* limit therefore leaves room for its own.                                *)
(***************************************************************************)
EXTENDS Admission, FiniteSetTheorems, TLAPS

\* A stream is with one loop or with one connection, so admitting it adds one to
\* the connections.
StreamsApart ==
  \A l \in Deciding :
    /\ loop[l].stream \notin live
    /\ \A k \in Deciding : loop[k].stream = loop[l].stream => k = l

Inv == TypeOK /\ CountExact /\ LimitHeld /\ StreamsApart

\* The sets that the invariants count are finite.
LEMMA FiniteCounts ==
  ASSUME TypeOK
  PROVE  /\ IsFiniteSet(live) /\ Cardinality(live) \in Nat
         /\ IsFiniteSet(Deciding) /\ Cardinality(Deciding) \in Nat
         /\ IsFiniteSet(Admitting) /\ Cardinality(Admitting) \in Nat
         /\ Cardinality(Admitting) <= Cardinality(Deciding)
<1>1. live \in SUBSET Streams /\ Deciding \in SUBSET Loops /\ Admitting \in SUBSET Deciding
  BY DEF TypeOK, Deciding, Admitting
<1>2. IsFiniteSet(live) /\ IsFiniteSet(Deciding)
  BY <1>1, FS_Subset, StreamsAssumption, LoopsAssumption
<1>3. IsFiniteSet(Admitting) /\ Cardinality(Admitting) <= Cardinality(Deciding)
  BY <1>1, <1>2, FS_Subset
<1> QED
  BY <1>2, <1>3, FS_CardinalityType

\* A loop that takes a stream joins the deciding loops.
LEMMA AcceptStep ==
  ASSUME Inv, NEW l \in Loops, NEW s \in Streams, Accept(l, s)
  PROVE  Inv'
<1> USE DEF Inv
<1>1. TypeOK'
  BY DEF TypeOK, Accept, Counted, LoopState, Accepting
<1>2. l \notin Deciding /\ Deciding' = Deciding \cup {l}
  BY DEF TypeOK, Accept, Counted, Deciding, Accepting
<1>3. l \notin Admitting /\ Admitting' = IF count < MaxConnections THEN Admitting \cup {l}
                                                                  ELSE Admitting
  BY <1>2 DEF TypeOK, Accept, Counted, Admitting, Deciding, Accepting
<1>4. Cardinality(Deciding') = Cardinality(Deciding) + 1
  BY <1>2, FiniteCounts, FS_AddElement
<1>5. CountExact'
  BY <1>4, FiniteCounts DEF CountExact, Accept, TypeOK
<1>8. StreamsApart'
  BY <1>2 DEF StreamsApart, TypeOK, Accept, IsNew, Deciding, Counted, Accepting
<1>6. CASE count < MaxConnections
  <2>1. Cardinality(Admitting') = Cardinality(Admitting) + 1
    BY <1>3, <1>6, FiniteCounts, FS_AddElement
  <2> QED
    BY <2>1, <1>1, <1>5, <1>6, <1>8, FiniteCounts, MaxConnectionsAssumption
    DEF LimitHeld, CountExact, Accept, TypeOK
<1>7. CASE ~(count < MaxConnections)
  BY <1>1, <1>3, <1>5, <1>7, <1>8 DEF LimitHeld, Accept
<1> QED
  BY <1>6, <1>7

\* A loop that decides leaves the deciding loops; if it admits, its place is taken
\* by the connection.
LEMMA DecideStep ==
  ASSUME Inv, NEW l \in Loops, Admit(l) \/ Refuse(l)
  PROVE  Inv'
<1> USE DEF Inv
<1>1. loop' \in [Loops -> LoopState]
  BY DEF TypeOK, Admit, Refuse, LoopState, Accepting
<1>2. l \in Deciding /\ loop[l].stream \in Streams /\ loop[l].prev \in Nat
  BY DEF TypeOK, Admit, Refuse, Deciding, LoopState, Accepting, Stopped
<1>3. Deciding' = Deciding \ {l}
  BY DEF TypeOK, Admit, Refuse, Deciding, Accepting
<1>4. Admitting' = Admitting \ {l}
  BY <1>3 DEF TypeOK, Admit, Refuse, Admitting, Deciding, Accepting
<1>5. Cardinality(Deciding') = Cardinality(Deciding) - 1
  BY <1>2, <1>3, FiniteCounts, FS_RemoveElement
<1>6. StreamsApart'
  BY <1>2, <1>3 DEF StreamsApart, TypeOK, Admit, Refuse, Deciding, Accepting
<1>7. CASE Admit(l)
  <2>1. l \in Admitting
    BY <1>2, <1>7 DEF Admit, Admitting
  <2>2. Cardinality(Admitting') = Cardinality(Admitting) - 1
    BY <2>1, <1>4, FiniteCounts, FS_RemoveElement
  <2>3. live' = live \cup {loop[l].stream} /\ loop[l].stream \notin live
    BY <1>2, <1>7 DEF Admit, StreamsApart
  <2>4. Cardinality(live') = Cardinality(live) + 1
    BY <2>3, FiniteCounts, FS_AddElement
  <2>5. TypeOK' /\ count' = count
    BY <1>1, <1>2, <1>7 DEF TypeOK, Admit
  <2>6. CountExact' /\ LimitHeld'
    BY <1>5, <2>2, <2>4, <2>5, FiniteCounts, MaxConnectionsAssumption
    DEF CountExact, LimitHeld, TypeOK
  <2> QED
    BY <2>5, <2>6, <1>6
<1>8. CASE Refuse(l)
  <2>1. l \notin Admitting /\ Admitting' = Admitting
    BY <1>2, <1>4, <1>8, MaxConnectionsAssumption DEF Refuse, Admitting
  <2>2. live' = live /\ count' = count - 1
    BY <1>8 DEF Refuse
  <2>3. Cardinality(Deciding') \in Nat
    BY <1>3, FiniteCounts, FS_RemoveElement, FS_CardinalityType
  <2>4. Cardinality(live') = Cardinality(live)
        /\ Cardinality(Admitting') = Cardinality(Admitting)
    BY <2>1, <2>2
  <2>5. CountExact' /\ count' \in Nat
    BY <1>5, <2>2, <2>3, <2>4, FiniteCounts DEF CountExact, TypeOK
  <2>6. LimitHeld'
    BY <2>4 DEF LimitHeld
  <2> QED
    BY <1>1, <1>6, <2>2, <2>5, <2>6 DEF TypeOK
<1> QED
  BY <1>7, <1>8

\* The guard of a connection takes back what its loop added.
LEMMA EndStep ==
  ASSUME Inv, NEW s \in Streams, End(s)
  PROVE  Inv'
<1> USE DEF Inv
<1>1. Cardinality(live') = Cardinality(live) - 1
  BY FiniteCounts, FS_RemoveElement DEF End
<1>2. Deciding' = Deciding /\ Admitting' = Admitting
  BY DEF End, Deciding, Admitting
<1>3. CountExact' /\ LimitHeld' /\ count' \in Nat
  <2>1. count' = count - 1 /\ Cardinality(live') \in Nat
    BY <1>1, FiniteCounts, FS_RemoveElement, FS_CardinalityType DEF End
  <2>2. Cardinality(Admitting') = Cardinality(Admitting)
        /\ Cardinality(Deciding') = Cardinality(Deciding)
    BY <1>2
  <2> QED
    BY <1>1, <2>1, <2>2, FiniteCounts, MaxConnectionsAssumption
    DEF CountExact, LimitHeld, TypeOK
<1>4. StreamsApart'
  BY <1>2 DEF StreamsApart, End
<1> QED
  BY <1>3, <1>4 DEF TypeOK, End

\* Stopping an accept loop touches neither the counter nor the connections.
LEMMA ShutdownStep ==
  ASSUME Inv, NEW l \in Loops, Shutdown(l)
  PROVE  Inv'
<1>1. Deciding' = Deciding /\ Admitting' = Admitting
  BY DEF Inv, TypeOK, Shutdown, Deciding, Admitting, Accepting, Stopped
<1> QED
  BY <1>1 DEF Inv, TypeOK, CountExact, LimitHeld, StreamsApart, Shutdown, LoopState,
              Deciding, Accepting, Stopped

\* The server starts with no connection and an idle counter.
LEMMA InitInv == Init => Inv
<1> SUFFICES ASSUME Init PROVE Inv
  OBVIOUS
<1>1. Deciding = {} /\ Admitting = {} /\ live = {}
  BY DEF Init, Deciding, Admitting, Accepting
<1>2. Cardinality(Deciding) = 0 /\ Cardinality(Admitting) = 0 /\ Cardinality(live) = 0
  BY <1>1, FS_EmptySet
<1> QED
  BY <1>1, <1>2, MaxConnectionsAssumption
  DEF Init, Inv, TypeOK, CountExact, LimitHeld, StreamsApart, LoopState

\* Every step of the server preserves the invariant.
LEMMA NextInv == Inv /\ [Next]_vars => Inv'
<1> SUFFICES ASSUME Inv, [Next]_vars PROVE Inv'
  OBVIOUS
<1>1. CASE UNCHANGED vars
  BY <1>1 DEF Inv, TypeOK, CountExact, LimitHeld, StreamsApart, Deciding, Admitting, vars
<1>2. CASE Terminated
  BY <1>1, <1>2 DEF Terminated
<1> QED
  BY <1>1, <1>2, AcceptStep, DecideStep, EndStep, ShutdownStep DEF Next

\* The inductive invariant of the admission counter (mod.rs:91-106 and 121-135).
THEOREM Invariance == Spec => []Inv
  BY InitInv, NextInv, PTL DEF Spec

\* Loops and connections keep to their states, and the counter, a usize, does not fall
\* below zero: whoever lowers it has raised it before (mod.rs:49 and 91-96).
THEOREM TypeCorrectness == Spec => []TypeOK
  BY Invariance, PTL DEF Inv

\* The atomic counter equals the connections plus the streams being decided, so it
\* never wraps below zero and leaks no place (mod.rs:46-51).
THEOREM CountIsExact == Spec => []CountExact
  BY Invariance, PTL DEF Inv

\* However the two accept loops race, MAX_CONNECTIONS is never exceeded
\* (mod.rs:91-96 and 121-126).
THEOREM LimitIsHeld == Spec => []LimitHeld
  BY Invariance, PTL DEF Inv

\* A loop that is not deciding leaves at most one less than all of them deciding.
LEMMA OthersDeciding ==
  ASSUME TypeOK, NEW l \in Loops, loop[l] = Accepting
  PROVE  Cardinality(Deciding) < Cardinality(Loops)
<1>1. l \notin Deciding /\ Deciding \in SUBSET Loops
  BY DEF Deciding, Accepting
<1>2. Deciding \in SUBSET (Loops \ {l})
  BY <1>1
<1>3. /\ IsFiniteSet(Loops \ {l})
      /\ Cardinality(Loops \ {l}) = Cardinality(Loops) - 1
  BY LoopsAssumption, FS_RemoveElement
<1>4. Cardinality(Deciding) <= Cardinality(Loops \ {l})
  BY <1>2, <1>3, FS_Subset
<1> QED
  BY <1>3, <1>4, FiniteCounts, LoopsAssumption, FS_CardinalityType

\* A refusal short of the limit is off by at most the number of other loops
\* (mod.rs:91-95: the counter is raised before it is compared).
THEOREM RefusalIsNearLimit == Spec => RefusedNearLimit
<1>1. ASSUME Inv, [Next]_vars,
             NEW l \in Loops, loop[l] = Accepting,
             loop'[l].at = "counted", loop'[l].prev >= MaxConnections
      PROVE  Cardinality(live) + Cardinality(Loops) > MaxConnections
  <2>1. loop'[l].prev = count
    <3>1. CASE \E s \in Streams : Accept(l, s)
      BY <1>1, <3>1 DEF Inv, TypeOK, Accept, Counted
    <3>2. CASE ~\E s \in Streams : Accept(l, s)
      <4>1. loop'[l] = loop[l] \/ loop'[l] = Accepting \/ loop'[l] = Stopped
        BY <1>1, <3>2 DEF Inv, TypeOK, Next, vars, Accept, Admit, Refuse, End, Shutdown,
                          Terminated
      <4> QED
        BY <1>1, <4>1 DEF Accepting, Stopped
    <3> QED
      BY <3>1, <3>2
  <2>2. Cardinality(Deciding) < Cardinality(Loops) /\ Cardinality(Loops) \in Nat
    BY <1>1, OthersDeciding, LoopsAssumption, FS_CardinalityType DEF Inv
  <2>3. count >= MaxConnections
    BY <1>1, <2>1
  <2> QED
    BY <1>1, <2>2, <2>3, FiniteCounts, MaxConnectionsAssumption
    DEF Inv, CountExact, TypeOK
<1>2. Inv /\ [Next]_vars =>
        [\A l \in Loops :
           loop[l] = Accepting /\ loop'[l].at = "counted" /\ loop'[l].prev >= MaxConnections
             => Cardinality(live) + Cardinality(Loops) > MaxConnections]_vars
  BY <1>1
<1> QED
  BY <1>2, Invariance, PTL DEF Spec, RefusedNearLimit

=============================================================================
