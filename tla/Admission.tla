----------------------------- MODULE Admission -----------------------------
(***************************************************************************)
(* The connection limit of server/src/server/mod.rs: two accept loops (TCP *)
(* and WebSocket) share one atomic counter with the connections' guards.   *)
(* A loop takes a stream and adds one to the counter in a single atomic    *)
(* step, then decides by the value it got back; nothing locks the counter  *)
(* meanwhile.                                                              *)
(***************************************************************************)
EXTENDS Naturals, FiniteSets

CONSTANTS
  Streams,        \* streams that clients open; each is accepted at most once at a time
  Loops,          \* the accept loops: TCP, and WebSocket when it is configured
  Tcp,            \* the loop that also watches for ctrl-c
  MaxConnections  \* MAX_CONNECTIONS

ASSUME StreamsAssumption == IsFiniteSet(Streams)
ASSUME LoopsAssumption == IsFiniteSet(Loops) /\ Tcp \in Loops
ASSUME MaxConnectionsAssumption == MaxConnections \in Nat \ {0}

VARIABLES
  count,   \* conn_count
  live,    \* the streams that have a connection task, and so a guard
  loop     \* loop[l]: where accept loop l is

vars == <<count, live, loop>>

Accepting == [at |-> "accepting"]
Stopped == [at |-> "stopped"]
Counted(s, prev) == [at |-> "counted", stream |-> s, prev |-> prev]

LoopState == {Accepting, Stopped} \cup [at : {"counted"}, stream : Streams, prev : Nat]

\* The loops between fetch_add and their decision.
Deciding == {l \in Loops : loop[l].at = "counted"}

Init ==
  /\ count = 0
  /\ live = {}
  /\ loop = [l \in Loops |-> Accepting]

\* A stream that no task and no loop has.
IsNew(s) ==
  /\ s \notin live
  /\ \A l \in Deciding : loop[l].stream # s

\* accept returns a stream and fetch_add the count before it.
Accept(l, s) ==
  /\ loop[l] = Accepting
  /\ IsNew(s)
  /\ loop' = [loop EXCEPT ![l] = Counted(s, count)]
  /\ count' = count + 1
  /\ UNCHANGED live

\* Mutant: one connection too many.
AdmitOneMore(l) ==
  /\ loop[l].at = "counted"
  /\ loop[l].prev <= MaxConnections
  /\ live' = live \cup {loop[l].stream}
  /\ loop' = [loop EXCEPT ![l] = Accepting]
  /\ UNCHANGED count

Admit(l) ==
  /\ loop[l].at = "counted"
  /\ loop[l].prev < MaxConnections
  /\ live' = live \cup {loop[l].stream}
  /\ loop' = [loop EXCEPT ![l] = Accepting]
  /\ UNCHANGED count

\* Mutant: a refused stream stays counted.
RefuseStillCounted(l) ==
  /\ loop[l].at = "counted"
  /\ loop[l].prev >= MaxConnections
  /\ loop' = [loop EXCEPT ![l] = Accepting]
  /\ UNCHANGED <<count, live>>

Refuse(l) ==
  /\ loop[l].at = "counted"
  /\ loop[l].prev >= MaxConnections
  /\ count' = count - 1
  /\ loop' = [loop EXCEPT ![l] = Accepting]
  /\ UNCHANGED live

\* Mutant: a guard may be released while its task still runs, and again at its end.
EndTwice(s) ==
  /\ s \in live
  /\ count' = count - 1
  /\ live' \in {live, live \ {s}}
  /\ UNCHANGED loop

\* The task of a connection ends, in whatever way, and its guard is dropped.
End(s) ==
  /\ s \in live
  /\ live' = live \ {s}
  /\ count' = count - 1
  /\ UNCHANGED loop

\* ctrl-c is polled together with accept; the runtime then drops the other loop
\* where it awaits.
Shutdown(l) ==
  /\ loop[l] = Accepting
  /\ l = Tcp \/ loop[Tcp] = Stopped
  /\ loop' = [loop EXCEPT ![l] = Stopped]
  /\ UNCHANGED <<count, live>>

Terminated ==
  /\ live = {}
  /\ \A l \in Loops : loop[l] = Stopped
  /\ UNCHANGED vars

Next ==
  \/ \E l \in Loops : Shutdown(l) \/ Admit(l) \/ Refuse(l) \/ \E s \in Streams : Accept(l, s)
  \/ \E s \in Streams : End(s)
  \/ Terminated

Spec == Init /\ [][Next]_vars

-----------------------------------------------------------------------------
(* Properties.                                                             *)

TypeOK ==
  /\ count \in Nat
  /\ live \subseteq Streams
  /\ loop \in [Loops -> LoopState]

\* The counter is exactly the connections and the streams being decided: it never
\* goes below zero (an AtomicUsize would wrap, mod.rs:49 and 93) and forgets nobody.
CountExact == count = Cardinality(live) + Cardinality(Deciding)

\* The loops that will admit their stream.
Admitting == {l \in Deciding : loop[l].prev < MaxConnections}

\* Never more than MAX_CONNECTIONS tasks, counting those about to be spawned,
\* although the counter itself passes the limit (mod.rs:91-96 and 121-126).
LimitHeld == Cardinality(live) + Cardinality(Admitting) <= MaxConnections

\* A stream is refused only if, when it was counted, all but as many places were
\* taken as there are other loops: the price of adding before looking.
RefusedNearLimit ==
  [][\A l \in Loops :
       loop[l] = Accepting /\ loop'[l].at = "counted" /\ loop'[l].prev >= MaxConnections
         => Cardinality(live) + Cardinality(Loops) > MaxConnections]_vars

=============================================================================
