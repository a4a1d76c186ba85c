-------------------------- MODULE Connection_proofs --------------------------
(***************************************************************************)
(* The types of Connection and RateJudged, for every capacity, timeout,    *)
(* window and limit.  Only the steps that count a frame, and time, touch   *)
(* what the rate is judged by.                                             *)
(***************************************************************************)
EXTENDS Connection, TLAPS

USE CapacityAssumption, TimesAssumption, RateMaxAssumption

\* The queue keeps within its capacity.
LEMMA EnqueuedFits ==
  ASSUME queued \in 0 .. Capacity, NEW n \in Nat
  PROVE  Enqueued(n) \in 0 .. Capacity
BY DEF Enqueued

\* A frame that is counted: in the window under way, or as the first of a new one.
LEMMA CountedFrame ==
  ASSUME RateInv, Counted
  PROVE  /\ rate' \in 0 .. RateMax + 1 /\ age' \in 0 .. RateWindow
         /\ ages' \in [Latest -> 0 .. RateWindow]
         /\ rate' > RateMax => age' < RateWindow
         /\ \A n \in Latest : /\ n <= rate' => ages'[n] <= age'
                              /\ n > rate' => ages'[n] >= age'
                              /\ n > rate' + RateMax => ages'[n] = RateWindow
<1>1. /\ at = "select" /\ rate \in 0 .. RateMax /\ age \in 0 .. RateWindow
      /\ ages \in [Latest -> 0 .. RateWindow]
  BY DEF Counted, RateInv, TypeOK, FramesInWindows
<1>2. \A n \in Latest : /\ n \in Nat
                        /\ n # 1 => n - 1 \in Latest /\ n - 1 < n
                        /\ ages'[n] = IF n = 1 THEN 0 ELSE ages[n - 1]
  BY DEF Counted, Latest
<1>3. ages' \in [Latest -> 0 .. RateWindow]
  BY <1>1, <1>2 DEF Counted
<1>4. CASE age >= RateWindow
  <2>1. rate' = 1 /\ age' = 0 /\ age = RateWindow
    BY <1>1, <1>4 DEF Counted, Window
  <2>2. \A n \in Latest : n > 1 + RateMax => ages'[n] = RateWindow
    <3>1. \A m \in Latest : m > rate => ages[m] >= RateWindow
      BY <2>1 DEF RateInv, FramesInWindows
    <3> QED
      BY <1>1, <1>2, <3>1
  <2> QED
    BY <1>2, <1>3, <2>1, <2>2
<1>5. CASE ~(age >= RateWindow)
  <2>1. rate' = rate + 1 /\ age' = age /\ age < RateWindow
    BY <1>1, <1>5 DEF Counted, Window
  <2>2. \A m \in Latest : /\ m <= rate => ages[m] <= age
                          /\ m > rate => ages[m] >= age
                          /\ m > rate + RateMax => ages[m] = RateWindow
    BY DEF RateInv, FramesInWindows
  <2> QED
    BY <1>1, <1>2, <1>3, <2>1, <2>2
<1> QED
  BY <1>4, <1>5

\* The connection is set up, and its first window begins.
LEMMA InitInv == Init => RateInv
BY DEF Init, RateInv, TypeOK, FramesInWindows, Places, Latest

\* Every step of the task and of others preserves the invariant.
LEMMA NextInv == RateInv /\ [Next]_vars => RateInv'
<1> SUFFICES ASSUME RateInv, [Next]_vars PROVE RateInv'
  OBVIOUS
<1>1. CASE Upgrade
  BY <1>1 DEF Upgrade, RateInv, TypeOK, FramesInWindows, Places, Ends, Latest
<1>2. CASE Limited
  BY <1>2, CountedFrame DEF Limited, RateInv, TypeOK, FramesInWindows, Places, Ends
<1>3. CASE Garbled
  BY <1>3, CountedFrame, EnqueuedFits DEF Garbled, RateInv, TypeOK, FramesInWindows, Counted
<1>4. CASE Request
  BY <1>4, CountedFrame, EnqueuedFits DEF Request, RateInv, TypeOK, FramesInWindows, Counted
<1>5. CASE Uncounted \/ Deliver
  BY <1>5, EnqueuedFits DEF Uncounted, Deliver, RateInv, TypeOK, FramesInWindows
<1>6. CASE StreamEnds \/ Write \/ Silence
  BY <1>6 DEF StreamEnds, Write, Silence, RateInv, TypeOK, FramesInWindows, Places, Ends
<1>7. CASE TakeMessage
  BY <1>7 DEF TakeMessage, RateInv, TypeOK, FramesInWindows, Places, Ends
<1>8. CASE Tick
  <2>1. \A a \in 0 .. RateWindow : /\ Older(a) \in 0 .. RateWindow
                                   /\ Older(a) >= a
                                   /\ \A b \in 0 .. RateWindow : a <= b => Older(a) <= Older(b)
                                   /\ a = RateWindow => Older(a) = RateWindow
    BY DEF Older
  <2>2. /\ at # "limited" /\ at' = at /\ rate' = rate /\ age' = Older(age)
        /\ \A n \in Latest : ages'[n] = Older(ages[n])
    BY <1>8 DEF Tick, Ended, Ends
  <2>3. TypeOK'
    BY <1>8, <2>1 DEF Tick, RateInv, TypeOK
  <2>4. /\ age \in 0 .. RateWindow
        /\ \A n \in Latest : ages[n] \in 0 .. RateWindow
    BY DEF RateInv, TypeOK
  <2>5. FramesInWindows'
    BY <2>1, <2>2, <2>4 DEF RateInv, FramesInWindows
  <2> QED
    BY <2>3, <2>5 DEF RateInv
<1>9. CASE UNCHANGED vars
  BY <1>9 DEF vars, RateInv, TypeOK, FramesInWindows
<1> QED
  BY <1>1, <1>2, <1>3, <1>4, <1>5, <1>6, <1>7, <1>8, <1>9 DEF Next, Terminated

\* The inductive invariant of a connection's queue, deadline and rate.
THEOREM RateInvariance == Spec => []RateInv
  BY InitInv, NextInv, PTL DEF Spec

\* The queue never holds more than CHANNEL_CAPACITY messages, and the count of frames
\* never gets past the one that ends the connection (mod.rs:322-346).
THEOREM TypeCorrectness == Spec => []TypeOK
  BY RateInvariance, PTL DEF RateInv

\* However frames fall into windows, a client gets at most twice the limit through in
\* any stretch of one window, and is only cut off if it sent more than the limit in the
\* last one (mod.rs:243-248 and 322-330).
THEOREM RateIsJudged == Spec => []RateJudged
<1>1. RateInv => RateJudged
  <2> SUFFICES ASSUME RateInv PROVE RateJudged
    OBVIOUS
  <2>1. 2 * RateMax + 1 \in Latest /\ RateMax + 1 \in Latest /\ rate \in 0 .. RateMax + 1
    BY DEF Latest, RateInv, TypeOK
  <2>2. ~Ended => rate <= RateMax
    BY <2>1 DEF RateInv, FramesInWindows, Ended, Ends
  <2>3. ~Ended => ages[2 * RateMax + 1] = RateWindow
    BY <2>1, <2>2 DEF RateInv, FramesInWindows
  <2>4. at = "limited" => ages[RateMax + 1] < RateWindow
    <3>1. ages[RateMax + 1] \in Nat /\ age \in Nat
      BY <2>1 DEF RateInv, TypeOK
    <3> QED
      BY <2>1, <3>1 DEF RateInv, FramesInWindows
  <2> QED
    BY <2>3, <2>4 DEF RateJudged
<1> QED
  BY <1>1, RateInvariance, PTL

=============================================================================
