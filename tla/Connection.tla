----------------------------- MODULE Connection -----------------------------
(***************************************************************************)
(* One connection's task (handle_connection and handle_ws_connection of    *)
(* server/src/server/mod.rs): a select loop over incoming frames, the      *)
(* outgoing queue and the idle deadline.  The branch that is taken runs to *)
(* its end before the next select; only the one that writes can wait.      *)
(*                                                                         *)
(* Time is counted in ticks.  What a request does to rooms is RoomRegistry;*)
(* here it may queue messages for this connection.  Messages are counted,  *)
(* not told apart.                                                         *)
(***************************************************************************)
EXTENDS Naturals

CONSTANTS
  Capacity,     \* CHANNEL_CAPACITY
  IdleTimeout,  \* CONNECTION_IDLE_TIMEOUT, in ticks
  RateWindow,   \* RATE_LIMIT_WINDOW, in ticks
  RateMax       \* RATE_LIMIT_MAX

ASSUME CapacityAssumption == Capacity \in Nat \ {0}
ASSUME TimesAssumption == IdleTimeout \in Nat \ {0} /\ RateWindow \in Nat \ {0}
ASSUME RateMaxAssumption == RateMax \in Nat \ {0}

VARIABLES
  transport,  \* "tcp" or "ws": which of the two loops this is
  at,         \* where the task is
  queued,     \* messages in the channel
  idle,       \* ticks until idle_deadline; 0 when it has passed
  age,        \* ticks since rate_window_start; RateWindow means that many or more
  rate,       \* rate_count
  ages        \* history: ticks since the last frame counted, the one before it, ...

vars == <<transport, at, queued, idle, age, rate, ages>>

Ends == {"gone", "limited", "silent", "unencodable"}
Places == {"handshake", "select", "writing"} \cup Ends
Ended == at \in Ends

\* The frames whose age is kept; RateWindow means that many ticks or more, or no frame.
Latest == 1 .. 2 * RateMax + 1

Init ==
  /\ transport \in {"tcp", "ws"}
  /\ at = IF transport = "ws" THEN "handshake" ELSE "select"
  /\ queued = 0
  /\ idle = IF transport = "ws" THEN 0 ELSE IdleTimeout
  /\ age = 0
  /\ rate = 0
  /\ ages = [n \in Latest |-> RateWindow]

-----------------------------------------------------------------------------
(* The steps of the task.                                                  *)

\* accept_async has no deadline; channel, deadline and window are set up after it.
Upgrade ==
  /\ at = "handshake"
  /\ \/ at' = "select" /\ idle' = IdleTimeout
     \/ at' = "gone" /\ idle' = idle
  /\ age' = 0
  /\ UNCHANGED <<transport, queued, rate, ages>>

\* Mutant: the channel is unbounded.
EnqueuedUnbounded(n) == queued + n

\* A send to the own queue is try_send: what does not fit is dropped.
Enqueued(n) == IF queued + n > Capacity THEN Capacity ELSE queued + n

\* Mutant: when the window is over the count starts anew, but the window does not.
WindowNeverMoved == [rate |-> IF age >= RateWindow THEN 1 ELSE rate + 1, age |-> age]

\* The rate window after one more frame.
Window ==
  IF age >= RateWindow THEN [rate |-> 1, age |-> 0] ELSE [rate |-> rate + 1, age |-> age]

Counted ==
  /\ at = "select"
  /\ rate' = Window.rate
  /\ age' = Window.age
  /\ ages' = [n \in Latest |-> IF n = 1 THEN 0 ELSE ages[n - 1]]

\* The frame that passes the limit ends the connection unread.
Limited ==
  /\ Counted
  /\ rate' > RateMax
  /\ at' = "limited"
  /\ UNCHANGED <<transport, queued, idle>>

\* A frame that does not decode: an error is queued, the deadline stays.
Garbled ==
  /\ Counted
  /\ rate' <= RateMax
  /\ queued' = Enqueued(1)
  /\ UNCHANGED <<transport, at, idle>>

\* Mutant: the handler waits for room in the queue that only this task empties.
RequestWaiting ==
  /\ Counted
  /\ rate' <= RateMax
  /\ idle' = IdleTimeout
  /\ \E n \in 0 .. Capacity :
       /\ queued' = Enqueued(n)
       /\ at' = IF queued + n > Capacity THEN "waiting" ELSE at
  /\ UNCHANGED transport

\* A request: dispatch and its replies queue any number of messages for this client.
Request ==
  /\ Counted
  /\ rate' <= RateMax
  /\ idle' = IdleTimeout
  /\ \E n \in 0 .. Capacity : queued' = Enqueued(n)
  /\ UNCHANGED <<transport, at>>

\* WebSocket only: control messages do nothing, a frame of the wrong length queues an
\* error; neither counts for the rate limit or renews the deadline.
Uncounted ==
  /\ transport = "ws"
  /\ at = "select"
  /\ \E n \in {0, 1} : queued' = Enqueued(n)
  /\ UNCHANGED <<transport, at, idle, age, rate, ages>>

\* End of stream, a socket error, or (TCP) a frame above MAX_FRAME_LEN.
StreamEnds ==
  /\ at = "select"
  /\ at' = "gone"
  /\ UNCHANGED <<transport, queued, idle, age, rate, ages>>

\* The next message leaves the queue; one that does not encode ends the connection.
TakeMessage ==
  /\ at = "select"
  /\ queued > 0
  /\ queued' = queued - 1
  /\ at' \in {"writing", "unencodable"}
  /\ UNCHANGED <<transport, idle, age, rate, ages>>

\* The socket takes the message or fails; until then nothing else is polled.
Write ==
  /\ at = "writing"
  /\ at' \in {"select", "gone"}
  /\ UNCHANGED <<transport, queued, idle, age, rate, ages>>

\* Mutant: the deadline is only looked at when there is nothing to write.
SilenceWhenDrained ==
  /\ at = "select"
  /\ idle = 0
  /\ queued = 0
  /\ at' = "silent"
  /\ UNCHANGED <<transport, queued, idle, age, rate, ages>>

Silence ==
  /\ at = "select"
  /\ idle = 0
  /\ at' = "silent"
  /\ UNCHANGED <<transport, queued, idle, age, rate, ages>>

-----------------------------------------------------------------------------
(* What others do.                                                         *)

\* Another connection's handler sends to this one while its channel is open.
Deliver ==
  /\ ~Ended
  /\ at # "handshake"
  /\ queued' = Enqueued(1)
  /\ UNCHANGED <<transport, at, idle, age, rate, ages>>

\* An age one tick later.
Older(a) == IF a = RateWindow THEN RateWindow ELSE a + 1

Tick ==
  /\ ~Ended
  /\ idle' = IF idle = 0 THEN 0 ELSE idle - 1
  /\ age' = Older(age)
  /\ ages' = [n \in Latest |-> Older(ages[n])]
  /\ UNCHANGED <<transport, at, queued, rate>>

Terminated == Ended /\ UNCHANGED vars

Next ==
  \/ Upgrade \/ Limited \/ Garbled \/ Request \/ Uncounted \/ StreamEnds
  \/ TakeMessage \/ Write \/ Silence
  \/ Deliver \/ Tick
  \/ Terminated

Spec == Init /\ [][Next]_vars

\* Time passes.  tokio::select! polls its branches in random order, so one that is
\* ready at every other select is taken in the end, however busy the others are.
Fairness == WF_vars(Tick) /\ SF_vars(TakeMessage) /\ SF_vars(Silence)
FairSpec == Spec /\ Fairness

\* The peer completes its handshake or breaks it off, and (draining) it reads what it
\* is sent, or the socket reports an error.  Nothing in the server enforces either.
DrainingSpec == FairSpec /\ WF_vars(Upgrade) /\ WF_vars(Write)

-----------------------------------------------------------------------------
(* Properties.                                                             *)

\* The variables keep to their types; the queue and the frames counted are bounded.
TypeOK ==
  /\ transport \in {"tcp", "ws"}
  /\ at \in Places
  /\ queued \in 0 .. Capacity
  /\ idle \in 0 .. IdleTimeout
  /\ age \in 0 .. RateWindow
  /\ rate \in 0 .. RateMax + 1
  /\ ages \in [Latest -> 0 .. RateWindow]

\* In any stretch of the window's length at most twice the limit is let through (the
\* window is fixed, not sliding: mod.rs:322-330), and a client is only cut off for its
\* rate if it did send more than the limit within the last stretch.
RateJudged ==
  /\ ~Ended => ages[2 * RateMax + 1] = RateWindow
  /\ at = "limited" => ages[RateMax + 1] < RateWindow

\* What makes RateJudged inductive: the last rate frames are those of the window under
\* way, the RateMax before them at most those of the last window that had any, and the
\* others are older than that one.
FramesInWindows ==
  /\ rate > RateMax => age < RateWindow
  /\ rate > RateMax <=> at = "limited"
  /\ at = "handshake" => rate = 0 /\ \A n \in Latest : ages[n] = RateWindow
  /\ \A n \in Latest : /\ n <= rate => ages[n] <= age
                       /\ n > rate => ages[n] >= age
                       /\ n > rate + RateMax => ages[n] = RateWindow

\* The inductive invariant (proved in Connection_proofs).
RateInv == TypeOK /\ FramesInWindows

\* A full queue is written out further, though the task itself fills it (replies are
\* sent with try_send, mod.rs:341-346).
FullQueueMoves == queued = Capacity ~> queued < Capacity \/ Ended

\* A connection whose peer sends no request any more is closed ("closes connections
\* that send no frames within this period", mod.rs:29): it is always either renewed
\* again, or ended.
RenewedOrClosed == []<>(idle = IdleTimeout \/ Ended)

=============================================================================
