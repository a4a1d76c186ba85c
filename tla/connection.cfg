\* Queues of three, a limit of three frames in three ticks, four ticks of silence: both
\* loops, with queues that fill up, windows that expire between frames and deadlines
\* that pass while a message is being written.
SPECIFICATION DrainingSpec
CONSTANTS
  Capacity = 3
  IdleTimeout = 4
  RateWindow = 3
  RateMax = 3
INVARIANTS
  TypeOK
  RateJudged
PROPERTIES
  FullQueueMoves
  RenewedOrClosed
