\* Four sockets: one that is closed late, its successor, and those that callbacks open
\* in between.  Two frames, before and after the handshake.
SPECIFICATION FairSpec
CONSTANTS
  MaxSockets = 4
  MaxFrames = 2
  MaxUnread = 1
CHECK_DEADLOCK FALSE
INVARIANTS
  StreamsApart
PROPERTIES
  GivenUpWithCause
  QueueFlushed
