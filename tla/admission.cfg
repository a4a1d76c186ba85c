\* Five streams and two loops at a limit of two: refusals and both loops past the
\* limit at once happen.
SPECIFICATION Spec
CONSTANTS
  Streams = {s1, s2, s3, s4, s5}
  Loops = {tcp, ws}
  Tcp = tcp
  MaxConnections = 2
INVARIANTS
  TypeOK
  CountExact
  LimitHeld
PROPERTIES
  RefusedNearLimit
