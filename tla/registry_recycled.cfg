\* Codes are drawn again and the two peer ids of a room run out. Of the two room
\* objects one can be an orphan beside a new room under its old code.
SPECIFICATION Spec
CONSTANTS
  Conns = {c1, c2, c3}
  Hashes = {h1}
  Codes = {k1, k2}
  RoomIds = {r1, r2}
  NoConn = NoConn
  NoCode = NoCode
  NoSeat = NoSeat
  NoRoom = NoRoom
  NoSession = NoSession
  MaxPeerId = 2
  SideCap = 3
  MaxPlayerSet = {0}
  DefaultSettings <- WaitingSettings
  SettingsChoices <- NoSettings
  Requests = {"Leave", "AcceptPeer", "DenyPeer", "Kick"}
  Crashable = {}
  Recycle = TRUE
SYMMETRY Symmetry
INVARIANTS
  TypeOK
  SeatOwned
  OneSeat
PROPERTIES
  NoRoomLost
  Implements
