\* Rooms come and go while tasks finish what they began; no join is refused. No
\* symmetry: a liveness property is checked.
SPECIFICATION FairSpec
CONSTANTS
  Conns = {c1, c2, c3}
  Hashes = {h1}
  Codes = {k1, k2}
  RoomIds = {r1, r2}
  NoConn = NoConn
  NoCode = NoCode
  NoSeat = NoSeat
  NoRoom = NoRoom
  NoSession = NoSession
  MaxPeerId = 3
  SideCap = 3
  MaxPlayerSet = {0, 1, 2}
  DefaultSettings <- OpenSettings
  SettingsChoices <- NoSettings
  Requests = {"Leave"}
  Crashable = {}
  Recycle = FALSE
INVARIANTS
  EmptyRoomAttended
PROPERTIES
  EmptyRoomReaped
