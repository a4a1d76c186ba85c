\* A Hello between get_room and the room's lock, while the last peer leaves.
SPECIFICATION Spec
CONSTANTS
  Conns = {c1, c2, c3}
  Hashes = {h1}
  Codes = {k1}
  RoomIds = {r1, r2}
  NoConn = NoConn
  NoCode = NoCode
  NoSeat = NoSeat
  NoRoom = NoRoom
  NoSession = NoSession
  MaxPeerId = 4
  SideCap = 3
  MaxPlayerSet = {0, 1, 2}
  DefaultSettings <- OpenSettings
  SettingsChoices <- NoSettings
  Requests = {"Leave"}
  Crashable = {}
  Recycle = FALSE
SYMMETRY Symmetry
INVARIANTS
  SeatedRoomRegistered
