\* One room, at first of at most two, whose host admits, denies, kicks, bans, hands over
\* and locks it, lowering max_players to one and admitting without asking; every task
\* may be dropped.  MaxPeerId bounds the joins: ids up to 3 are given, and a client can
\* be evicted, come back under a new id and meet its own old session's requests.
SPECIFICATION Spec
CONSTANTS
  Conns = {c1, c2, c3}
  Hashes = {h1}
  Codes = {k1}
  RoomIds = {r1}
  NoConn = NoConn
  NoCode = NoCode
  NoSeat = NoSeat
  NoRoom = NoRoom
  NoSession = NoSession
  MaxPeerId = 4
  SideCap = 3
  MaxPlayerSet = {0, 1, 2}
  DefaultSettings <- ClosedSettings
  SettingsChoices <- LockingSettings
  Requests = {"Leave", "Move", "UpdateSettings", "SetPublic", "AcceptPeer", "DenyPeer", "Kick", "Ban", "TransferHost"}
  Crashable = {c1, c2, c3}
  Recycle = FALSE
SYMMETRY Symmetry
INVARIANTS
  SessionsDistinct
  SidesDistinct
PROPERTIES
  EvictionJustified
  StateFromHostSeat
  HostHandedOver
  OverfullNeverGrows
