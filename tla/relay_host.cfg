\* The queue is never full in this instance.
SPECIFICATION Spec
CONSTANTS
  Conns = {c1, c2, c3}
  Hashes = {h1}
  Codes = {k1}
  NoConn = NoConn
  NoCode = NoCode
  NoSeat = NoSeat
  MaxPeerId = 5
  SideCap = 3
  MaxPlayerSet = {0, 2}
  SettingsChoices <- OpenOrWaiting
  HashOf <- OneHash
  Requests = {"Hello", "AcceptPeer", "TransferHost"}
  Capacity = 12
  MaxRequests = 3
  MaxBlob = 1
SYMMETRY Symmetry
CHECK_DEADLOCK FALSE
INVARIANTS
  HostShown
