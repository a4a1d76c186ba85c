\* Every announcement: the host leaves, transfers, evicts and is pruned, with a queue
\* that may fill.  A settled system may stay so: clients need not ask for anything.
SPECIFICATION Spec
CONSTANTS
  Conns = {c1, c2, c3}
  Hashes = {h1}
  Codes = {k1}
  NoConn = NoConn
  NoCode = NoCode
  NoSeat = NoSeat
  MaxPeerId = 5
  SideCap = 3
  MaxPlayerSet = {0, 2}
  SettingsChoices <- OpenOrWaiting
  HashOf <- OneHash
  Requests = {"Abort", "Hello", "Leave", "Move", "RequestState", "AcceptPeer", "DenyPeer", "Kick", "Ban", "TransferHost", "UpdateSettings", "SetPublic"}
  Capacity = 3
  MaxRequests = 3
  MaxBlob = 2
SYMMETRY Symmetry
CHECK_DEADLOCK FALSE
INVARIANTS
  TypeOK
  ViewMatchesSession
  HostKnown
  StateKnown
  RosterKnown
