\* Two connections and the statistics, three requests in all, over two shards of either
\* kind; the file of either app may be missing at first, appear or go.
SPECIFICATION FairSpec
CONSTANTS
  pong = pong
  sphere = sphere
  r1 = r1
  r2 = r2
  Apps = {pong, sphere}
  Builtin = {pong}
  Contents = {x}
  BuiltinSettings = BuiltinSettings
  NoLimits = NoLimits
  Unset = Unset
  MaxEdits = 1
  Conns = {c1, c2}
  Watchers = {w1}
  RoomIds = {r1, r2}
  RegShards = 2
  PoolShards = 2
  RegShardOf <- InOrder
  ShardOf <- InTwo
  Nothing = Nothing
  Removed = Removed
  MaxRequests = 3
INVARIANTS
  TypeOK
  NoWaitCycle
  SettingsAsChecked
  NothingKeptForUnknown
  EmptyRoomClaimed
PROPERTIES
  RequestsEnd
