SPECIFICATION FairSpec
CONSTANTS
  IdModulus = 4
  Threads = {d1, d2, d3}
  Items <- MCItems
  Decodable <- MCDecodable
  UndecodableNumber = 5
  SyncLost = syncLost
  Lost = lost
  NoItem = noItem
  DecodeFails = TRUE
  QuietResets = TRUE
  MaxHanded = 6
  MaxNumber = 10
INVARIANTS TypeOK DispatchedInOrder
PROPERTY HandedOrReported
CHECK_DEADLOCK FALSE
