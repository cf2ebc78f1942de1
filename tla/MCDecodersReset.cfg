SPECIFICATION FairSpec
CONSTANTS
  IdModulus = 4
  Threads = {d1}
  Items <- MCItems
  Decodable <- MCDecodable
  UndecodableNumber = 0
  SyncLost = syncLost
  Lost = lost
  NoItem = noItem
  DecodeFails = FALSE
  QuietResets = TRUE
  MaxHanded = 4
  MaxNumber = 10
PROPERTY ResetRestoresService
CHECK_DEADLOCK FALSE
