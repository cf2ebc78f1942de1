SPECIFICATION FairReceiverSpec
CONSTANTS
  IdModulus = 5
  Symbols = {p1}
  MinPackets = 1
  SymbolCount = 1
  SyncLost = syncLost
  MaxBlocks = 7
  MaxSkew = 2
  MaxBatch = 1
  Links <- RestartsOnly
  MaxFaults = 0
  Timely = TRUE
  MaxRestarts = 1
  Threads = {d1, d2}
  Lost = lost
  NoItem = noItem
  DecodeFails = FALSE
  QuietResets = TRUE
  ClientIds = {c1}
  Workers = {w1}
  NoTransfer = noTransfer
  AbortTimeout = FALSE
  ClientsFail = FALSE
INVARIANT SuccessIsComplete
CHECK_DEADLOCK FALSE
PROPERTY EndedIsDelivered
