SPECIFICATION ReceiverSpec
CONSTANTS
  IdModulus = 4
  Symbols = {p1}
  MinPackets = 1
  SymbolCount = 1
  SyncLost = syncLost
  MaxBlocks = 5
  MaxSkew = 1
  MaxBatch = 1
  Links <- LossOnly
  MaxFaults = 1
  Timely = TRUE
  MaxRestarts = 0
  Threads = {d1}
  Lost = lost
  NoItem = noItem
  DecodeFails = FALSE
  QuietResets = TRUE
  ClientIds = {c1}
  Workers = {w1}
  NoTransfer = noTransfer
  AbortTimeout = FALSE
  ClientsFail = FALSE
INVARIANT SuccessIsComplete
CHECK_DEADLOCK FALSE
