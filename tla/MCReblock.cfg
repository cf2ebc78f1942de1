SPECIFICATION FairLinkSpec
CONSTANTS
  IdModulus = 5
  Symbols = {p1, p2}
  MinPackets = 2
  SyncLost = syncLost
  Links <- ThreeLinks
  MaxBlocks = 6
  MaxFaults = 2
  MaxSkew = 2
  MaxBatch = 2
  Timely = TRUE
INVARIANTS WindowInv NeverReportsLoss BlocksUnmixed KeptInWindow HandedIncreasing
PROPERTIES StaysNear AllHanded
CHECK_DEADLOCK FALSE
