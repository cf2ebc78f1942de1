SPECIFICATION FairSpec
CONSTANTS
  ClientIds = {c1, c2}
  Workers = {w1, w2}
  Lost = lost
  NoTransfer = noTransfer
  AbortTimeout = TRUE
  ClientsFail = TRUE
  MaxMessages = 4
INVARIANTS TypeOK NeverWaitsForPermit OneWorkerEach
PROPERTIES ImplementsTransfers TransfersEnd
CHECK_DEADLOCK FALSE
