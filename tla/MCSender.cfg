SPECIFICATION FairSpec
CONSTANTS
  ClientIdModulus = 2
  IdModulus = 4
  Clients = {1, 2, 3}
  Encoders = {e1}
  BufferLen = 2
  Configs <- AllConfigs
  Stop = stop
  NoItem = noItem
  MaxBytes <- FullThenEmpty
  MaxHeartbeats = 1
INVARIANTS TypeOK TransfersWellFormed EndMeansClosed
PROPERTY TransfersEnd
CHECK_DEADLOCK FALSE
