SPECIFICATION Spec
CONSTANTS
  ClientIdModulus = 2
  IdModulus = 4
  Clients = {1, 2, 3}
  Encoders = {e1}
  BufferLen = 2
  Configs <- OneShotAlone
  Stop = stop
  NoItem = noItem
  MaxBytes <- FullThenEmpty
  MaxHeartbeats = 0
INVARIANT StdinIsSent
CHECK_DEADLOCK FALSE
