SPECIFICATION Spec
CONSTANTS
  U16 = 64
  U32 = 4096
  PACKET_HEADER_SIZE = 3
  RAPTORQ_HEADER_SIZE = 1
  RAPTORQ_ALIGNMENT = 2
  Hundred = 4
  IdModulus = 5
  Configs <- SomeConfigs
  None = none
  MaxBlocks = 4
  MaxLost = 2
INVARIANTS ReceivedIsSent EnoughArrive WindowIsBuffered
CHECK_DEADLOCK FALSE
