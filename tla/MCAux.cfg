SPECIFICATION AuxSpec
CONSTANTS
  Configs <- PassingConfigs
  FooterLen = 2
  MaxLen = 5
  Files <- ThreeOfOneName
  MaxFiles = 3
  Absent = absent
  Zero = zero
  MaxDatagrams <- TwoSessions
  BufferSize = 2
INVARIANTS AcceptedIsSent AcceptedIsAnnounced IntactIsAccepted OkIsWhole FramesIntact
PROPERTIES ReceiverEnds FilesBeforeExit TunnelDelivers
CHECK_DEADLOCK FALSE
