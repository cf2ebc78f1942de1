SPECIFICATION FairSpec
CONSTANTS
  IdModulus = 3
  Encoders = {e1, e2}
  Blocks = {b1}
  Stop = stop
  NoItem = noItem
  StopSubmitted = TRUE
  MaxSubmitted = 9
INVARIANTS TypeOK WireInOrder HeldIdsDistinct PipelineInv
PROPERTIES ImplementsLine AcceptedIsSent
CHECK_DEADLOCK FALSE
