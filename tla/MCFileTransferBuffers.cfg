SPECIFICATION Spec
CONSTANTS
  Configs <- UnequalAlone
  FooterLen = 2
  MaxLen = 5
INVARIANT HashIsOfContent
CHECK_DEADLOCK FALSE
