SPECIFICATION Spec
CONSTANTS
  s = s
  i = i
  d = d
  NoNode = NoNode
  Node <- MCNode
  RreqRetries = 1
  TtlStart = 1
  TtlIncrement = 2
  TtlThreshold = 2
  NetDiameter = 3
  RreqRateLimit = 10
  RerrRateLimit = 10
  GratuitousReply = TRUE
  DestinationOnly = FALSE
  Link0 <- Chain
  Flow <- TwoWay
  MaxSent = 2
  MaxLapses = 0
  MaxBreaks = 0
  MaxHellos = 0
  SecondsPass = FALSE
INVARIANT BufferedIsSought
CHECK_DEADLOCK FALSE
