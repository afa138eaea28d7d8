SPECIFICATION FairSpec
CONSTANTS
  s = s
  i = i
  d = d
  NoNode = NoNode
  Node <- MCNode
  RreqRetries = 1
  TtlStart = 1
  TtlIncrement = 1
  TtlThreshold = 2
  NetDiameter = 3
  RreqRateLimit = 1
  RerrRateLimit = 10
  GratuitousReply = TRUE
  DestinationOnly = FALSE
  Link0 <- Chain
  Flow <- OneWay
  MaxSent = 1
  MaxLapses = 0
  MaxBreaks = 0
  MaxHellos = 0
  SecondsPass = TRUE
INVARIANT BufferedIsSought
INVARIANT RetriesAreBounded
PROPERTY RequestsAreCounted
PROPERTY BufferedLeaves
CHECK_DEADLOCK FALSE
