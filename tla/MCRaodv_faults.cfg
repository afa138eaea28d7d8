SPECIFICATION Spec
CONSTANTS
  s = s
  i = i
  d = d
  NoNode = NoNode
  Node <- MCNode
  RreqRetries = 1
  TtlStart = 2
  TtlIncrement = 2
  TtlThreshold = 2
  NetDiameter = 2
  RreqRateLimit = 10
  RerrRateLimit = 10
  GratuitousReply = TRUE
  DestinationOnly = FALSE
  Link0 <- Chain
  Flow <- OneWay
  MaxSent = 1
  MaxLapses = 2
  MaxBreaks = 1
  MaxHellos = 1
  SecondsPass = FALSE
INVARIANT SeqNoComesFromOwner
INVARIANT ValidRouteIsUsable
PROPERTY ReportsWhatItLost
CHECK_DEADLOCK FALSE
