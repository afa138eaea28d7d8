SPECIFICATION Spec
CONSTANTS
  s = s
  i = i
  d = d
  NoNode = NoNode
  Node <- MCNode
  RreqRetries = 1
  TtlStart = 3
  TtlIncrement = 2
  TtlThreshold = 3
  NetDiameter = 3
  RreqRateLimit = 10
  RerrRateLimit = 10
  GratuitousReply = TRUE
  DestinationOnly = FALSE
  Link0 <- Chain
  Flow <- FromBoth
  MaxSent = 2
  MaxLapses = 1
  MaxBreaks = 0
  MaxHellos = 0
  SecondsPass = FALSE
INVARIANT TypeOK
INVARIANT SeqNoComesFromOwner
INVARIANT NoLoop
PROPERTY FloodsOnce
CHECK_DEADLOCK FALSE
