SPECIFICATION Spec
CONSTANTS
  n1 = n1
  n2 = n2
  n3 = n3
  Everybody = Everybody
  Nobody = Nobody
  Node <- MCNode
  Link <- MCLink
  NetDiameter = 3
  Ring = {1, 3}
  DataTtl = 3
  MaxDelay = 1
  Lifetime = 3
  EnableBroadcast = TRUE
  MaxFloods = 2
  MaxTime = 5
INVARIANT TypeOK
INVARIANT HandledOnce
INVARIANT NoFalseDuplicates
CHECK_DEADLOCK FALSE
