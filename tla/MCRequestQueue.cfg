SPECIFICATION Spec
CONSTANTS
  p1 = p1
  p2 = p2
  p3 = p3
  p4 = p4
  d1 = d1
  d2 = d2
  i1 = i1
  i2 = i2
  AnyInterface = AnyInterface
  Packet <- MCPacket
  Destination <- MCDestination
  Interface <- MCInterface
  DstOf <- MCDstOf
  OifOf <- MCOifOf
  Limit = {2, 3}
  QueueTimeout = {1, 2}
  MaxTime = 2
  MaxHandedIn <- MCMaxHandedIn
INVARIANT TypeOK
INVARIANT NothingLost
PROPERTY NeverLate
PROPERTY KeepsLimit
PROPERTY NoOvertaking
PROPERTY BufferSpec
