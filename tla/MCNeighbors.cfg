SPECIFICATION NodeSpec
CONSTANTS
  peer = peer
  wifi = wifi
  wire = wire
  p = p
  q = q
  r = r
  Address = {peer}
  Interface <- MCInterface
  OwnOf <- MCOwnOf
  MaxSockets <- MCMaxSockets
  Delay = 2
  Lifetime = {1, 2}
  MaxTime = 4
SYMMETRY Either
INVARIANT NodeTypeOK
INVARIANT NoticedInTime
INVARIANT TimerRuns
INVARIANT ListensOnFirst
INVARIANT BroadcastHeard
INVARIANT RestsOnSockets
PROPERTY WatchSpec
