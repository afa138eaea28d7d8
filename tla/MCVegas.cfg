SPECIFICATION Spec
CONSTANTS
  SegmentSize = 4
  Alpha = 2
  Beta = 4
  Gamma = 1
  Rtt = {1, 3}
  Word = 256
  MaxWindow = 24
  MaxFlight = 3
  MaxAcked = 2
  MaxSamples = 3
INVARIANT TypeOK
INVARIANT NeverCollapses
INVARIANT SamplesAreSound
INVARIANT BandIsSane
PROPERTY LinearSteps
PROPERTY SlowStartGrows
