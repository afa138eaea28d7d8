SPECIFICATION Spec
CONSTANTS
  u1 = u1
  u2 = u2
  g1 = g1
  g2 = g2
  Hole = Hole
  Upload <- MCUpload
  Get <- MCGet
  Chunks <- MCChunks
  Scenario <- MCScenario
  Name = {"a.txt", "gone.txt", "a.exe", "dir.txt"}
  Absent = {"gone.txt"}
  Refused = {"a.exe"}
  Unwritable = {"dir.txt"}
INVARIANT TypeOK
INVARIANT UploadIsWhole
INVARIANT ChunksInPlace
INVARIANT LogIsTrue
PROPERTY GetsEnd
PROPERTY WorkersEnd
PROPERTY ExitIsReached
CHECK_DEADLOCK FALSE
