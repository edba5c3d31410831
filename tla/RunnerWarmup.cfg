SPECIFICATION LabSpec
CONSTANTS
  AlignmentBits = 31
  Runs <- MCReplay
  SnapshotInterval = 2
  WarmupOps = 1
  Traces <- MCReuseOnly
  Memory = {0, 1, 2}
  MaxIds = 4
  MovesOnRealloc = TRUE
  s1 = s1
  s2 = s2
  s3 = s3
  s4 = s4
  t1 = t1
  t2 = t2
  plain = plain
  curious = curious
  Strategy <- MCStrategy
  SelfAssigned <- MCOneAssigned
  RequestedIds = {0, 1, 3}
  Emitter <- MCEmitter
  Sink <- MCSink
  CallingBack <- MCCallingBack
  Capacity = 1
  MaxEvents = 3
  Parts = {"runner"}
INVARIANT WarmupNotTimed
CHECK_DEADLOCK FALSE
