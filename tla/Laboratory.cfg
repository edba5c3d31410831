SPECIFICATION LabSpec
CONSTANTS
  AlignmentBits = 31
  Runs <- MCRuns
  SnapshotInterval = 2
  WarmupOps = 1
  Traces <- MCTraces
  Memory = {0, 1, 2}
  MaxIds = 4
  MovesOnRealloc = TRUE
  s1 = s1
  s2 = s2
  s3 = s3
  s4 = s4
  t1 = t1
  t2 = t2
  plain = plain
  curious = curious
  Strategy <- MCStrategy
  SelfAssigned <- MCOneAssigned
  RequestedIds = {0, 1, 3}
  Emitter <- MCEmitter
  Sink <- MCSink
  CallingBack <- MCCallingBack
  Capacity = 1
  MaxEvents = 3
  Parts = {"runner", "registry", "events", "latency"}
INVARIANTS
  PayloadIntact  
  OwnsWhatLives EventsAccounted SinkHearsEverything SummariesHonest
PROPERTIES
  EveryRunEnds DiesOnlyUnregistered EveryEmitReturns
CHECK_DEADLOCK FALSE
