CONSTANTS
  q1 = q1
  q2 = q2
  q3 = q3
  r1 = r1
  Shutdown = Shutdown
  Row <- Rows2
  Reader <- OneReader
  QueueLimit = 1
  BatchSize = 2
  AsyncWrites <- BothModes
  SqliteFails = TRUE
  MayClose = TRUE
SPECIFICATION TrafficSpec
INVARIANTS FlushFresh
PROPERTIES RecordReturns FlushReturns
CHECK_DEADLOCK FALSE
