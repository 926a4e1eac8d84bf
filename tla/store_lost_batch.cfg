CONSTANTS
  q1 = q1
  q2 = q2
  q3 = q3
  r1 = r1
  Shutdown = Shutdown
  Row <- Rows2
  Reader <- NoReader
  QueueLimit = 2
  BatchSize = 2
  AsyncWrites <- AsyncOnly
  SqliteFails = TRUE
  MayClose = FALSE
SPECIFICATION Spec
INVARIANTS EveryRowAccounted
CHECK_DEADLOCK FALSE
