CONSTANTS
  q1 = q1
  q2 = q2
  q3 = q3
  r1 = r1
  Shutdown = Shutdown
  Row <- Rows3
  Reader <- OneReader
  QueueLimit = 2
  BatchSize = 2
  AsyncWrites <- BothModes
  SqliteFails = TRUE
  MayClose = TRUE
SPECIFICATION Spec
SYMMETRY RowSymmetry
INVARIANTS TypeOK UnfinishedMatches InOnePlace DropsCounted LogInOrder CloseDrains
PROPERTIES ImplementsDecisionLog
CHECK_DEADLOCK FALSE
