CONSTANTS
  d1 = d1
  d2 = d2
  NoDevbox = NoDevbox
  Devbox <- TwoDevboxes
  Commands <- CommandLines
  MaxRevision = 2
SPECIFICATION Spec
INVARIANTS RunningIsRecorded RunsTheTree
PROPERTIES E2eEndsItsDevbox
