CONSTANTS
  t1 = t1
  t2 = t2
  s1 = s1
  s2 = s2
  Task <- TwoTasks
  Nobody = Nobody
  Scenario <- TwoScenarios
  Act <- OneAct
  Attempts = 2
  MaxChanges = 1
SPECIFICATION Spec
INVARIANTS OneRunAtATime ActShowsItsRun OnePoller
PROPERTIES BusyEnds PageCatchesUp
