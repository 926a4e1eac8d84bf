CONSTANTS
  t1 = t1
  a1 = a1
  a2 = a2
  e1 = e1
  e2 = e2
  stranger = stranger
  Stranger = stranger
  Thread <- OneThread
  Agent <- TwoAgents
  Domain <- MeteredNames
  Pattern <- MeteredNames
  Covers <- Themselves
  Address <- OneAddress
  ConfigFile <- MeteredFile
  DeniedToAll <- NoNames
  DeniedTo <- NothingDenied
  Tunnelling <- NoNames
  Records <- MeteredRecords
  Limit <- Limit1
  Cost <- MeteredCost
  MaxCost <- Budget3
  WarnAt <- Warn2
  RateWindow = 1
  BudgetWindow = 2
  Cooldown = 2
  AlertCapacity = 5
  MaxTime = 3
SPECIFICATION MeteringSpec
SYMMETRY AgentSymmetry
INVARIANTS RateBound BudgetBound
PROPERTIES RefusalsAlerted WarnedFirst
