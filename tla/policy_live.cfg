CONSTANTS
  t1 = t1
  a1 = a1
  a2 = a2
  e1 = e1
  e2 = e2
  stranger = stranger
  Stranger = stranger
  Thread <- OneThread
  Agent <- OneAgent
  Domain <- LiveNames
  Pattern <- LivePatterns
  Covers <- LiveCovers
  Address <- TwoAddresses
  ConfigFile <- LiveFile
  DeniedToAll <- AdminDenied
  DeniedTo <- PayrollDenied
  Tunnelling <- Tunnel
  Records <- LiveRecords
  Limit <- Limit3
  Cost <- Free
  MaxCost <- NoBudget
  WarnAt <- NoBudget
  RateWindow = 1
  BudgetWindow = 1
  Cooldown = 1
  AlertCapacity = 1
  MaxTime = 0
SPECIFICATION Spec
INVARIANTS SnapshotCurrent LoadBalanced
