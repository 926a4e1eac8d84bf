CONSTANTS
  t1 = t1
  Thread <- OneThread
  Agent <- Agents
  Stranger = "stranger"
  Domain <- Names
  Pattern <- Patterns
  Covers <- CoverTable
  Address <- Addresses
  ConfigFile <- PolicyFile
  DeniedToAll <- DeniedDomains
  DeniedTo <- NoneDenied
  Tunnelling <- TunnelNames
  Records <- RecordTable
  Limit <- Limits
  Cost <- Costs
  MaxCost <- Budgets
  WarnAt <- Warnings
  RateWindow = 1
  BudgetWindow = 60
  Cooldown = 30
  AlertCapacity = 100
  MaxTime = 30
  Docs = "172.28.0.21"
  ApiA = "172.28.0.22"
  ApiB = "172.28.0.23"
  Endpoints <- EndpointList
  Burst = 5
  Tunnels = 2
  LogKept = 40
  Selections <- Offered
  Meddled <- Touched
  MaxCommands = 2
  MaxFaults = 1
SPECIFICATION DemoSpec
INVARIANTS ScenariosPass EveryScenarioJudged BlameIsFair
PROPERTIES RepairIsReal
