CONSTANTS
  Char <- MCChar
  Lower <- MCLower
  Configured <- MCConfigured
  Requested <- MCRequested
  Query <- MCQuery
  DenyList <- MCDenyList
  CostTables <- MCCostTables
  MaxLabelLength = 2
  MaxLabels = 4
  MaxLength = 7
SPECIFICATION Spec
INVARIANTS PassesByLabel LastWordHolds CostIsMostSpecific
