CONSTANTS
  Addresses <- OneEndpoint
  FailureThreshold = 2
  SuccessThreshold = 2
  Garbles = TRUE
  MayStop = FALSE
  Watched <- FirstEndpoint
  Memory = 4
SPECIFICATION FairSpec
PROPERTIES UnhealthyLeaves
