CONSTANTS
  Addresses <- TwoEndpoints
  FailureThreshold = 2
  SuccessThreshold = 2
  Garbles = TRUE
  MayStop = TRUE
  Watched <- FirstEndpoint
  Memory = 4
SPECIFICATION FairSpec
INVARIANTS DebounceExact PoolFollowsTracker
PROPERTIES PoolDebounced DownLeaves UpReturns
