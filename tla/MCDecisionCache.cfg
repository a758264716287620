SPECIFICATION FairSpec
CONSTANTS
  c1 = c1
  c2 = c2
  c3 = c3
  k1 = k1
  k2 = k2
  NoKey = NoKey
  Callers <- ThreeCallers
  Keys <- TwoKeys
  MaxFlights = 2
  Enabled = TRUE
  URLSet = TRUE
  FailOpen = FALSE
INVARIANTS SingleFlight SharesOnlyConcurrentRequests SharedAnswer
PROPERTY CallReturns
