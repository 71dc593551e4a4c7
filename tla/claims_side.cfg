SPECIFICATION ClaimsSpec
CONSTANTS
  s1 = s1
  s2 = s2
  Observations <- TwoObservations
  Pairs <- PairNames
  Kalshi <- KalshiCents
  Poly <- PolyCents
  Executor = executor
  QueueLimit = 1
  PairOf <- TwoPairs
  Requests = {r1}
  ClaimFaults = {}
INVARIANT SellsTheDearer
CHECK_DEADLOCK FALSE
