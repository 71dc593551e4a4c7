SPECIFICATION ArbClaimsSpec
CONSTANTS
  Trades = {t1, t2}
  LegReplies <- HonestLegReplies
  UnwindReplies <- HonestUnwindReplies
  Faults = {}
  s1 = s1
  s2 = s2
  Observations <- TwoObservations
  Pairs <- PairNames
  Kalshi <- KalshiCents
  Poly <- PolyCents
  Executor = executor
  QueueLimit = 1
  PairOf <- TwoPairs
  Requests = {r1, r2}
  ClaimFaults = {"slow", "read", "store", "crash"}
INVARIANTS
  OverlapExplained
  DoneStaysTaken
PROPERTIES
  PromiseSpec
  ClaimsEnd
CHECK_DEADLOCK FALSE
