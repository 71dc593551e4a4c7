SPECIFICATION BooksSpec
CONSTANTS
  Parts = {"llm"}
  f1 = f1
  f2 = f2
  Fills = {f1, f2}
  Tracker = tracker
  Amount <- Contracts
  Price <- Cents
  Payouts = {100}
  Held = 2
  HeldAt = 45
  Start = 500
  MaxFaults = 2
  Clients = {c1, c2, c3}
  FailureThreshold = 2
  SuccessThreshold = 2
  Calls = {k1, k2}
  Metered = {k1, k2}
  Cost = 2
  Budget = 4
  Window = 3
  Grace = 1
  MaxFails = 1
  MaxTroubles = 0
  MaxCents = 8
  r1 = r1
  r2 = r2
  r3 = r3
  r4 = r4
  x = x
  y = y
  Records = {r1, r2, r3, r4}
  TickerOf <- Symbols
  DueAt <- Minutes
  BarsAt <- BarTimes
  Limit = 3
  Dead = {y}
  Lag = 1
  CacheTTL = 2
  Session = 4
  Horizon = 7
  MaxHitches = 1
INVARIANT
  BlockedAfterGrace
CHECK_DEADLOCK FALSE
