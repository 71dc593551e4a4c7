SPECIFICATION DeskSpec
CONSTANTS
  Parts = {"votes", "risk", "health", "bridge", "feed"}
  v1 = v1
  v2 = v2
  v3 = v3
  v4 = v4
  v5 = v5
  a1 = a1
  a2 = a2
  a3 = a3
  buy = buy
  none = none
  Opps = {v1, v2, v3, v4, v5}
  AgentOf <- FoundBy
  KeyOf <- Trades
  NoTrade = none
  Level <- OwnLevels
  At <- Minutes
  Window = 2
  Threshold = 2
  Faults = {"store", "crash"}
  Evaluations = {e1, e2}
  Overrides = {o1, o2}
  Scans = {s1, s2}
  Requests = {r1}
  Arbitrages = {b1}
  Toggles = {t1, t2}
  Values = {100, 70}
  MaxDrawdown = 25
  RiskFaults = {"redis", "store", "crash"}
  Positions = {p1, p2}
  LastContent = 3
  MaxRestarts = 1
  Signals = {g1}
  MaxClock = 4
  MaxSlips = 1
SYMMETRY Alike
INVARIANTS
  RaisedOnQuorum
  SpentTwiceExplained
  NoIdleQuorum
  HaltHolds
  SeenIsTold
  RollupExplained
PROPERTIES
  KeepsQuorum
  RowHolds
  OperatorRules
CHECK_DEADLOCK FALSE
