SPECIFICATION ArbMinersSpec
CONSTANTS
  Parts = {"arb", "miners"}
  Trades = {t1}
  LegReplies <- Replies
  UnwindReplies <- Replies
  Faults <- FaultKinds
  Collections = 2
  Miners = {m1, m2}
  Dark = {1}
  MaxMishaps = 2
INVARIANTS
  OrdersAreJournaled
  CompletedIsHedged
  ClosesTheLoneLeg
  NakedIsExplained
  ReturnedRowIsFinal
  JudgedIsRanked
  WeightsOfOneRefresh
PROPERTIES
  CallsEnd
  WindowsAreJudged
