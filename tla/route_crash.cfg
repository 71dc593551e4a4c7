SPECIFICATION FairSpec
CONSTANTS
  o1 = o1
  o2 = o2
  o3 = o3
  a1 = a1
  monitor = monitor
  notifier = notifier
  Opps = {o1, o2, o3}
  Agents = {a1, monitor}
  AgentOf <- FoundBy
  Level <- Levels
  Closes <- TwoExits
  Replies = {"filled", "rejected", "refused", "lost"}
  Journal = TRUE
  Moves = {"health"}
  Unsteady = {a1}
  Faults = {"read", "crash", "cancel"}
INVARIANT RulesSurvive
INVARIANT SoldTwiceExplained
INVARIANT RefusalsHold
INVARIANT OutcomeRecorded
PROPERTY RoutesEnd
