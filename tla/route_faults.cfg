SPECIFICATION Spec
CONSTANTS
  o1 = o1
  o2 = o2
  o3 = o3
  a1 = a1
  monitor = monitor
  notifier = notifier
  Opps = {o1, o2, o3}
  Agents = {a1, monitor, notifier}
  AgentOf <- FoundBy
  Level <- Levels
  Closes <- OneExit
  Replies = {"filled", "working", "lost"}
  Journal = FALSE
  Moves = {"kill", "shadow"}
  Unsteady = {a1}
  Faults = {"store", "read", "slow", "cancel"}
INVARIANT ShadowPlacesNothing
INVARIANT FirmRefusals
INVARIANT PositionsHaveOrders
