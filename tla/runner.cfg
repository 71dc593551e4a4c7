SPECIFICATION FairSpec
CONSTANTS
  Calls = {c1, c2}
  Poller = poller
  LastVersion = 2
  Buildable = {1, 2}
  BadCron = {1}
  BadInterval = {2}
  MaxObjects = 6
  MaxLoops = 6
  Faults = {"setup", "scan", "slow", "list"}
INVARIANTS
  LoopsAreHeld
  FingerprintTells
PROPERTY ChangesAreTaken
CHECK_DEADLOCK FALSE
