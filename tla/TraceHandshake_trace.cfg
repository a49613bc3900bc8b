SPECIFICATION FairSpec
CONSTANTS
  CommLevels = {1, 2, 3}
  Users = {"careful", "free"}
  LastFile = 1
  Counters = {1}
  MaxWork = 5
  MaxLevel = 2
INVARIANTS
  LockedMeansBlocked
PROPERTIES
  FramesInOrder
  UnblockedWhenShown
  BlockedIsReleased
  PollingLoopEnds
CHECK_DEADLOCK FALSE
