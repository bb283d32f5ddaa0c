SPECIFICATION FairSpec
CONSTANTS
  Writers = {w1, w2}
  Batch = 2
  Channel = 1
  Remembered = 1
  BusCapacity = 2
  Retention = 1
  MaxIds = 3
  MaxMonths = 2
  MaxEach = 1
  MaxInAll = 2
CHECK_DEADLOCK FALSE
INVARIANTS
  StreamSkipsNothing
  OnlyLoggedNeverMissed
PROPERTIES
  EndReachesTheTopic
