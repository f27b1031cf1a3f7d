SPECIFICATION FairSpec
CONSTANTS
  PoolSize = 3
  Delays = {1, 2, 3}
  MaxTime = 5
INVARIANTS PoolPartitioned PrevInverse
PROPERTIES NoneDueAfterCheck ImplementsQueue DueTimersFire
