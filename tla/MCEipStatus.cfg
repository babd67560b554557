SPECIFICATION FairSpec
CONSTANTS
  Threads <- MCThreads
  Published <- MCPublished
  PersistTun = TRUE
  Delay = 1
  MaxTasks = 2
INVARIANTS
  TypeOK
  StoppingNotConnected
  ShownNeverOverstates
  DelayedOnItsWay
PROPERTIES
  DelayedLevelShown
