SPECIFICATION FairSpec
CONSTANTS
  Attempts = 2
  Limits <- MCLimits
  MaxSignals = 2
  MaxStops = 1
INVARIANTS
  TypeOK
  GivesUpOnlyThen
  StuckOnlySo
PROPERTIES
  StopWorks
  ZombieReaped
  Implements
