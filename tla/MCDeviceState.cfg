SPECIFICATION FairSpec
CONSTANTS
  Networks <- MCNetworks
  ScreenOffPref = TRUE
  Wait = 1
  MaxEvents = 1
  MaxPipe = 2
  MaxResumes = 2
INVARIANTS
  TypeOK
  WaitingAgrees
  NoLostRelease
  NetworkLossPauses
PROPERTIES
  RunsAgain
