SPECIFICATION Spec
CONSTANTS
  Networks <- OneNetwork
  ScreenOffPref = TRUE
  Wait = 1
  MaxEvents = 1
  MaxPipe = 2
  MaxResumes = 2
INVARIANTS
  AwakeNotPaused
