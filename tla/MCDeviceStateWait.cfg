SPECIFICATION Spec
CONSTANTS
  Networks <- OneNetwork
  ScreenOffPref = FALSE
  Wait = 1
  MaxEvents = 1
  MaxPipe = 2
  MaxResumes = 2
PROPERTIES
  PausedAfterWait
