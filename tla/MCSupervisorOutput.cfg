SPECIFICATION Spec
CONSTANTS
  Attempts = 2
  Limits <- MCLimits
  MaxSignals = 0
  MaxStops = 0
PROPERTIES
  OutputKept
