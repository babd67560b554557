SPECIFICATION Spec
CONSTANTS
  Gateways = 1
  Broken = {}
  MaxCommands = 2
  MaxQueued = 1
  MaxStarting = 1
CHECK_DEADLOCK FALSE
INVARIANTS
  TypeOK
  BlockingShownIsBlocking
