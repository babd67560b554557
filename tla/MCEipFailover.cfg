SPECIFICATION FairSpec
CONSTANTS
  Gateways = 3
  Broken <- OneBroken
  MaxCommands = 1
  MaxQueued = 3
  MaxStarting = 2
CONSTRAINT NotOver
CHECK_DEADLOCK FALSE
INVARIANTS
  FailoverCarried
PROPERTIES
  FailoverEnds
  GatewaysInTurn
