SPECIFICATION LiveSpec
CONSTANTS
  app = app
  group = group
  Nobody = Nobody
  NoHandle = NoHandle
  Exes = {app}
  Group = group
  Ports = {1, 2}
  MaxHandles = 5
  DriverRefuses = TRUE
  FilterRoom = 1
  FirstRules <- NoLimits
  MaxEdits = 2
  MaxMoves = 2
  MaxFails = 1
INVARIANTS
  TypeOK
  NoOrphanHandle
PROPERTIES
  HandleFollowsRules
  FilterFollowsPorts
  WakeUpsArrive
CHECK_DEADLOCK FALSE
