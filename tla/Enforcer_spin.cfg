SPECIFICATION LiveSpec
CONSTANTS
  app = app
  group = group
  Nobody = Nobody
  NoHandle = NoHandle
  Exes = {app}
  Group = group
  Ports = {1, 2}
  MaxHandles = 4
  DriverRefuses = FALSE
  FilterRoom = 2
  FirstRules <- AppLimited
  MaxEdits = 0
  MaxMoves = 1
  MaxFails = 0
INVARIANTS
  RecvHasHandle
CHECK_DEADLOCK FALSE
