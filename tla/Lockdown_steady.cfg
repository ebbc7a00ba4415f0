CONSTANTS
  a = a
  b = b
  work = work
  Exes = {a, b}
  Valid = {a, b}
  Own = {b}
  Busy = {a}
  Tags = {}
  NoTag = NoTag
  Disks <- FreshLocked
  Ops = {"block", "allow", "answer", "quit"}
  MaxOps = 3
  MaxCrashes = 0
  MaxBoots = 1
  JoinWaits = TRUE
SPECIFICATION LiveSpec
INVARIANTS UserBlockStands DecidedIsEnforced QuitLeavesNothing
PROPERTIES NewcomerIsDenied
CHECK_DEADLOCK FALSE
