CONSTANTS
  a = a
  b = b
  work = work
  Exes = {a, b}
  Valid = {a, b}
  Own = {}
  Busy = {a}
  Tags = {work}
  NoTag = NoTag
  Disks <- FreshLocked
  Ops = {"lockdown"}
  MaxOps = 1
  MaxCrashes = 0
  MaxBoots = 1
  JoinWaits = TRUE
SPECIFICATION Spec
INVARIANTS LockdownOffLifts
CHECK_DEADLOCK FALSE
