CONSTANTS
  a = a
  b = b
  work = work
  Exes = {a, b}
  Valid = {a}
  Own = {}
  Busy = {}
  Tags = {work}
  NoTag = NoTag
  Disks <- FreshOff
  Ops = {"block", "unblock", "allow", "disallow", "rule", "remove", "tag", "edit_tag", "firewall", "quit"}
  MaxOps = 3
  MaxCrashes = 1
  MaxBoots = 2
  JoinWaits = TRUE
SPECIFICATION Spec
INVARIANTS TypeOK SavedWhenAtRest UserBlockStands OffMeansOff
CHECK_DEADLOCK FALSE
