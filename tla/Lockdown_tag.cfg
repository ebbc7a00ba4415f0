CONSTANTS
  a = a
  b = b
  work = work
  Exes = {a, b}
  Valid = {a, b}
  Own = {}
  Busy = {a}
  Tags = {work}
  NoTag = NoTag
  Disks <- TaggedOpen
  Ops = {"lockdown", "edit_tag"}
  MaxOps = 3
  MaxCrashes = 0
  MaxBoots = 1
  JoinWaits = TRUE
SPECIFICATION Spec
INVARIANTS TagBlockStands
CHECK_DEADLOCK FALSE
