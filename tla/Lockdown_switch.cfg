CONSTANTS
  a = a
  b = b
  work = work
  Exes = {a, b}
  Valid = {a, b}
  Own = {}
  Busy = {a}
  Tags = {work}
  NoTag = NoTag
  Disks <- FreshLocked
  Ops = {"firewall", "lockdown", "allow", "tag", "edit_tag", "answer", "quit"}
  MaxOps = 2
  MaxCrashes = 0
  MaxBoots = 1
  JoinWaits = FALSE
SPECIFICATION LiveSpec
INVARIANTS PendingIsPrompted
PROPERTIES FirewallOffDrains
CHECK_DEADLOCK FALSE
