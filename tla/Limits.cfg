SPECIFICATION ThrottleSpec
CONSTANTS
  a = a
  b = b
  games = games
  work = work
  NoTag = NoTag
  Exes <- TwoExes
  Tags <- TwoTags
  MaxRate = 2
  Starts <- TwoStarts
  Second = 2
  Lengths = {1, 2}
SYMMETRY Symmetric
INVARIANTS
  TypeOK
  OwnLimitWithinTagCap
  ThrottleMatchesManager
  BucketsBounded
  RateKept
  NothingBurned
CHECK_DEADLOCK FALSE
