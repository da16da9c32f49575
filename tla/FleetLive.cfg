CONSTANTS
  Runs = {r1, r2}
  Workers = {w1}
  ShardSize = 1
  MaxCrashes = 1
  None = None
SPECIFICATION FairSpec
PROPERTIES EveryRunEnds
CHECK_DEADLOCK FALSE
