CONSTANTS
  Runs = {r1, r2}
  Workers = {w1, w2}
  ShardSize = 1
  MaxCrashes = 0
  None = None
SPECIFICATION Spec
SYMMETRY FleetSymmetry
INVARIANTS FiresAfterBarrier AccountsAgree
CHECK_DEADLOCK FALSE
