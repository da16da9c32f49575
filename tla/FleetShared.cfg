CONSTANTS
  Runs = {r1, r2}
  Workers = {w1}
  ShardSize = 1
  MaxCrashes = 0
  None = None
SPECIFICATION Spec
PROPERTIES StateMachine
CHECK_DEADLOCK FALSE
