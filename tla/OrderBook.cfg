SPECIFICATION MCSpec
CONSTANTS
  Ids = {1, 2, 3, 4}
  MaxPrice = 3
  Prices = {1, 2, 3}
  Qtys = {1, 2}
  Capacity = 4
\* A process whose arena is exhausted is dead.
CHECK_DEADLOCK FALSE
INVARIANTS
  TypeOK
  IndexAgrees
  TimePriority
  BestIsTop
  NotCrossed
  TotalsAgree
  NodePoolSuffices
PROPERTIES
  DeadStaysDead
  ImplementsPriceTime
  AddCompletes
