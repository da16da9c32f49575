CONSTANTS
  Prices = {1, 2}
  Qtys = {1, 2}
  MaxTicks = 4
  MaxFills = 2
  MaxStray = 1
SPECIFICATION ValidatorSpec
INVARIANTS HonestIsCorrect CorrectMeansSameBook ReferenceWorksOrders
CHECK_DEADLOCK FALSE
