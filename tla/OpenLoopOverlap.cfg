CONSTANTS
  Ticks = 4
  EventsSize = 1
SPECIFICATION Spec
INVARIANTS HonestIsCorrect
CHECK_DEADLOCK FALSE
