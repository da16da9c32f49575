CONSTANTS
  Ticks = 4
  ResultsSize = 1
  VerdictsSize = 1
  Concurrent = FALSE
  Faults = {}
SPECIFICATION FairSpec
PROPERTIES RunEnds
CHECK_DEADLOCK FALSE
