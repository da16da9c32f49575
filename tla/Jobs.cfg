CONSTANTS
  Handlers = {h1, h2}
  Pool = {k1, k2}
  QueueDepth = 1
  MaxSubmissions = 2
  MaxRedeliveries = 1
  MaxRestarts = 1
  Nothing = Nothing
SPECIFICATION FairSpec
INVARIANTS SubmissionsNamedOnce JobsKnown DoneIsScored
PROPERTIES EndedStays EveryJobEnds
CHECK_DEADLOCK FALSE
