CONSTANTS
  Ticks = 4
  ResultsSize = 1
  VerdictsSize = 1
  Concurrent = TRUE
  Faults = {"garbage", "extra", "die", "silent"}
SPECIFICATION FairSpec
INVARIANTS EverySentTickJudged AnswersMatchTicks HonestScoresAll AcceptedMeansAnswered
PROPERTIES RunEnds
CHECK_DEADLOCK FALSE
