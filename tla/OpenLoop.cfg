CONSTANTS
  Ticks = 5
  EventsSize = 1
SPECIFICATION FairSpec
INVARIANTS HonestUnlessOverlap EachTickOnce EveryAnswerReported
PROPERTIES BotEnds
CHECK_DEADLOCK FALSE
