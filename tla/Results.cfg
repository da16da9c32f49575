SPECIFICATION MCSpec
CONSTANTS
  Events = 2
  Acked <- AckedEvents
  ChannelSize = 1
  FlushRows = 2
  MaxFaults = 2
  Metrics <- Outcomes
  None = None
  Viewers = {v1, v2}
  Early = v1
  NoBoard = NoBoard
  Team = "team"
  Attempt = 2
  Finished <- FinishedRows
  Leftovers <- LeftoverRows
  NoRow = NoRow
  Latency <- LatencyOf
INVARIANTS
  PercentilesComplete
  MeritOrder
PROPERTIES
  NeverSlipsBack
  EveryRunRecorded
  EveryViewerUpToDate
CHECK_DEADLOCK FALSE
