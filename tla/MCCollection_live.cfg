CONSTANTS
  q1 = q1
  q2 = q2
  Requests <- TwoRequests
  MaxRuns = 1
  StopIds = {1, 2}
  MaxPending = 1
  MaxDrops = 1
  StopRetry = 1
  StopGiveUp = 2
  Timely = TRUE
SPECIFICATION FairSpec
PROPERTIES
  RunsEnd
  SuggestionStays
