CONSTANTS
  q1 = q1
  q2 = q2
  Requests <- OneRequest
  MaxRuns = 2
  StopIds = {1, 2}
  MaxPending = 1
  MaxDrops = 1
  StopRetry = 0
  StopGiveUp = 1
  Timely = FALSE
SPECIFICATION Spec
INVARIANTS
  TypeOK
  OneActiveRun
  CollectingWasStarted
PROPERTIES
  ClosedStays
