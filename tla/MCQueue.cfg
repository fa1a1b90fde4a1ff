SPECIFICATION FairSpec
CONSTANTS
  r1 = r1
  r2 = r2
  NoJob = NoJob
  Request <- TwoRequests
  QueueCap = 1
  MaxGameEvents = 1
  MaxFaults = 1
  MaxCrashes = 1
  MaxRestarts = 1
CHECK_DEADLOCK FALSE
INVARIANTS
  TypeOK
  SingleOwner
  NoEventLost
  JobIsRunning
  OneFaultOneMatch
  ErrorIsFinal
  StreamWellFormed
  LogIsFinal
PROPERTIES
  Lifecycle
  EventuallySettled
  EventuallyStops
