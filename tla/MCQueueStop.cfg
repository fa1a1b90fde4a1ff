SPECIFICATION Spec
CONSTANTS
  r1 = r1
  r2 = r2
  NoJob = NoJob
  Request <- TwoRequests
  QueueCap = 1
  MaxGameEvents = 1
  MaxFaults = 0
  MaxCrashes = 0
  MaxRestarts = 0
CHECK_DEADLOCK FALSE
SYMMETRY RequestSymmetry
PROPERTIES
  StopDrainsQueue
