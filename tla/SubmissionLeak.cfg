SPECIFICATION Spec
CONSTANTS
  Request = {r1}
  Failing = {"client"}
  MaxFaults = 0
  MaxCrashes = 0
CHECK_DEADLOCK FALSE
INVARIANTS
  ContainerRemoved
