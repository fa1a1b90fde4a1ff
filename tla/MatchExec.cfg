SPECIFICATION FairSpec
CONSTANTS
  A = user
  B = system
  UserBot = {user}
  Duration = {1, 2}
  MaxAttempts = 2
  Cells = 3
  MinWin = 2
  Failing = {"start", "create", "finish", "ended", "event", "project", "stop", "remove"}
  MaxFaults = 2
CHECK_DEADLOCK FALSE
INVARIANTS
  TypeOK
  RowsMatchEvents
  TieBreakIsEven
  DeadBotLoses
PROPERTIES
  DecidedByRules
  ImplementsRows
  CleansUp
  Terminates
