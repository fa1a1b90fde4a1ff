SPECIFICATION FairSpec
CONSTANTS
  Request = {r1, r2}
  Failing = {"file", "db", "docker", "client", "delete", "remove"}
  MaxFaults = 2
  MaxCrashes = 1
CHECK_DEADLOCK FALSE
INVARIANTS
  TypeOK
  RowsHaveFiles
  FilesHaveRows
  AnswerIsTrue
  BuildCleansUp
PROPERTIES
  RequestEnds
