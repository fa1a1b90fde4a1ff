SPECIFICATION Spec
CONSTANTS
  MaxMoves = 3
  MaxLines = 2
CHECK_DEADLOCK FALSE
INVARIANTS
  TypeOK
  OneReader
  PoliteIsFresh
PROPERTIES
  ImplementsAgentRunner
