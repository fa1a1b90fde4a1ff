SPECIFICATION Spec
CONSTANTS
  MaxMoves = 2
  MaxLines = 2
CHECK_DEADLOCK FALSE
INVARIANTS
  FirstLineWins
