SPECIFICATION Spec
CONSTANTS
  Size = 3
  WinLen = 3
CHECK_DEADLOCK FALSE
INVARIANTS
  TypeOK
  WinExact
  DrawExact
PROPERTIES
  ImplementsRules
