SPECIFICATION AgentSpec
CONSTANTS
  Size = 8
  WinLen = 5
  Zone <- SecondColumn
CHECK_DEADLOCK FALSE
PROPERTIES
  WinBeatsBlocking
